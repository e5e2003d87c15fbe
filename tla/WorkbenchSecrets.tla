---- MODULE WorkbenchSecrets ----
(***************************************************************************)
(* Where the secrets of the Workbench may be: what was cleared stays away, *)
(* the vault never mixes two sessions, the tokens of a session kept in     *)
(* cookies never reach the page, and no request of this page alone fails   *)
(* the service's CSRF filter.                                              *)
(***************************************************************************)
EXTENDS WorkbenchProofs

(***************************************************************************)
(* What the service answers.                                               *)
(***************************************************************************)
\* The secrets a reply names belong to its call and to their own variables.
Own(p, c) == \A v \in DOMAIN p.data : p.data[v].by = c /\ p.data[v].kind = v

\* The two tokens come together and speak for one session.
Paired(p) ==
  /\ "accessToken" \in DOMAIN p.data <=> "refreshToken" \in DOMAIN p.data
  /\ "accessToken" \in DOMAIN p.data => p.data["accessToken"].session = p.data["refreshToken"].session

\* The five ways a request is answered: the tokens of a new session, the tokens of
\* a renewed one, the end of a session, a CSRF token, or none of these.
Opens(c) ==
  /\ calls[c].endpoint \in SESSION_ISSUING_ENDPOINTS
  /\ DeliverLogin(c)
Renews(c, s) ==
  LET token == ReadRefreshToken(Request(c))
  IN /\ calls[c].endpoint = "auth-refresh"
     /\ s \in Sessions
     /\ token.kind = "refreshToken" /\ token.by # 0 /\ token.session = s
     /\ DeliverRefresh(c, s)
Closes(c) == Reply(c, 204, << >>, ClearedCookies) /\ UNCHANGED past
Protects(c) ==
  LET s == CurrentSessionId(Request(c))
      token == Value("csrfToken", s, c)
  IN /\ s # 0
     /\ Reply(c, 200, [csrfToken |-> token], [csrf |-> token])
     /\ UNCHANGED past
Tells(c, status, data) ==
  /\ status \in {200, 202, 401, 403}
  /\ status = 403 => CsrfRejected(Request(c))
  /\ status = 200 => calls[c].endpoint # "auth-login"
  /\ DOMAIN data \cap {"accessToken", "refreshToken"} = {}
  /\ \A v \in DOMAIN data : data[v].by = c /\ data[v].kind = v
  /\ Reply(c, status, data, << >>)
  /\ UNCHANGED past
Answers(c) ==
  /\ calls[c].wire = "sent"
  /\ \/ Opens(c)
     \/ \E s : Renews(c, s)
     \/ Closes(c)
     \/ Protects(c)
     \/ \E status, data : Tells(c, status, data)

\* Nothing is told beside the status.
LEMMA TellsNothing ==
  ASSUME NEW c \in Calls, NEW status \in {401, 403}, status = 403 => CsrfRejected(Request(c)),
         Reply(c, status, << >>, << >>), UNCHANGED past
  PROVE Tells(c, status, << >>)
<1>1. DOMAIN << >> = {}
  BY Nothing
<1> QED
  BY <1>1 DEF Tells

\* Every answer of the service is one of these.
LEMMA ServeAnswers ==
  ASSUME Shape, NEW c \in Calls, Serve(c)
  PROVE Answers(c)
<1>0. calls[c].wire = "sent"
  BY DEF Serve, ServeLogin, ServeMfaLogin, ServeRefresh, ServeLogout, ServeCsrf, ServeAuthorize,
     ServeCallback, ServeOther, ServeRefused, Asked
<1>1. CASE ServeLogin(c)
  <2>1. calls[c].endpoint = "auth-login"
    BY <1>1 DEF ServeLogin, Asked
  <2>2. CASE server.mfa
    <3> DEFINE data == [mfaTicket |-> Value("mfaTicket", 0, c)]
    <3>1. DOMAIN data = {"mfaTicket"} /\ data["mfaTicket"].by = c /\ data["mfaTicket"].kind = "mfaTicket"
      BY DEF Value
    <3>2. Reply(c, 202, data, << >>) /\ UNCHANGED past
      BY <1>1, <2>2 DEF ServeLogin
    <3> HIDE DEF data
    <3>3. Tells(c, 202, data)
      BY <3>1, <3>2 DEF Tells
    <3> QED
      BY <1>0, <3>3 DEF Answers
  <2>3. CASE ~server.mfa
    BY <1>0, <1>1, <2>1, <2>3 DEF ServeLogin, Opens, Answers, SESSION_ISSUING_ENDPOINTS
  <2> QED
    BY <2>2, <2>3
<1>2. CASE ServeMfaLogin(c) \/ ServeCallback(c)
  <2>1. calls[c].endpoint \in SESSION_ISSUING_ENDPOINTS
    BY <1>2 DEF ServeMfaLogin, ServeCallback, Asked, SESSION_ISSUING_ENDPOINTS
  <2>2. DeliverLogin(c) \/ (Reply(c, 401, << >>, << >>) /\ UNCHANGED past)
    BY <1>2 DEF ServeMfaLogin, ServeCallback
  <2> QED
    BY <1>0, <2>1, <2>2, TellsNothing DEF Answers, Opens
<1>3. CASE ServeRefresh(c)
  <2> DEFINE token == ReadRefreshToken(Request(c))
  <2>1. calls[c].endpoint = "auth-refresh"
    BY <1>3 DEF ServeRefresh, Asked
  <2>2. \/ /\ token.kind = "refreshToken" /\ token.by # 0 /\ token.session \in server.open
           /\ DeliverRefresh(c, token.session)
        \/ Reply(c, 401, << >>, << >>) /\ UNCHANGED past
    BY <1>3 DEF ServeRefresh
  <2>3. server.open \subseteq Sessions
    BY DEF Shape, World, ServerType
  <2>4. CASE /\ token.kind = "refreshToken" /\ token.by # 0 /\ token.session \in server.open
             /\ DeliverRefresh(c, token.session)
    <3>1. Renews(c, token.session)
      BY <2>1, <2>3, <2>4 DEF Renews
    <3> QED
      BY <1>0, <3>1 DEF Answers
  <2>5. CASE Reply(c, 401, << >>, << >>) /\ UNCHANGED past
    BY <1>0, <2>5, TellsNothing DEF Answers
  <2> QED
    BY <2>2, <2>4, <2>5
<1>4. CASE ServeLogout(c)
  BY <1>0, <1>4 DEF ServeLogout, Answers, Closes
<1>5. CASE ServeCsrf(c)
  BY <1>0, <1>5 DEF ServeCsrf, Answers, Protects
<1>6. CASE ServeAuthorize(c)
  <2> DEFINE data == [socialCode |-> Value("socialCode", 0, c), socialState |-> Value("socialState", 0, c)]
  <2>1. /\ DOMAIN data = {"socialCode", "socialState"}
        /\ data["socialCode"].by = c /\ data["socialCode"].kind = "socialCode"
        /\ data["socialState"].by = c /\ data["socialState"].kind = "socialState"
    BY DEF Value
  <2>2. /\ Reply(c, 200, data, << >>) /\ UNCHANGED past
        /\ calls[c].endpoint = "social-authorize"
    BY <1>6 DEF ServeAuthorize, Asked
  <2> HIDE DEF data
  <2>3. Tells(c, 200, data)
    BY <2>1, <2>2 DEF Tells
  <2> QED
    BY <1>0, <2>3 DEF Answers
<1>7. CASE ServeOther(c)
  <2> DEFINE data == ShownOnce(calls[c].endpoint, c)
  <2>1. /\ Reply(c, 200, data, << >>) /\ UNCHANGED past
        /\ calls[c].endpoint # "auth-login"
    BY <1>7 DEF ServeOther, Handled
  <2>2. /\ DOMAIN data \cap {"accessToken", "refreshToken"} = {}
        /\ \A v \in DOMAIN data : data[v].by = c /\ data[v].kind = v
    BY ShownOnceTyped
  <2> HIDE DEF data
  <2>3. Tells(c, 200, data)
    BY <2>1, <2>2 DEF Tells
  <2> QED
    BY <1>0, <2>3 DEF Answers
<1>8. CASE ServeRefused(c)
  <2>1. CASE CsrfRejected(Request(c))
    <3>1. Reply(c, 403, << >>, << >>) /\ UNCHANGED past
      BY <1>8, <2>1 DEF ServeRefused
    <3> QED
      BY <1>0, <2>1, <3>1, TellsNothing DEF Answers
  <2>2. CASE ~CsrfRejected(Request(c))
    <3>1. Reply(c, 401, << >>, << >>) /\ UNCHANGED past
      BY <1>8, <2>2 DEF ServeRefused
    <3> QED
      BY <1>0, <3>1, TellsNothing DEF Answers
  <2> QED
    BY <2>1, <2>2
<1> QED
  BY <1>1, <1>2, <1>3, <1>4, <1>5, <1>6, <1>7, <1>8 DEF Serve

\* What a reply changes: its own request only, and its content only if the page
\* still waits for it.
LEMMA AnswerReply ==
  ASSUME Shape, NEW c \in Calls, NEW status, NEW data, NEW cookies, Reply(c, status, data, cookies)
  PROVE /\ \A i \in Calls \ {c} : calls'[i] = calls[i]
        /\ calls'[c].wire = "served"
        /\ calls'[c].waiting = calls[c].waiting /\ calls'[c].aborted = calls[c].aborted
        /\ calls'[c].flow = calls[c].flow /\ calls'[c].mode = calls[c].mode
        /\ calls'[c].endpoint = calls[c].endpoint
        /\ calls'[c].reply.status = status
        /\ \/ calls'[c].reply.data = data /\ calls'[c].reply.cookies = cookies
           \/ /\ ~(calls[c].waiting /\ ~calls[c].aborted)
              /\ DOMAIN calls'[c].reply.data = {} /\ DOMAIN calls'[c].reply.cookies = {}
<1> DEFINE p == IF calls[c].waiting /\ ~calls[c].aborted
                THEN [status |-> status, data |-> data, cookies |-> cookies]
                ELSE [NoReply EXCEPT !.status = status]
<1>1. /\ p.status = status
      /\ \/ p.data = data /\ p.cookies = cookies
         \/ ~(calls[c].waiting /\ ~calls[c].aborted) /\ p.data = NoReply.data /\ p.cookies = NoReply.cookies
  BY DEF NoReply
<1>2. calls' = [calls EXCEPT ![c].wire = "served", ![c].request = << >>, ![c].reply = p]
  BY DEF Reply
<1>3. calls = [i \in Calls |-> calls[i]] /\ IsCall(calls[c])
  BY DEF Shape, Runs
<1> HIDE DEF p
<1>4. /\ calls' = [calls EXCEPT ![c] = AnsweredAs(calls[c], p)]
      /\ \A i \in Calls : calls'[i] = IF i = c THEN AnsweredAs(calls[c], p) ELSE calls[i]
  BY <1>2, <1>3 DEF AnsweredAs
<1>5. LET a == AnsweredAs(calls[c], p)
      IN /\ a.wire = "served" /\ a.waiting = calls[c].waiting /\ a.aborted = calls[c].aborted
         /\ a.flow = calls[c].flow /\ a.mode = calls[c].mode /\ a.endpoint = calls[c].endpoint
         /\ a.reply = p
  <2> PICK r : r = calls[c]
    OBVIOUS
  <2>1. LET a == AnsweredAs(r, p)
        IN /\ a.wire = "served" /\ a.waiting = r.waiting /\ a.aborted = r.aborted
           /\ a.flow = r.flow /\ a.mode = r.mode /\ a.endpoint = r.endpoint
           /\ a.reply = p
    BY <1>3 DEF IsCall, AnsweredAs
  <2> QED
    BY <2>1
<1> QED
  BY <1>1, <1>4, <1>5, Blank

\* What the service delivers: the pair to the page, or the cookies to the browser.
LEMMA DeliveredReply ==
  ASSUME Shape, NEW c \in Calls, NEW s \in Sessions, NEW byCookie, Delivered(c, s, byCookie)
  PROVE IF byCookie
        THEN Reply(c, 200, << >>, AuthCookies(s, c)) /\ past' = [past EXCEPT !.inCookies = @ \union {s}]
        ELSE Reply(c, 200, TokenPair(s, c), << >>) /\ past' = past
BY DEF Delivered

\* The minted pair and the minted cookies, field by field.
LEMMA PairFields ==
  ASSUME NEW s, NEW c
  PROVE /\ DOMAIN TokenPair(s, c) = {"accessToken", "refreshToken"}
        /\ \A v \in {"accessToken", "refreshToken"} :
             /\ TokenPair(s, c)[v].by = c /\ TokenPair(s, c)[v].kind = v
             /\ TokenPair(s, c)[v].session = s
        /\ DOMAIN AuthCookies(s, c) = CookieNames
        /\ \A k \in CookieNames : AuthCookies(s, c)[k].by = c /\ AuthCookies(s, c)[k].session = s
        /\ AuthCookies(s, c)["refresh"].by = c
        /\ AuthCookies(s, c)["csrf"].kind = "csrfToken"
BY DEF TokenPair, AuthCookies, CookieNames, Value

\* A delivery renews or opens a session.
LEMMA DeliveryAnswers ==
  ASSUME Shape, NEW c \in Calls, Opens(c) \/ \E s : Renews(c, s)
  PROVE \E s \in Sessions, byCookie \in BOOLEAN : Delivered(c, s, byCookie)
<1>1. CASE Opens(c)
  <2>1. PICK byCookie : byCookie = Request(c).headers.transport
    OBVIOUS
  <2>2. Delivered(c, c, byCookie) /\ c \in Sessions
    BY <1>1, <2>1, Numbers DEF Opens, DeliverLogin
  <2>3. Delivered(c, c, TRUE) \/ Delivered(c, c, FALSE)
    BY <2>2 DEF Delivered
  <2> QED
    BY <2>2, <2>3
<1>2. ASSUME NEW s, Renews(c, s)
      PROVE \E t \in Sessions, byCookie \in BOOLEAN : Delivered(c, t, byCookie)
  <2>1. PICK byCookie : byCookie = RefreshUsesCookies(Request(c))
    OBVIOUS
  <2>2. Delivered(c, s, byCookie) /\ s \in Sessions
    BY <1>2, <2>1 DEF Renews, DeliverRefresh
  <2>3. Delivered(c, s, TRUE) \/ Delivered(c, s, FALSE)
    BY <2>2 DEF Delivered
  <2> QED
    BY <2>2, <2>3
<1> QED
  BY <1>1, <1>2

\* A reply without fields owns and pairs nothing.
LEMMA EmptyReply ==
  ASSUME NEW p, NEW c, DOMAIN p.data = {}
  PROVE Own(p, c) /\ Paired(p)
BY DEF Own, Paired

\* Every secret in a reply is of its call, and the tokens come together.
LEMMA RepliesMinted ==
  ASSUME Shape, NEW c \in Calls, Serve(c)
  PROVE Own(calls'[c].reply, c) /\ Paired(calls'[c].reply)
<1>0. Answers(c)
  BY ServeAnswers
<1>9. ASSUME NEW status, NEW data, NEW cookies, Reply(c, status, data, cookies)
      PROVE calls'[c].reply.data = data \/ DOMAIN calls'[c].reply.data = {}
  BY <1>9, AnswerReply
<1>1. ASSUME NEW status, NEW data, NEW cookies, Reply(c, status, data, cookies),
             \A v \in DOMAIN data : data[v].by = c /\ data[v].kind = v,
             "accessToken" \in DOMAIN data <=> "refreshToken" \in DOMAIN data,
             "accessToken" \in DOMAIN data => data["accessToken"].session = data["refreshToken"].session
      PROVE Own(calls'[c].reply, c) /\ Paired(calls'[c].reply)
  <2>1. calls'[c].reply.data = data \/ DOMAIN calls'[c].reply.data = {}
    BY <1>1, <1>9
  <2>2. CASE calls'[c].reply.data = data
    BY <1>1, <2>2 DEF Own, Paired
  <2>3. CASE DOMAIN calls'[c].reply.data = {}
    BY <2>3, EmptyReply
  <2> QED
    BY <2>1, <2>2, <2>3
<1>2. ASSUME NEW s \in Sessions, NEW byCookie, Delivered(c, s, byCookie)
      PROVE Own(calls'[c].reply, c) /\ Paired(calls'[c].reply)
  <2>1. CASE byCookie
    BY <1>1, <1>2, <2>1, DeliveredReply, Nothing
  <2>2. CASE ~byCookie
    BY <1>1, <1>2, <2>2, DeliveredReply, PairFields
  <2> QED
    BY <2>1, <2>2
<1>3. CASE Opens(c) \/ \E s : Renews(c, s)
  BY <1>2, <1>3, DeliveryAnswers
<1>4. CASE Closes(c)
  BY <1>1, <1>4, Nothing DEF Closes
<1>5. CASE Protects(c)
  <2> DEFINE data == [csrfToken |-> Value("csrfToken", CurrentSessionId(Request(c)), c)]
             cookies == [csrf |-> Value("csrfToken", CurrentSessionId(Request(c)), c)]
  <2>1. DOMAIN data = {"csrfToken"} /\ data["csrfToken"].by = c /\ data["csrfToken"].kind = "csrfToken"
    BY DEF Value
  <2>2. Reply(c, 200, data, cookies)
    BY <1>5 DEF Protects
  <2> HIDE DEF data, cookies
  <2> QED
    BY <1>1, <2>1, <2>2
<1>6. ASSUME NEW status, NEW data, Tells(c, status, data)
      PROVE Own(calls'[c].reply, c) /\ Paired(calls'[c].reply)
  BY <1>1, <1>6 DEF Tells
<1> QED
  BY <1>0, <1>3, <1>4, <1>5, <1>6 DEF Answers

\* Apart from the service's answer, a reply stays as it is or is forgotten.
LEMMA ReplyKept ==
  ASSUME Steady, RunStep, NEW i \in Calls
  PROVE \/ Serve(i)
        \/ calls'[i].reply = calls[i].reply
        \/ /\ DOMAIN calls'[i].reply.data = {} /\ DOMAIN calls'[i].reply.cookies = {}
           /\ calls'[i].reply.status \in {0, calls[i].reply.status}
<1>0. CallStep(i) /\ IsCall(calls[i])
  BY CallSteps DEF Steady, Shape, Runs
<1>1. CASE i = latest + 1 /\ latest' = i /\ BegunCall(calls'[i])
  BY <1>1, Blank DEF BegunCall, NoReply
<1>2. CASE calls'[i] = [calls[i] EXCEPT !.aborted = TRUE]
  <2> PICK r, d : r = calls[i] /\ d = calls'[i]
    OBVIOUS
  <2>1. IsCall(r) /\ d = [r EXCEPT !.aborted = TRUE]
    BY <1>0, <1>2
  <2> QED
    BY <2>1, AbortedTyped
<1>3. CASE calls'[i] = [calls[i] EXCEPT !.wire = "received"]
  <2> PICK r, d : r = calls[i] /\ d = calls'[i]
    OBVIOUS
  <2>1. IsCall(r) /\ d = [r EXCEPT !.wire = "received"]
    BY <1>0, <1>3
  <2> QED
    BY <2>1, ReceivedTyped
<1>4. CASE calls'[i] = Ended(calls[i])
  <2> PICK r, d : r = calls[i] /\ d = calls'[i]
    OBVIOUS
  <2>1. IsCall(r) /\ d = Ended(r)
    BY <1>0, <1>4
  <2> QED
    BY <2>1, EndedTyped
<1> QED
  BY <1>0, <1>1, <1>2, <1>3, <1>4 DEF CallStep, Answered

(***************************************************************************)
(* Cleared stays cleared, and the vault holds one pair.                    *)
(***************************************************************************)
\* A request begun and no longer awaited.
Over(c) == c \in Calls /\ c <= latest /\ ~calls[c].waiting
WillBeOver(c) == c \in Calls /\ c <= latest' /\ ~calls'[c].waiting

\* Every secret of the vault was obtained by a request that has settled, so what is
\* cleared cannot arrive once more; the tokens of the vault are of one reply.
Kept ==
  /\ \A c \in Calls : Own(calls[c].reply, c) /\ Paired(calls[c].reply)
  /\ \A v \in Variables \ {"csrfToken"} : variables[v].by # 0 => Over(variables[v].by)
  /\ \A x \in past.cleared : x.by # 0 /\ Over(x.by)
  /\ \A v \in Variables \ {"csrfToken"} : variables[v] \notin past.cleared
  /\ VaultHoldsOnePair

\* A settled request stays settled.
LEMMA OverStays ==
  ASSUME Steady, RunStep, NEW i, Over(i)
  PROVE WillBeOver(i)
<1>1. i \in Calls /\ i <= latest /\ ~calls[i].waiting /\ latest \in 0..MaxCalls /\ i \in Nat
  BY DEF Over, Steady, Shape, Runs, Calls
<1>2. Shape /\ CallStep(i)
  BY <1>1, CallSteps DEF Steady
<1>3. ~calls'[i].waiting
  <2>1. i # latest + 1
    BY <1>1
  <2> QED
    BY <1>1, <1>2, <2>1, CallStays
<1>4. latest' = latest \/ latest' = latest + 1
  BY DEF RunStep, run, Begins, Enters, Serves, Receives, Settles, SettlesAndBegins, Reloads, Finish
<1> QED
  BY <1>1, <1>3, <1>4 DEF WillBeOver

\* A request whose result is captured has settled.
LEMMA CapturedIsOver ==
  ASSUME Steady, NEW c \in Calls, Captures(c)
  PROVE ~Over(c) /\ WillBeOver(c)
<1>1. Pending(c, {"received"}) /\ (Settles(c) \/ SettlesAndBegins(c))
  BY DEF Captures
<1>2. c = latest /\ c = abortRef /\ RefAfter(c) = 0 /\ c \in Nat /\ 0 \notin Calls /\ calls[c].waiting
  <2>1. c = latest /\ c = abortRef /\ RefAfter(c) = 0
    BY <1>1, PendingIsLatest
  <2>2. c \in Nat /\ 0 \notin Calls /\ calls[c].waiting
    BY <1>1 DEF Pending, Calls
  <2> QED
    BY <2>1, <2>2
<1>3. calls = [i \in Calls |-> calls[i]] /\ IsCall(calls[c])
  BY DEF Steady, Shape, Runs
<1>6. c <= latest /\ c <= latest + 1
  BY <1>2
<1>4. calls'[c] = Ended(calls[c]) /\ c <= latest'
  <2>1. Settled(c)[c] = Ended(calls[c])
    BY <1>3 DEF Settled
  <2>2. CASE Settles(c)
    <3>1. calls' = Settled(c) /\ latest' = latest
      BY <2>2 DEF Settles, Finish
    <3> QED
      BY <1>6, <2>1, <3>1
  <2>3. CASE SettlesAndBegins(c)
    <3>1. PICK r : Enters(Settled(c), RefAfter(c), r)
      BY <2>3 DEF SettlesAndBegins, Begins
    <3>2. /\ latest' = latest + 1
          /\ calls' = [i \in Calls |->
               IF i = latest + 1 THEN r
               ELSE IF i = RefAfter(c) THEN [Settled(c)[i] EXCEPT !.aborted = TRUE] ELSE Settled(c)[i]]
      BY <3>1 DEF Enters
    <3>3. c # latest + 1 /\ c # RefAfter(c)
      BY <1>2 DEF Calls
    <3>4. calls'[c] = Settled(c)[c]
      BY <3>2, <3>3
    <3>5. c <= latest'
      BY <1>6, <3>2
    <3> QED
      BY <2>1, <3>4, <3>5
  <2> QED
    BY <1>1, <2>2, <2>3
<1>5. ~calls'[c].waiting
  <2> PICK r, d : r = calls[c] /\ d = calls'[c]
    OBVIOUS
  <2>1. IsCall(r) /\ d = Ended(r)
    BY <1>3, <1>4
  <2> QED
    BY <2>1, EndedTyped
<1> QED
  BY <1>2, <1>4, <1>5 DEF Over, WillBeOver

\* The replies stay minted, whatever the step.
LEMMA MintedStay ==
  ASSUME Steady, RunStep, \A c \in Calls : Own(calls[c].reply, c) /\ Paired(calls[c].reply),
         NEW i \in Calls
  PROVE Own(calls'[i].reply, i) /\ Paired(calls'[i].reply)
<1>1. CASE Serve(i)
  BY <1>1, RepliesMinted DEF Steady
<1>2. CASE calls'[i].reply = calls[i].reply
  BY <1>2
<1>3. CASE DOMAIN calls'[i].reply.data = {}
  BY <1>3, EmptyReply
<1> QED
  BY <1>1, <1>2, <1>3, ReplyKept

\* The CSRF token that is captured is the reply's or the cookie's.
LEMMA CapturedCsrf ==
  ASSUME NEW r, NEW v, v \in DOMAIN captureResponseData(r)
  PROVE \/ v \in DOMAIN r.reply.data /\ captureResponseData(r)[v] = r.reply.data[v]
        \/ v = "csrfToken" /\ captureResponseData(r)[v] = jar.csrf
<1> DEFINE fields == DOMAIN r.reply.data \cap CapturedFrom(r.endpoint)
           captured == [w \in fields |-> r.reply.data[w]]
           cookie == [k \in {"csrfToken"} |-> readCookie(jar)]
<1>1. DOMAIN captured = fields /\ \A w \in fields : captured[w] = r.reply.data[w]
  OBVIOUS
<1>2. DOMAIN cookie = {"csrfToken"} /\ cookie["csrfToken"] = jar.csrf
  BY DEF readCookie
<1>3. fields \subseteq DOMAIN r.reply.data
  OBVIOUS
<1>4. captureResponseData(r) = captured \/ captureResponseData(r) = Spread(cookie, captured)
  BY DEF captureResponseData
<1> HIDE DEF fields, captured, cookie
<1>5. CASE captureResponseData(r) = captured
  BY <1>1, <1>3, <1>5
<1>6. CASE captureResponseData(r) = Spread(cookie, captured)
  <2>1. /\ DOMAIN captureResponseData(r) = {"csrfToken"} \union fields
        /\ captureResponseData(r)["csrfToken"] = jar.csrf
        /\ \A w \in fields \ {"csrfToken"} : captureResponseData(r)[w] = r.reply.data[w]
    BY <1>1, <1>2, <1>6 DEF Spread
  <2> QED
    BY <1>3, <2>1
<1> QED
  BY <1>4, <1>5, <1>6

\* What a variable holds after a step: what it held, no secret, what the
\* delivered reply names, or the CSRF cookie.
Changes(v) ==
  \/ variables'[v] = variables[v]
  \/ variables'[v].by = 0
  \/ \E c \in Calls : /\ Captures(c)
                      /\ v \in DOMAIN calls[c].reply.data
                      /\ variables'[v] = calls[c].reply.data[v]
  \/ v = "csrfToken" /\ variables'[v] = jar.csrf

\* Each step changes each variable in one of these ways.
LEMMA VariableSteps ==
  ASSUME Steady, Mirrored, VaultStep, NEW v \in Variables
  PROVE Changes(v)
<1>0. /\ variables \in [Variables -> Text] /\ stored \in [STORAGE_KEYS -> Text]
      /\ EMPTY_VARIABLES[v].by = 0
      /\ storageWorks => (\A k \in STORAGE_KEYS : stored[k] = variables[k])
  BY NoSecrets DEF Steady, Shape, Vault, EMPTY_VARIABLES, Mirrored, VaultMirrorsStorage
<1>1. CASE UNCHANGED vault
  BY <1>1 DEF vault, Changes
<1>2. ASSUME NEW updates, Enters0(updates), setVariable(updates)
      PROVE Changes(v)
  <2>1. variables' = Spread(updates, variables)
    BY <1>2 DEF setVariable
  <2>2. variables'[v] = IF v \in DOMAIN updates THEN updates[v] ELSE variables[v]
    BY <1>0, <2>1 DEF Spread
  <2> QED
    BY <1>2, <2>2 DEF Enters0, Changes
<1>3. ASSUME NEW c \in Calls, Captures(c)
      PROVE Changes(v)
  <2> PICK updates : updates = captureResponseData(calls[c])
    OBVIOUS
  <2>1. variables' = Spread(updates, variables)
    BY <1>3 DEF Captures, setVariable
  <2>2. variables'[v] = IF v \in DOMAIN updates THEN updates[v] ELSE variables[v]
    BY <1>0, <2>1 DEF Spread
  <2>3. v \in DOMAIN updates =>
          \/ v \in DOMAIN calls[c].reply.data /\ updates[v] = calls[c].reply.data[v]
          \/ v = "csrfToken" /\ updates[v] = jar.csrf
    <3> PICK r : r = calls[c]
      OBVIOUS
    <3>1. v \in DOMAIN captureResponseData(r) =>
            \/ v \in DOMAIN r.reply.data /\ captureResponseData(r)[v] = r.reply.data[v]
            \/ v = "csrfToken" /\ captureResponseData(r)[v] = jar.csrf
      BY CapturedCsrf
    <3> QED
      BY <3>1
  <2> QED
    BY <1>3, <2>2, <2>3 DEF Changes
<1>4. CASE Clears
  BY <1>0, <1>4 DEF Clears, Changes
<1>5. CASE /\ variables' = IF storageWorks THEN readVault(stored, EMPTY_VARIABLES) ELSE EMPTY_VARIABLES
           /\ UNCHANGED <<stored, past>>
  BY <1>0, <1>5 DEF readVault, Changes
<1> QED
  BY <1>1, <1>2, <1>3, <1>4, <1>5 DEF VaultStep

\* The tokens of the vault change together, or one of them is no secret.
LEMMA PairStays ==
  ASSUME Steady, Mirrored, Kept, VaultStep
  PROVE VaultHoldsOnePair'
<1>0. /\ variables \in [Variables -> Text] /\ stored \in [STORAGE_KEYS -> Text]
      /\ {"accessToken", "refreshToken"} \subseteq Variables
      /\ {"accessToken", "refreshToken"} \subseteq STORAGE_KEYS
      /\ EMPTY_VARIABLES["accessToken"].by = 0
      /\ storageWorks => (\A k \in STORAGE_KEYS : stored[k] = variables[k])
      /\ VaultHoldsOnePair
  BY NoSecrets DEF Steady, Shape, Vault, EMPTY_VARIABLES, Mirrored, VaultMirrorsStorage,
     Variables, STORAGE_KEYS, Kept
<1>9. ASSUME \A v \in {"accessToken", "refreshToken"} : variables'[v] = variables[v] \/ variables'[v].by = 0
      PROVE VaultHoldsOnePair'
  BY <1>0, <1>9 DEF VaultHoldsOnePair
<1>1. CASE UNCHANGED vault
  BY <1>1, <1>9 DEF vault
<1>2. ASSUME NEW updates, Enters0(updates), setVariable(updates)
      PROVE VaultHoldsOnePair'
  <2>1. variables' = Spread(updates, variables)
    BY <1>2 DEF setVariable
  <2>2. \A v \in {"accessToken", "refreshToken"} :
          variables'[v] = IF v \in DOMAIN updates THEN updates[v] ELSE variables[v]
    BY <1>0, <2>1 DEF Spread
  <2> QED
    BY <1>2, <1>9, <2>2 DEF Enters0
<1>3. ASSUME NEW c \in Calls, Captures(c)
      PROVE VaultHoldsOnePair'
  <2> PICK updates : updates = captureResponseData(calls[c])
    OBVIOUS
  <2> PICK data : data = calls[c].reply.data
    OBVIOUS
  <2>1. variables' = Spread(updates, variables)
    BY <1>3 DEF Captures, setVariable
  <2>2. \A v \in {"accessToken", "refreshToken"} :
          variables'[v] = IF v \in DOMAIN updates THEN updates[v] ELSE variables[v]
    BY <1>0, <2>1 DEF Spread
  <2>3. IsCall(calls[c]) /\ jar \in Jars
    BY DEF Steady, Shape, Runs, World
  <2>4. \A v \in {"accessToken", "refreshToken"} :
          /\ v \in DOMAIN updates <=> v \in DOMAIN data
          /\ v \in DOMAIN updates => updates[v] = data[v]
    BY <2>3, CapturedTyped
  <2>5. /\ "accessToken" \in DOMAIN data <=> "refreshToken" \in DOMAIN data
        /\ "accessToken" \in DOMAIN data => data["accessToken"].session = data["refreshToken"].session
        /\ \A v \in DOMAIN data : data[v].by = c
    BY DEF Kept, Own, Paired
  <2>6. CASE "accessToken" \in DOMAIN data
    <3>1. variables'["accessToken"] = data["accessToken"] /\ variables'["refreshToken"] = data["refreshToken"]
      BY <2>2, <2>4, <2>5, <2>6
    <3> QED
      BY <2>5, <2>6, <3>1 DEF VaultHoldsOnePair
  <2>7. CASE "accessToken" \notin DOMAIN data
    BY <1>9, <2>2, <2>4, <2>5, <2>7
  <2> QED
    BY <2>6, <2>7
<1>4. CASE Clears
  <2>1. \A v \in {"accessToken", "refreshToken"} : variables'[v].by = 0
    BY <1>0, <1>4, NoSecrets DEF Clears, EMPTY_VARIABLES
  <2> QED
    BY <1>9, <2>1
<1>5. CASE /\ variables' = IF storageWorks THEN readVault(stored, EMPTY_VARIABLES) ELSE EMPTY_VARIABLES
           /\ UNCHANGED <<stored, past>>
  <2>1. \A v \in {"accessToken", "refreshToken"} : variables'[v] = variables[v] \/ variables'[v].by = 0
    BY <1>0, <1>5, NoSecrets DEF readVault, EMPTY_VARIABLES
  <2> QED
    BY <1>9, <2>1
<1> QED
  BY <1>1, <1>2, <1>3, <1>4, <1>5 DEF VaultStep

\* What was cleared before a step, or is cleared by it, does not come back.
LEMMA KeptStep == Steady /\ Mirrored /\ Kept /\ [Next]_vars => Kept'
<1> SUFFICES ASSUME Steady, Mirrored, Kept, [Next]_vars
             PROVE Kept'
  OBVIOUS
<1>0. RunStep /\ VaultStep
  BY EveryStep DEF AllSteps
<1>1. \A c \in Calls : Own(calls'[c].reply, c) /\ Paired(calls'[c].reply)
  BY <1>0, MintedStay DEF Kept
<1>2. \A i : Over(i) => WillBeOver(i)
  BY <1>0, OverStays
<1>3. \A v \in Variables \ {"csrfToken"} : Changes(v)
  BY <1>0, VariableSteps
<1>4. ASSUME NEW v \in Variables \ {"csrfToken"}, variables'[v].by # 0
      PROVE \/ /\ variables'[v] = variables[v] /\ Over(variables[v].by)
            \/ ~Over(variables'[v].by) /\ WillBeOver(variables'[v].by)
  <2>1. CASE variables'[v] = variables[v]
    BY <1>4, <2>1 DEF Kept
  <2>2. ASSUME NEW c \in Calls, Captures(c), v \in DOMAIN calls[c].reply.data,
               variables'[v] = calls[c].reply.data[v]
        PROVE ~Over(variables'[v].by) /\ WillBeOver(variables'[v].by)
    <3>1. variables'[v].by = c
      BY <2>2 DEF Kept, Own
    <3>2. ~Over(c) /\ WillBeOver(c)
      BY <2>2, CapturedIsOver
    <3> QED
      BY <3>1, <3>2
  <2> QED
    BY <1>3, <1>4, <2>1, <2>2 DEF Changes
<1>5. \A v \in Variables \ {"csrfToken"} : variables'[v].by # 0 => WillBeOver(variables'[v].by)
  <2> TAKE v \in Variables \ {"csrfToken"}
  <2> HAVE variables'[v].by # 0
  <2>1. CASE variables'[v] = variables[v] /\ Over(variables[v].by)
    BY <1>2, <2>1
  <2> QED
    BY <1>4, <2>1
<1>6. past'.cleared = past.cleared \/ Clears
  BY <1>0 DEF VaultStep, Captures
<1>7. \A x \in past.cleared : x.by # 0 /\ Over(x.by)
  BY DEF Kept
<1>8. CASE past'.cleared = past.cleared
  <2>1. \A x \in past'.cleared : x.by # 0 /\ WillBeOver(x.by)
    <3> TAKE x \in past'.cleared
    <3> QED
      BY <1>2, <1>7, <1>8
  <2>2. ASSUME NEW v \in Variables \ {"csrfToken"}
        PROVE variables'[v] \notin past'.cleared
    <3>1. CASE variables'[v].by = 0
      BY <1>7, <1>8, <3>1
    <3>2. CASE variables'[v] = variables[v]
      BY <1>8, <3>2 DEF Kept
    <3>3. CASE variables'[v].by # 0 /\ ~Over(variables'[v].by)
      BY <1>7, <1>8, <3>3
    <3> QED
      BY <1>4, <3>1, <3>2, <3>3
  <2> QED
    BY <1>0, <1>1, <1>5, <2>1, <2>2, PairStays DEF Kept, Over, WillBeOver
<1>9. CASE Clears
  <2>1. /\ variables' = EMPTY_VARIABLES
        /\ past' = [past EXCEPT !.cleared = @ \union Secrets(variables)]
        /\ past \in PastType
    BY <1>9 DEF Clears, Steady, Shape, World
  <2>2. past'.cleared = past.cleared \union Secrets(variables)
    BY <2>1 DEF PastType
  <2>3. \A x \in Secrets(variables) : x.by # 0 /\ Over(x.by)
    BY DEF Secrets, Kept
  <2>4. \A x \in past'.cleared : x.by # 0 /\ WillBeOver(x.by)
    <3> TAKE x \in past'.cleared
    <3> QED
      BY <1>2, <1>7, <2>2, <2>3
  <2>5. ASSUME NEW v \in Variables \ {"csrfToken"}
        PROVE variables'[v] \notin past'.cleared
    <3>1. variables'[v].by = 0
      BY <2>1, NoSecrets DEF EMPTY_VARIABLES
    <3> QED
      BY <2>4, <3>1
  <2> QED
    BY <1>0, <1>1, <1>5, <2>4, <2>5, PairStays DEF Kept, Over, WillBeOver
<1> QED
  BY <1>6, <1>8, <1>9

\* The empty vault keeps nothing.
LEMMA KeptInit == Init => Kept
<1> SUFFICES ASSUME Init
             PROVE Kept
  OBVIOUS
<1>1. \A c \in Calls : Own(calls[c].reply, c) /\ Paired(calls[c].reply)
  BY Blank, EmptyReply DEF Init, Unbegun
<1>2. \A v \in Variables : variables[v].by = 0
  BY NoSecrets DEF Init, EMPTY_VARIABLES
<1>3. past.cleared = {}
  BY DEF Init
<1> QED
  BY <1>1, <1>2, <1>3 DEF Kept, VaultHoldsOnePair, Variables

\* Kept holds in every state.
THEOREM KeptAlways == Spec => []Kept
<1> QED
  BY KeptInit, KeptStep, SteadyAlways, VaultMirrored, PTL DEF Spec

\* A secret the user cleared is never seen in the vault or in storage again.
THEOREM ClearedAlways == Spec => []ClearedStaysCleared
<1>1. Steady /\ Mirrored /\ Kept => ClearedStaysCleared
  <2> SUFFICES ASSUME Steady, Mirrored, Kept, NEW v \in Variables \ {"csrfToken"}
               PROVE /\ variables[v] \notin past.cleared
                     /\ v \in STORAGE_KEYS => stored[v] \notin past.cleared
    BY DEF ClearedStaysCleared
  <2>1. variables[v] \notin past.cleared
    BY DEF Kept
  <2>2. v \in STORAGE_KEYS => stored[v] = variables[v] \/ stored[v] = Empty
    BY DEF Mirrored, VaultMirrorsStorage, Steady, Shape, Modes
  <2>3. Empty \notin past.cleared
    BY NoSecrets DEF Kept
  <2> QED
    BY <2>1, <2>2, <2>3
<1> QED
  BY <1>1, SteadyAlways, VaultMirrored, KeptAlways, PTL

\* The access and the refresh token of the vault are of one reply and one session.
THEOREM OnePairAlways == Spec => []VaultHoldsOnePair
<1>1. Kept => VaultHoldsOnePair
  BY DEF Kept
<1> QED
  BY <1>1, KeptAlways, PTL

(***************************************************************************)
(* The tokens of a session kept in cookies stay out of the page.           *)
(***************************************************************************)
TokenKinds == {"accessToken", "refreshToken"}

\* Session s was opened by a request the service has answered.
Served(s) == s \in Calls /\ calls[s].wire \in {"served", "received"}
StaysServed(s) == s \in Calls /\ calls'[s].wire \in {"served", "received"}

\* The page may hold x: a token only of a session that is kept in no cookie, and
\* whose request is answered, so that no later answer moves it into cookies.
May(x) ==
  (x.by # 0 /\ x.kind \in TokenKinds) => x.session \notin past.inCookies /\ Served(x.session)
StillMay(x) ==
  (x.by # 0 /\ x.kind \in TokenKinds) => x.session \notin past'.inCookies /\ StaysServed(x.session)

\* A refresh cookie is of a session kept in cookies.
InJar(x) == x # Empty => x.session \in past.inCookies
StaysInJar(x) == x # Empty => x.session \in past'.inCookies

\* What a request asks with.
Asks(r) ==
  /\ \A v \in DOMAIN r.request.body : May(r.request.body[v])
  /\ InJar(r.request.cookies.refresh)
  /\ r.request.headers.transport => r.endpoint \in SESSION_ISSUING_ENDPOINTS
  /\ r.endpoint = "auth-refresh" => "refreshToken" \in DOMAIN r.request.body
StillAsks(r) ==
  /\ \A v \in DOMAIN r.request.body : StillMay(r.request.body[v])
  /\ StaysInJar(r.request.cookies.refresh)
  /\ r.request.headers.transport => r.endpoint \in SESSION_ISSUING_ENDPOINTS
  /\ r.endpoint = "auth-refresh" => "refreshToken" \in DOMAIN r.request.body

\* What a reply brings.
Brings(p) ==
  /\ \A v \in DOMAIN p.data : May(p.data[v])
  /\ "refresh" \in DOMAIN p.cookies => InJar(p.cookies["refresh"])
  /\ "csrf" \in DOMAIN p.cookies => p.cookies["csrf"].kind \notin TokenKinds
StillBrings(p) ==
  /\ \A v \in DOMAIN p.data : StillMay(p.data[v])
  /\ "refresh" \in DOMAIN p.cookies => StaysInJar(p.cookies["refresh"])
  /\ "csrf" \in DOMAIN p.cookies => p.cookies["csrf"].kind \notin TokenKinds

Apart ==
  /\ \A v \in Variables : May(variables[v])
  /\ \A v \in TokenKinds : variables[v].by # 0 => variables[v].kind = v
  /\ \A v \in DOMAIN panel.draft : May(panel.draft[v])
  /\ \A c \in Calls : Brings(calls[c].reply)
  /\ \A c \in Calls : calls[c].wire = "sent" => Asks(calls[c])
  /\ \A c \in Calls : c \in past.inCookies => Served(c)
  /\ InJar(jar.refresh) /\ jar.csrf.kind \notin TokenKinds

\* An answered request stays answered.
LEMMA ServedStays ==
  ASSUME Steady, RunStep, NEW s, Served(s)
  PROVE StaysServed(s)
<1>1. s \in Calls /\ calls[s].wire \in {"served", "received"} /\ IsCall(calls[s])
      /\ (s > latest => calls[s].wire = "unsent") /\ latest \in 0..MaxCalls
  BY DEF Served, Steady, Shape, Runs
<1>2. CallStep(s) /\ s # latest + 1
  BY <1>1, CallSteps DEF Calls
<1>3. CASE calls'[s] = [calls[s] EXCEPT !.aborted = TRUE] \/ calls'[s] = [calls[s] EXCEPT !.wire = "received"]
           \/ calls'[s] = Ended(calls[s])
  <2> PICK r, d : r = calls[s] /\ d = calls'[s]
    OBVIOUS
  <2>1. /\ IsCall(r)
        /\ d = [r EXCEPT !.aborted = TRUE] \/ d = [r EXCEPT !.wire = "received"] \/ d = Ended(r)
    BY <1>1, <1>3
  <2>2. d.wire = r.wire \/ d.wire = "received" \/ d.wire = IF r.wire = "sent" THEN "sent" ELSE "served"
    BY <2>1, AbortedTyped, ReceivedTyped, EndedTyped
  <2> QED
    BY <1>1, <2>2 DEF StaysServed
<1> QED
  BY <1>1, <1>2, <1>3 DEF CallStep, Answered, StaysServed

\* What the service answers with: the tokens of a session kept in cookies go to
\* the cookies, all others to the page.
LEMMA ServeApart ==
  ASSUME Steady, Apart, NEW c \in Calls, Serve(c)
  PROVE /\ StillBrings(calls'[c].reply)
        /\ past.inCookies \subseteq past'.inCookies
        /\ past'.inCookies \subseteq past.inCookies \union {c}
        /\ calls'[c].wire = "served"
<1> Shape
  BY DEF Steady
<1>0. Answers(c) /\ calls[c].wire = "sent" /\ past \in PastType
  BY ServeAnswers DEF Answers, Shape, World
<1>1. Asks(calls[c]) /\ c \notin past.inCookies
  BY <1>0 DEF Apart, Served
<1>2. ASSUME NEW status, NEW data, NEW cookies, Reply(c, status, data, cookies),
             \A v \in DOMAIN data : StillMay(data[v]),
             "refresh" \in DOMAIN cookies => StaysInJar(cookies["refresh"]),
             "csrf" \in DOMAIN cookies => cookies["csrf"].kind \notin TokenKinds
      PROVE StillBrings(calls'[c].reply) /\ calls'[c].wire = "served"
  <2>1. /\ calls'[c].wire = "served"
        /\ \/ calls'[c].reply.data = data /\ calls'[c].reply.cookies = cookies
           \/ DOMAIN calls'[c].reply.data = {} /\ DOMAIN calls'[c].reply.cookies = {}
    <3>1. Reply(c, status, data, cookies)
      BY <1>2
    <3> QED
      BY <3>1, AnswerReply
  <2> QED
    BY <1>2, <2>1 DEF StillBrings
<1>3. ASSUME NEW data, NEW v \in DOMAIN data, DOMAIN data \cap TokenKinds = {}, data[v].kind = v
      PROVE StillMay(data[v])
  BY <1>3 DEF StillMay
<1>4. ASSUME NEW s \in Sessions, Delivered(c, s, TRUE), s \in past.inCookies \/ s = c
      PROVE /\ StillBrings(calls'[c].reply) /\ calls'[c].wire = "served"
            /\ past'.inCookies = past.inCookies \union {s}
  <2>1. Reply(c, 200, << >>, AuthCookies(s, c)) /\ past' = [past EXCEPT !.inCookies = @ \union {s}]
    BY <1>4, DeliveredReply
  <2>2. past'.inCookies = past.inCookies \union {s}
    BY <1>0, <2>1 DEF PastType
  <2>3. StaysInJar(AuthCookies(s, c)["refresh"])
    BY <2>2, PairFields DEF StaysInJar, CookieNames
  <2>4. AuthCookies(s, c)["csrf"].kind \notin TokenKinds
    BY PairFields DEF TokenKinds
  <2>5. \A v \in DOMAIN << >> : StillMay(<< >>[v])
    BY Nothing
  <2> QED
    BY <1>2, <2>1, <2>2, <2>3, <2>4, <2>5
<1>5. ASSUME NEW s \in Sessions, Delivered(c, s, FALSE), s \notin past.inCookies, Served(s) \/ s = c
      PROVE /\ StillBrings(calls'[c].reply) /\ calls'[c].wire = "served"
            /\ past'.inCookies = past.inCookies
  <2>1. Reply(c, 200, TokenPair(s, c), << >>) /\ past' = past
    BY <1>5, DeliveredReply
  <2>2. /\ \A i \in Calls \ {c} : calls'[i] = calls[i]
        /\ calls'[c].wire = "served"
    <3>1. Reply(c, 200, TokenPair(s, c), << >>)
      BY <2>1
    <3> QED
      BY <3>1, AnswerReply
  <2>3. StaysServed(s)
    BY <1>5, <2>2 DEF Served, StaysServed
  <2>4. \A v \in DOMAIN TokenPair(s, c) : StillMay(TokenPair(s, c)[v])
    BY <1>5, <2>1, <2>3, PairFields DEF StillMay
  <2>5. "refresh" \notin DOMAIN << >> /\ "csrf" \notin DOMAIN << >>
    BY Nothing
  <2> QED
    BY <1>2, <2>1, <2>4, <2>5
<1>6. ASSUME Opens(c)
      PROVE /\ StillBrings(calls'[c].reply) /\ calls'[c].wire = "served"
            /\ past'.inCookies \in {past.inCookies, past.inCookies \union {c}}
  <2>1. c \in Sessions /\ (Delivered(c, c, TRUE) \/ Delivered(c, c, FALSE))
    BY <1>6, Numbers DEF Opens, DeliverLogin, Delivered
  <2> QED
    BY <1>1, <1>4, <1>5, <2>1
<1>7. ASSUME NEW s, Renews(c, s)
      PROVE /\ StillBrings(calls'[c].reply) /\ calls'[c].wire = "served"
            /\ past'.inCookies = past.inCookies
  <2> DEFINE q == Request(c)
             token == ReadRefreshToken(q)
             cookie == q.cookies.refresh
             body == q.body["refreshToken"]
  <2>1. /\ calls[c].endpoint = "auth-refresh" /\ s \in Sessions
        /\ token.kind = "refreshToken" /\ token.by # 0 /\ token.session = s
        /\ Delivered(c, s, RefreshUsesCookies(q))
    BY <1>7 DEF Renews, DeliverRefresh
  <2>2. ~q.headers.transport /\ InJar(cookie) /\ May(body)
    BY <1>1, <2>1 DEF Asks, Request, SESSION_ISSUING_ENDPOINTS
  <2>3. token = Empty \/ token = (IF cookie # Empty THEN cookie ELSE body)
    BY DEF ReadRefreshToken, FirstGiven
  <2>4. RefreshUsesCookies(q) <=> cookie # Empty
    BY <2>2 DEF RefreshUsesCookies
  <2>5. token # Empty
    BY <2>1, NoSecrets
  <2> HIDE DEF q, token, cookie, body
  <2>6. CASE cookie # Empty
    <3>1. s \in past.inCookies
      BY <2>1, <2>2, <2>3, <2>5, <2>6 DEF InJar
    <3>2. Delivered(c, s, TRUE)
      BY <2>1, <2>4, <2>6 DEF Delivered
    <3>3. /\ StillBrings(calls'[c].reply) /\ calls'[c].wire = "served"
          /\ past'.inCookies = past.inCookies \union {s}
      BY <1>4, <2>1, <3>1, <3>2
    <3>4. past.inCookies \union {s} = past.inCookies
      BY <3>1
    <3> QED
      BY <3>3, <3>4
  <2>7. CASE cookie = Empty
    <3>1. s \notin past.inCookies /\ Served(s)
      BY <2>1, <2>2, <2>3, <2>5, <2>7 DEF May, TokenKinds
    <3>2. Delivered(c, s, FALSE)
      BY <2>1, <2>4, <2>7 DEF Delivered
    <3> QED
      BY <1>5, <2>1, <3>1, <3>2
  <2> QED
    BY <2>6, <2>7
<1>8. CASE Closes(c)
  <2>1. Reply(c, 204, << >>, ClearedCookies) /\ past' = past
    BY <1>8 DEF Closes
  <2>2. /\ ClearedCookies["refresh"] = Empty /\ ClearedCookies["csrf"] = Empty
        /\ Empty.kind \notin TokenKinds
    BY NoSecrets DEF ClearedCookies, CookieNames, TokenKinds
  <2>3. \A v \in DOMAIN << >> : StillMay(<< >>[v])
    BY Nothing
  <2>4. StaysInJar(ClearedCookies["refresh"])
    BY <2>2 DEF StaysInJar
  <2> QED
    BY <1>2, <2>1, <2>2, <2>3, <2>4
<1>9. CASE Protects(c)
  <2> DEFINE data == [csrfToken |-> Value("csrfToken", CurrentSessionId(Request(c)), c)]
             cookies == [csrf |-> Value("csrfToken", CurrentSessionId(Request(c)), c)]
  <2>1. /\ DOMAIN data = {"csrfToken"} /\ data["csrfToken"].kind = "csrfToken"
        /\ DOMAIN cookies = {"csrf"} /\ cookies["csrf"].kind = "csrfToken"
    BY DEF Value
  <2>2. Reply(c, 200, data, cookies) /\ past' = past
    BY <1>9 DEF Protects
  <2> HIDE DEF data, cookies
  <2>3. \A v \in DOMAIN data : StillMay(data[v])
    BY <2>1 DEF StillMay, TokenKinds
  <2>4. "refresh" \notin DOMAIN cookies /\ cookies["csrf"].kind \notin TokenKinds
    BY <2>1 DEF TokenKinds
  <2> QED
    BY <1>2, <2>2, <2>3, <2>4
<1>10. ASSUME NEW status, NEW data, Tells(c, status, data)
       PROVE StillBrings(calls'[c].reply) /\ calls'[c].wire = "served" /\ past' = past
  <2>1. Reply(c, status, data, << >>) /\ past' = past
    BY <1>10 DEF Tells
  <2>2. \A v \in DOMAIN data : StillMay(data[v])
    BY <1>3, <1>10 DEF Tells, TokenKinds
  <2>3. "refresh" \notin DOMAIN << >> /\ "csrf" \notin DOMAIN << >>
    BY Nothing
  <2> QED
    BY <1>2, <2>1, <2>2, <2>3
<1> QED
  BY <1>0, <1>6, <1>7, <1>8, <1>9, <1>10 DEF Answers, Closes, Protects

\* Which sessions a step adds to those kept in cookies.
LEMMA CookiesGrow ==
  ASSUME Steady, Apart, [Next]_vars
  PROVE /\ past.inCookies \subseteq past'.inCookies
        /\ \A s \in past'.inCookies \ past.inCookies :
             s = OtherTab \/ (s \in Calls /\ calls[s].wire = "sent" /\ calls'[s].wire = "served")
<1>0. past \in PastType /\ Shape
  BY DEF Steady, Shape, World
<1>1. CASE past'.inCookies = past.inCookies
  BY <1>1
<1>2. ASSUME NEW c \in Calls, Serve(c)
      PROVE /\ past.inCookies \subseteq past'.inCookies
            /\ \A s \in past'.inCookies \ past.inCookies :
                 s = OtherTab \/ (s \in Calls /\ calls[s].wire = "sent" /\ calls'[s].wire = "served")
  <2>1. calls[c].wire = "sent"
    BY <1>0, <1>2, ServeAnswers DEF Answers
  <2> QED
    BY <1>2, <2>1, ServeApart
<1>3. CASE OtherTabLogin
  <2>1. past' = [past EXCEPT !.inCookies = @ \union {OtherTab}]
    BY <1>3 DEF OtherTabLogin
  <2>2. past'.inCookies = past.inCookies \union {OtherTab}
    BY <1>0, <2>1 DEF PastType
  <2> QED
    BY <2>2
<1>4. CASE User
  <2>1. CASE clearVault
    <3>1. past' = [past EXCEPT !.cleared = @ \union Secrets(variables)]
      BY <2>1 DEF clearVault
    <3> QED
      BY <1>0, <1>1, <3>1 DEF PastType
  <2>2. CASE past' = past
    BY <1>1, <2>2
  <2> QED
    BY <1>4, <2>1, <2>2 DEF User, OpenPanel, EditBody, Send, demoLogin, prepareSessions, useDemoApiKey,
       runSocial, EditField, setAuthMode, Reload
<1>5. ASSUME NEW c \in Calls, Receive(c) \/ Settle(c)
      PROVE past' = past
  BY <1>0, <1>5, ReceiveSteps, SettleSteps
<1>6. CASE AccessCookieExpires \/ UNCHANGED vars
  BY <1>1, <1>6 DEF AccessCookieExpires, vars
<1> QED
  BY <1>1, <1>2, <1>3, <1>4, <1>5, <1>6 DEF Next

\* What the page may hold it may hold on.
LEMMA MayStays ==
  ASSUME Steady, Apart, [Next]_vars, NEW x
  PROVE /\ May(x) => StillMay(x)
        /\ InJar(x) => StaysInJar(x)
<1>1. RunStep
  BY EveryStep DEF AllSteps
<1>2. /\ past.inCookies \subseteq past'.inCookies
      /\ \A s \in past'.inCookies \ past.inCookies :
           s = OtherTab \/ (s \in Calls /\ calls[s].wire = "sent" /\ calls'[s].wire = "served")
  BY CookiesGrow
<1>3. InJar(x) => StaysInJar(x)
  BY <1>2 DEF InJar, StaysInJar
<1>4. ASSUME NEW s, Served(s), s \notin past.inCookies
      PROVE s \notin past'.inCookies /\ StaysServed(s)
  <2>1. s \in Calls /\ calls[s].wire # "sent" /\ s # OtherTab
    BY <1>4, Numbers DEF Served
  <2>2. StaysServed(s)
    BY <1>1, <1>4, ServedStays
  <2> QED
    BY <1>2, <1>4, <2>1, <2>2
<1> QED
  BY <1>3, <1>4 DEF May, StillMay

\* The cookies after a step are of sessions kept in cookies.
LEMMA JarApart ==
  ASSUME Steady, Apart, [Next]_vars
  PROVE StaysInJar(jar'.refresh) /\ jar'.csrf.kind \notin TokenKinds
<1>0. /\ InJar(jar.refresh) /\ jar.csrf.kind \notin TokenKinds /\ jar \in Jars /\ Shape
      /\ past \in PastType
  BY DEF Apart, Steady, Shape, World
<1>1. CASE jar' = jar
  BY <1>0, <1>1, MayStays
<1>2. ASSUME NEW c \in Calls, Receive(c)
      PROVE StaysInJar(jar'.refresh) /\ jar'.csrf.kind \notin TokenKinds
  <2> PICK cookies : cookies = calls[c].reply.cookies
    OBVIOUS
  <2>1. Partial(cookies, CookieNames)
    BY <1>0 DEF Shape, Runs, IsCall, IsReply
  <2>2. /\ "refresh" \in DOMAIN cookies => InJar(cookies["refresh"])
        /\ "csrf" \in DOMAIN cookies => cookies["csrf"].kind \notin TokenKinds
    BY DEF Apart, Brings
  <2>3. jar' = jar \/ jar' = Spread(cookies, jar)
    BY <1>2 DEF Receive
  <2>4. CASE jar' = Spread(cookies, jar)
    <3>1. /\ jar'.refresh = IF "refresh" \in DOMAIN cookies THEN cookies["refresh"] ELSE jar.refresh
          /\ jar'.csrf = IF "csrf" \in DOMAIN cookies THEN cookies["csrf"] ELSE jar.csrf
      BY <1>0, <2>1, <2>4, SpreadJar DEF CookieNames
    <3>2. InJar(jar'.refresh)
      BY <1>0, <2>2, <3>1
    <3>3. StaysInJar(jar'.refresh)
      <4> PICK x : x = jar'.refresh
        OBVIOUS
      <4>1. InJar(x) => StaysInJar(x)
        BY MayStays
      <4> QED
        BY <3>2, <4>1
    <3> QED
      BY <1>0, <2>2, <3>1, <3>3
  <2> QED
    BY <1>1, <2>3, <2>4
<1>3. CASE OtherTabLogin
  <2>1. /\ past' = [past EXCEPT !.inCookies = @ \union {OtherTab}]
        /\ jar' = AuthCookies(OtherTab, OtherTab)
    BY <1>3 DEF OtherTabLogin
  <2>2. OtherTab \in past'.inCookies
    BY <1>0, <2>1 DEF PastType
  <2> QED
    BY <2>1, <2>2 DEF AuthCookies, Value, StaysInJar, TokenKinds
<1>4. CASE AccessCookieExpires
  <2>1. jar' = [jar EXCEPT !.access = Empty]
    BY <1>4 DEF AccessCookieExpires
  <2>2. jar'.refresh = jar.refresh /\ jar'.csrf = jar.csrf
    BY <1>0, <2>1 DEF Jars
  <2> QED
    BY <1>0, <2>2, MayStays
<1>5. CASE User
  BY <1>1, <1>5 DEF User, OpenPanel, EditBody, Send, demoLogin, prepareSessions, useDemoApiKey,
     runSocial, EditField, setAuthMode, clearVault, Reload
<1>6. ASSUME NEW c \in Calls, Serve(c) \/ Settle(c)
      PROVE jar' = jar
  BY <1>0, <1>6, AnswerSteps, SettleSteps DEF ServeStep
<1>7. CASE UNCHANGED vars
  BY <1>1, <1>7 DEF vars
<1> QED
  BY <1>1, <1>2, <1>3, <1>4, <1>5, <1>6, <1>7 DEF Next

\* A request begun in this step asks only with what the page and the jar hold.
LEMMA BegunAsks ==
  ASSUME Steady, Apart, [Next]_vars, NEW r, BegunCall(r)
  PROVE StillAsks(r)
<1>1. \A v \in DOMAIN r.request.body : FromPage(r.request.body[v])
  BY DEF BegunCall
<1>2. \A v \in DOMAIN r.request.body : May(r.request.body[v])
  BY <1>1 DEF FromPage, Apart, May
<1>3. InJar(r.request.cookies.refresh)
  BY DEF BegunCall, Apart, NoCookies, InJar
<1>4. r.request.headers.transport => r.endpoint \in SESSION_ISSUING_ENDPOINTS
  <2> DEFINE e == endpointById(r.endpoint)
  <2>1. r.endpoint \in EndpointIds /\ r.mode \in AuthModes
        /\ r.request.headers = buildHeaders(e, r.mode, variables, jar)
    BY DEF BegunCall, IsCall
  <2>2. e.id = r.endpoint
    BY <2>1, EntryPlain
  <2>3. variables \in [Variables -> Text] /\ jar \in Jars
    BY DEF Steady, Shape, Vault, World
  <2>4. r.request.headers.transport = (r.mode = "cookie" /\ e.id \in SESSION_ISSUING_ENDPOINTS)
    BY <2>1, <2>3, HeaderFacts
  <2> QED
    BY <2>2, <2>4
<1>5. r.endpoint = "auth-refresh" => "refreshToken" \in DOMAIN r.request.body
  BY DEF BegunCall
<1> QED
  BY <1>2, <1>3, <1>4, <1>5, MayStays DEF StillAsks

\* The requests after a step: what they ask with, and what their replies bring.
LEMMA CallsApart ==
  ASSUME Steady, Apart, [Next]_vars, NEW i \in Calls
  PROVE StillBrings(calls'[i].reply) /\ (calls'[i].wire = "sent" => StillAsks(calls'[i]))
<1>0. RunStep /\ Shape
  BY EveryStep DEF AllSteps, Steady
<1>1. StillBrings(calls'[i].reply)
  <2>1. CASE Serve(i)
    BY <2>1, ServeApart
  <2>2. CASE calls'[i].reply = calls[i].reply
    BY <2>2, MayStays DEF Apart, Brings, StillBrings
  <2>3. CASE DOMAIN calls'[i].reply.data = {} /\ DOMAIN calls'[i].reply.cookies = {}
    BY <2>3 DEF StillBrings
  <2> QED
    BY <1>0, <2>1, <2>2, <2>3, ReplyKept
<1>2. ASSUME calls'[i].wire = "sent"
      PROVE StillAsks(calls'[i])
  <2>1. CallStep(i)
    BY <1>0, CallSteps
  <2>2. CASE BegunCall(calls'[i])
    <3> PICK r : r = calls'[i]
      OBVIOUS
    <3>1. BegunCall(r) => StillAsks(r)
      BY BegunAsks
    <3> QED
      BY <2>2, <3>1
  <2>3. CASE calls[i].wire = "sent" /\ calls'[i].request = calls[i].request
             /\ calls'[i].endpoint = calls[i].endpoint
    <3>1. Asks(calls[i])
      BY <2>3 DEF Apart
    <3>2. /\ \A v \in DOMAIN calls[i].request.body : StillMay(calls[i].request.body[v])
          /\ StaysInJar(calls[i].request.cookies.refresh)
      BY <3>1, MayStays DEF Asks
    <3> QED
      BY <2>3, <3>1, <3>2 DEF Asks, StillAsks
  <2> QED
    BY <1>0, <1>2, <2>1, <2>2, <2>3, CallStays
<1> QED
  BY <1>1, <1>2

\* The vault after a step.
LEMMA VaultApart ==
  ASSUME Steady, Mirrored, Kept, Apart, [Next]_vars, NEW v \in Variables
  PROVE /\ StillMay(variables'[v])
        /\ v \in TokenKinds => (variables'[v].by # 0 => variables'[v].kind = v)
<1>0. VaultStep
  BY EveryStep DEF AllSteps
<1>1. CASE variables'[v] = variables[v]
  BY <1>1, MayStays DEF Apart
<1>2. CASE variables'[v].by = 0
  BY <1>2 DEF StillMay
<1>3. ASSUME NEW c \in Calls, v \in DOMAIN calls[c].reply.data, variables'[v] = calls[c].reply.data[v]
      PROVE StillMay(variables'[v]) /\ variables'[v].kind = v
  <2>1. May(calls[c].reply.data[v])
    BY <1>3 DEF Apart, Brings
  <2>2. calls[c].reply.data[v].kind = v
    BY <1>3 DEF Kept, Own
  <2> QED
    BY <1>3, <2>1, <2>2, MayStays
<1>4. CASE v = "csrfToken" /\ variables'[v] = jar.csrf
  BY <1>4 DEF Apart, StillMay, TokenKinds
<1> QED
  BY <1>0, <1>1, <1>2, <1>3, <1>4, VariableSteps DEF Changes

\* The request panel after a step.
LEMMA PanelApart ==
  ASSUME Steady, Mirrored, Kept, Apart, [Next]_vars
  PROVE \A v \in DOMAIN panel'.draft : StillMay(panel'.draft[v])
<1>0. PanelStep /\ VaultStep /\ Shape
  BY EveryStep DEF AllSteps, Steady
<1>1. /\ variables \in [Variables -> Text] /\ variables' \in [Variables -> Text]
      /\ EMPTY_VARIABLES \in [Variables -> Text] /\ IsPanel(panel)
  BY <1>0, VaultStays, NoSecrets DEF Shape, Vault, Shown, EMPTY_VARIABLES
<1>2. /\ \A w \in Variables : StillMay(variables[w])
      /\ \A w \in Variables : StillMay(variables'[w])
      /\ \A w \in Variables : StillMay(EMPTY_VARIABLES[w])
  <2>1. \A w \in Variables : StillMay(variables[w])
    BY MayStays DEF Apart
  <2>2. \A w \in Variables : StillMay(variables'[w])
    BY VaultApart
  <2>3. \A w \in Variables : EMPTY_VARIABLES[w].by = 0
    BY NoSecrets DEF EMPTY_VARIABLES
  <2> QED
    BY <2>1, <2>2, <2>3 DEF StillMay
<1>3. ASSUME NEW id \in EndpointIds, NEW values \in [Variables -> Text],
             \A w \in Variables : StillMay(values[w])
      PROVE \A v \in DOMAIN Mounted(id, values).draft : StillMay(Mounted(id, values).draft[v])
  BY <1>3, MountedPanel DEF StillMay
<1>4. CASE panel' = panel
  BY <1>4, MayStays DEF Apart
<1>5. ASSUME NEW id \in EndpointIds, Navigate(id, variables) \/ Navigate(id, variables')
      PROVE \A v \in DOMAIN panel'.draft : StillMay(panel'.draft[v])
  <2> PICK now, next : now = variables /\ next = variables'
    OBVIOUS
  <2>1. panel' \in {panel, Mounted(id, now), Mounted(id, next)}
    BY <1>5 DEF Navigate
  <2>2. /\ \A v \in DOMAIN Mounted(id, now).draft : StillMay(Mounted(id, now).draft[v])
        /\ \A v \in DOMAIN Mounted(id, next).draft : StillMay(Mounted(id, next).draft[v])
    BY <1>1, <1>2, <1>3
  <2> QED
    BY <1>4, <2>1, <2>2
<1>6. ASSUME NEW w \in DOMAIN panel.draft, panel' = [panel EXCEPT !.draft[w] = Empty]
      PROVE \A v \in DOMAIN panel'.draft : StillMay(panel'.draft[v])
  <2>1. panel'.draft = [panel.draft EXCEPT ![w] = Empty]
    BY <1>1, <1>6 DEF IsPanel
  <2>2. \A v \in DOMAIN panel'.draft : panel'.draft[v] = Empty \/ (v \in DOMAIN panel.draft /\ panel'.draft[v] = panel.draft[v])
    BY <1>1, <2>1 DEF IsPanel
  <2>3. StillMay(Empty)
    BY NoSecrets DEF StillMay
  <2> QED
    BY <2>2, <2>3, MayStays DEF Apart
<1>7. CASE panel' = Mounted(panel.endpoint, EMPTY_VARIABLES)
  <2>1. panel.endpoint \in EndpointIds
    BY <1>1 DEF IsPanel
  <2> QED
    BY <1>1, <1>2, <1>3, <1>7, <2>1
<1> QED
  BY <1>0, <1>4, <1>5, <1>6, <1>7 DEF PanelStep

\* Every step keeps cookies and page apart.
LEMMA ApartStep == Steady /\ Mirrored /\ Kept /\ Apart /\ [Next]_vars => Apart'
<1> SUFFICES ASSUME Steady, Mirrored, Kept, Apart, [Next]_vars
             PROVE Apart'
  OBVIOUS
<1>1. \A v \in Variables :
        /\ StillMay(variables'[v])
        /\ v \in TokenKinds => (variables'[v].by # 0 => variables'[v].kind = v)
  BY VaultApart
<1>2. \A v \in DOMAIN panel'.draft : StillMay(panel'.draft[v])
  BY PanelApart
<1>3. \A i \in Calls : StillBrings(calls'[i].reply) /\ (calls'[i].wire = "sent" => StillAsks(calls'[i]))
  BY CallsApart
<1>4. StaysInJar(jar'.refresh) /\ jar'.csrf.kind \notin TokenKinds
  BY JarApart
<1>5. \A i \in Calls : i \in past'.inCookies => StaysServed(i)
  <2> TAKE i \in Calls
  <2> HAVE i \in past'.inCookies
  <2>1. CASE i \in past.inCookies
    <3>1. Served(i) /\ RunStep
      BY <2>1, EveryStep DEF Apart, AllSteps
    <3> QED
      BY <3>1, ServedStays
  <2>2. CASE i \notin past.inCookies
    BY <2>2, CookiesGrow, Numbers DEF StaysServed
  <2> QED
    BY <2>1, <2>2
<1>6. TokenKinds \subseteq Variables
  BY DEF TokenKinds, Variables
<1> QED
  BY <1>1, <1>2, <1>3, <1>4, <1>5, <1>6
  DEF Apart, May, StillMay, Brings, StillBrings, Asks, StillAsks, InJar, StaysInJar, Served, StaysServed

\* At first the page holds nothing.
LEMMA ApartInit == Init => Apart
<1> SUFFICES ASSUME Init
             PROVE Apart
  OBVIOUS
<1>1. \A v \in Variables : variables[v].by = 0
  BY NoSecrets DEF Init, EMPTY_VARIABLES
<1>2. \A c \in Calls : calls[c] = Unbegun
  BY DEF Init
<1>3. /\ Unbegun.wire = "unsent" /\ Unbegun.reply = NoReply
  BY DEF Unbegun
<1>4. past.inCookies = {} /\ jar.refresh = Empty /\ jar.csrf = Empty
  BY DEF Init, ClearedCookies, CookieNames
<1>5. \A v \in DOMAIN panel.draft : panel.draft[v].by = 0
  <2>1. EMPTY_VARIABLES \in [Variables -> Text] /\ \A w \in Variables : EMPTY_VARIABLES[w].by = 0
    BY NoSecrets DEF EMPTY_VARIABLES
  <2>2. PICK id \in PanelEndpoints : panel = Mounted(id, EMPTY_VARIABLES)
    BY DEF Init
  <2>3. id \in EndpointIds
    BY WorkbenchAssumption
  <2> QED
    BY <2>1, <2>2, <2>3, MountedPanel
<1>6. TokenKinds \subseteq Variables /\ Empty.kind \notin TokenKinds
  BY NoSecrets DEF TokenKinds, Variables
<1> QED
  BY <1>1, <1>2, <1>3, <1>4, <1>5, <1>6, Blank DEF Apart, May, Brings, InJar

\* Cookies and page are apart in every state.
THEOREM ApartAlways == Spec => []Apart
<1> QED
  BY ApartInit, ApartStep, SteadyAlways, VaultMirrored, KeptAlways, PTL DEF Spec

\* The tokens of a session kept in cookies never reach the page or its storage.
THEOREM CookieTokensAlwaysOut == Spec => []CookieTokensStayOut
<1>1. Steady /\ Mirrored /\ Apart => CookieTokensStayOut
  <2> SUFFICES ASSUME Steady, Mirrored, Apart, NEW v \in TokenKinds
               PROVE /\ variables[v].by # 0 => variables[v].session \notin past.inCookies
                     /\ stored[v].by # 0 => stored[v].session \notin past.inCookies
    BY DEF CookieTokensStayOut, TokenKinds
  <2>1. v \in Variables /\ v \in STORAGE_KEYS
    BY DEF TokenKinds, Variables, STORAGE_KEYS
  <2>2. variables[v].by # 0 => variables[v].session \notin past.inCookies
    BY <2>1 DEF Apart, May
  <2>3. stored[v] = variables[v] \/ stored[v].by = 0
    BY <2>1, NoSecrets DEF Mirrored, VaultMirrorsStorage, Steady, Shape, Modes
  <2> QED
    BY <2>2, <2>3
<1> QED
  BY <1>1, SteadyAlways, VaultMirrored, ApartAlways, PTL

(***************************************************************************)
(* No request of this page alone fails the CSRF filter.                    *)
(***************************************************************************)
\* Access cookie and CSRF cookie are of one session.
Bound(access, csrf) == access # Empty => csrf.kind = "csrfToken" /\ csrf.session = access.session

\* The cookies once those of a reply are stored.
After(cookies, k) == IF k \in DOMAIN cookies THEN cookies[k] ELSE jar[k]

\* A reply that is stored leaves the cookies bound, even if the access cookie
\* expires before; the request asks with what the jar held.
Stores(cookies) ==
  /\ Bound(After(cookies, "access"), After(cookies, "csrf"))
  /\ "access" \in DOMAIN cookies => "csrf" \in DOMAIN cookies
Passes(r) ==
  /\ ~CsrfRejected(r.request)
  /\ r.mode = "cookie" => r.request.headers.authorization = Empty
Guarded ==
  OtherTab \notin past.inCookies =>
    /\ Bound(jar.access, jar.csrf)
    /\ \A c \in Calls : calls[c].reply.status # 403
    /\ \A c \in Calls : calls[c].wire = "sent" => Passes(calls[c])
    /\ \A c \in Calls : Awaited(c) /\ calls[c].mode = "cookie" =>
         /\ calls[c].wire = "sent" => jar.access \in {Empty, calls[c].request.cookies.access}
         /\ calls[c].wire = "served" => Stores(calls[c].reply.cookies)

\* A request begun over bound cookies passes the filter.
LEMMA BegunPasses ==
  ASSUME Steady, Bound(jar.access, jar.csrf), NEW r, BegunCall(r)
  PROVE /\ Passes(r) /\ r.reply.status # 403 /\ r.wire = "sent"
        /\ r.mode = "cookie" => r.request.cookies.access = jar.access
<1> DEFINE e == endpointById(r.endpoint)
           q == r.request
<1>1. /\ r.endpoint \in EndpointIds /\ r.mode \in AuthModes /\ r.wire = "sent"
      /\ q.headers = buildHeaders(e, r.mode, variables, jar)
      /\ q.method = e.method
      /\ q.cookies = IF r.mode = "cookie" THEN jar ELSE NoCookies
      /\ r.reply = NoReply
  BY DEF BegunCall, IsCall
<1>2. variables \in [Variables -> Text] /\ jar \in Jars
  BY DEF Steady, Shape, Vault, World
<1>3. /\ r.mode = "cookie" => q.headers.authorization = Empty
      /\ r.mode = "cookie" /\ isUnsafe(q.method) =>
           q.headers.csrf = IF jar.csrf # Empty THEN jar.csrf ELSE variables["csrfToken"]
  BY <1>1, <1>2, HeaderFacts
<1> HIDE DEF e, q
<1>4. ~CsrfRejected(q)
  <2>1. SUFFICES ASSUME isUnsafe(q.method), ByCookie(q)
                 PROVE /\ q.cookies.csrf # Empty /\ q.cookies.csrf = q.headers.csrf
                       /\ q.headers.csrf.kind = "csrfToken"
                       /\ q.headers.csrf.session = CurrentSessionId(q)
    BY DEF CsrfRejected
  <2>2. r.mode = "cookie" /\ q.cookies = jar /\ jar.access # Empty
    BY <1>1, <2>1 DEF ByCookie, NoCookies
  <2>3. jar.csrf.kind = "csrfToken" /\ jar.csrf.session = jar.access.session /\ jar.csrf # Empty
    BY <2>2, NoSecrets DEF Bound
  <2>4. q.headers.csrf = jar.csrf /\ q.headers.authorization = Empty
    BY <1>3, <2>1, <2>2, <2>3
  <2>5. ~ByHeader(q)
    BY <2>4, NoSecrets DEF ByHeader
  <2>6. CurrentSessionId(q) = jar.access.session
    BY <2>1, <2>2, <2>5 DEF CurrentSessionId
  <2> QED
    BY <2>2, <2>3, <2>4, <2>6
<1>5. NoReply.status = 0
  BY DEF NoReply
<1> QED
  BY <1>1, <1>3, <1>4, <1>5 DEF Passes, q

\* An answer to a request that passes is no refusal of the filter, and the cookies
\* it brings leave the jar bound.
LEMMA ServeGuarded ==
  ASSUME Steady, Guarded, OtherTab \notin past.inCookies, NEW c \in Calls, Serve(c)
  PROVE /\ calls'[c].reply.status # 403
        /\ Awaited(c) /\ calls[c].mode = "cookie" => Stores(calls'[c].reply.cookies)
<1> DEFINE q == Request(c)
<1>0. Answers(c) /\ Shape
  BY ServeAnswers DEF Steady
<1>1. /\ Bound(jar.access, jar.csrf) /\ ~CsrfRejected(q)
      /\ calls[c].mode = "cookie" => q.headers.authorization = Empty
      /\ Awaited(c) /\ calls[c].mode = "cookie" => jar.access \in {Empty, q.cookies.access}
  BY <1>0 DEF Answers, Guarded, Passes, Request
<1> HIDE DEF q
<1>2. ASSUME NEW status, status # 403, NEW data, NEW cookies, Reply(c, status, data, cookies),
             Awaited(c) /\ calls[c].mode = "cookie" => Stores(cookies)
      PROVE /\ calls'[c].reply.status # 403
            /\ Awaited(c) /\ calls[c].mode = "cookie" => Stores(calls'[c].reply.cookies)
  <2>1. /\ calls'[c].reply.status = status
        /\ Awaited(c) => calls'[c].reply.cookies = cookies
    <3>1. Reply(c, status, data, cookies)
      BY <1>2
    <3> QED
      BY <1>0, <3>1, AnswerReply DEF Awaited
  <2> QED
    BY <1>2, <2>1
<1>3. ASSUME NEW cookies, DOMAIN cookies = {}
      PROVE Stores(cookies)
  BY <1>1, <1>3 DEF Stores, After, Jars
<1>4. Stores(<< >>)
  BY <1>3, Nothing
<1>5. ASSUME NEW s, NEW byCookie \in BOOLEAN, s \in Sessions, Delivered(c, s, byCookie)
      PROVE /\ calls'[c].reply.status # 403
            /\ Awaited(c) /\ calls[c].mode = "cookie" => Stores(calls'[c].reply.cookies)
  <2>1. CASE byCookie
    <3>1. Reply(c, 200, << >>, AuthCookies(s, c))
      BY <1>0, <1>5, <2>1, DeliveredReply
    <3>2. Stores(AuthCookies(s, c))
      BY DEF Stores, After, Bound, AuthCookies, Value
    <3> QED
      BY <1>2, <3>1, <3>2
  <2>2. CASE ~byCookie
    <3>1. Reply(c, 200, TokenPair(s, c), << >>)
      BY <1>0, <1>5, <2>2, DeliveredReply
    <3> QED
      BY <1>2, <1>4, <3>1
  <2> QED
    BY <2>1, <2>2
<1>6. CASE Opens(c) \/ \E s : Renews(c, s)
  BY <1>0, <1>5, <1>6, DeliveryAnswers
<1>7. CASE Closes(c)
  <2>1. Reply(c, 204, << >>, ClearedCookies)
    BY <1>7 DEF Closes
  <2>2. Stores(ClearedCookies)
    BY DEF Stores, After, Bound, ClearedCookies, CookieNames
  <2> QED
    BY <1>2, <2>1, <2>2
<1>8. CASE Protects(c)
  <2> DEFINE s == CurrentSessionId(q)
             data == [csrfToken |-> Value("csrfToken", s, c)]
             cookies == [csrf |-> Value("csrfToken", s, c)]
  <2>1. s # 0 /\ Reply(c, 200, data, cookies)
    BY <1>8 DEF Protects, q
  <2>2. ASSUME Awaited(c), calls[c].mode = "cookie"
        PROVE Stores(cookies)
    <3>1. q.headers.authorization = Empty /\ jar.access \in {Empty, q.cookies.access}
      BY <1>1, <2>2
    <3>2. ~ByHeader(q)
      BY <3>1, NoSecrets DEF ByHeader
    <3>3. s = q.cookies.access.session
      BY <2>1, <3>2 DEF CurrentSessionId
    <3>4. /\ After(cookies, "access") = jar.access /\ "access" \notin DOMAIN cookies
          /\ After(cookies, "csrf").kind = "csrfToken" /\ After(cookies, "csrf").session = s
      BY DEF After, Value
    <3> HIDE DEF cookies, s
    <3> QED
      BY <3>1, <3>3, <3>4 DEF Stores, Bound
  <2> HIDE DEF data, cookies
  <2> QED
    BY <1>2, <2>1, <2>2
<1>9. ASSUME NEW status, NEW data, Tells(c, status, data)
      PROVE /\ calls'[c].reply.status # 403
            /\ Awaited(c) /\ calls[c].mode = "cookie" => Stores(calls'[c].reply.cookies)
  <2>1. Reply(c, status, data, << >>) /\ status # 403
    BY <1>1, <1>9 DEF Tells, q
  <2> QED
    BY <1>2, <1>4, <2>1
<1> QED
  BY <1>0, <1>6, <1>7, <1>8, <1>9 DEF Answers

\* What a step makes of an awaited request that is not begun by it.
LEMMA AwaitedSteps ==
  ASSUME Steady, RunStep, NEW i \in Calls, calls'[i].waiting, ~calls'[i].aborted
  PROVE \/ BegunCall(calls'[i])
        \/ calls'[i] = calls[i]
        \/ Serve(i) /\ Awaited(i) /\ calls'[i].wire = "served" /\ calls'[i].mode = calls[i].mode
             /\ calls'[i].flow = calls[i].flow /\ calls'[i].endpoint = calls[i].endpoint
        \/ Receive(i) /\ Awaited(i) /\ calls[i].wire = "served" /\ calls'[i].wire = "received"
             /\ calls'[i].mode = calls[i].mode /\ calls'[i].flow = calls[i].flow
             /\ calls'[i].endpoint = calls[i].endpoint /\ calls'[i].reply = calls[i].reply
<1>0. CallStep(i) /\ Shape /\ IsCall(calls[i])
  BY CallSteps DEF Steady, Shape, Runs
<1>1. CASE Answered(i)
  <2>1. PICK p : IsReply(p) /\ calls'[i] = AnsweredAs(calls[i], p)
    BY <1>1 DEF Answered
  <2>2. /\ calls'[i].wire = "served" /\ calls'[i].waiting = calls[i].waiting
        /\ calls'[i].aborted = calls[i].aborted /\ calls'[i].mode = calls[i].mode
        /\ calls'[i].flow = calls[i].flow /\ calls'[i].endpoint = calls[i].endpoint
    <3> PICK r, d : r = calls[i] /\ d = calls'[i]
      OBVIOUS
    <3>1. IsCall(r) /\ d = AnsweredAs(r, p)
      BY <1>0, <2>1
    <3>2. /\ d.wire = "served" /\ d.waiting = r.waiting
          /\ d.aborted = r.aborted /\ d.mode = r.mode
          /\ d.flow = r.flow /\ d.endpoint = r.endpoint
      BY <2>1, <3>1, AnsweredTyped
    <3> QED
      BY <3>2
  <2> QED
    BY <1>1, <2>2 DEF Answered, Awaited
<1>2. CASE Receive(i) /\ Pending(i, {"served"}) /\ calls'[i] = [calls[i] EXCEPT !.wire = "received"]
  <2> PICK r, d : r = calls[i] /\ d = calls'[i]
    OBVIOUS
  <2>1. IsCall(r) /\ d = [r EXCEPT !.wire = "received"]
    BY <1>0, <1>2
  <2>2. /\ d.wire = "received" /\ d.mode = r.mode /\ d.flow = r.flow
        /\ d.endpoint = r.endpoint /\ d.reply = r.reply
    BY <2>1, ReceivedTyped
  <2> QED
    BY <1>2, <2>2 DEF Pending, Awaited
<1>3. CASE calls'[i] = [calls[i] EXCEPT !.aborted = TRUE]
  <2> PICK r, d : r = calls[i] /\ d = calls'[i]
    OBVIOUS
  <2>1. IsCall(r) /\ d = [r EXCEPT !.aborted = TRUE]
    BY <1>0, <1>3
  <2> QED
    BY <2>1, AbortedTyped
<1>4. CASE calls'[i] = Ended(calls[i])
  <2> PICK r, d : r = calls[i] /\ d = calls'[i]
    OBVIOUS
  <2>1. IsCall(r) /\ d = Ended(r)
    BY <1>0, <1>4
  <2> QED
    BY <2>1, EndedTyped
<1> QED
  BY <1>0, <1>1, <1>2, <1>3, <1>4 DEF CallStep

\* What each step does to the cookies, and to the requests when they change.
LEMMA JarSteps ==
  ASSUME Steady, [Next]_vars
  PROVE \/ jar' = jar
        \/ \E c \in Calls : Receive(c)
        \/ OtherTabLogin
        \/ jar' = [jar EXCEPT !.access = Empty] /\ UNCHANGED <<run, past>>
<1> Shape
  BY DEF Steady
<1>1. CASE User
  BY <1>1 DEF User, OpenPanel, EditBody, Send, demoLogin, prepareSessions, useDemoApiKey,
     runSocial, EditField, setAuthMode, clearVault, Reload
<1>2. ASSUME NEW c \in Calls, Serve(c) \/ Settle(c)
      PROVE jar' = jar
  BY <1>2, AnswerSteps, SettleSteps DEF ServeStep
<1>3. CASE AccessCookieExpires
  BY <1>3 DEF AccessCookieExpires
<1>4. CASE UNCHANGED vars
  BY <1>4 DEF vars
<1> QED
  BY <1>1, <1>2, <1>3, <1>4 DEF Next

\* Another tab's session is kept in cookies from its sign-in on.
LEMMA OtherTabKept ==
  ASSUME Steady, OtherTabLogin
  PROVE OtherTab \in past'.inCookies
<1>1. past \in PastType /\ past' = [past EXCEPT !.inCookies = @ \union {OtherTab}]
  BY DEF Steady, Shape, World, OtherTabLogin
<1> QED
  BY <1>1 DEF PastType

\* Statuses and requests after a step.
LEMMA CallsGuarded ==
  ASSUME Steady, Guarded, OtherTab \notin past.inCookies, [Next]_vars, NEW i \in Calls
  PROVE calls'[i].reply.status # 403 /\ (calls'[i].wire = "sent" => Passes(calls'[i]))
<1>0. RunStep /\ Shape /\ Bound(jar.access, jar.csrf)
  BY EveryStep DEF AllSteps, Steady, Guarded
<1>1. calls'[i].reply.status # 403
  <2>1. CASE Serve(i)
    BY <2>1, ServeGuarded
  <2>2. CASE calls'[i].reply = calls[i].reply \/ calls'[i].reply.status \in {0, calls[i].reply.status}
    BY <2>2 DEF Guarded
  <2> QED
    BY <1>0, <2>1, <2>2, ReplyKept
<1>2. ASSUME calls'[i].wire = "sent"
      PROVE Passes(calls'[i])
  <2>1. CallStep(i)
    BY <1>0, CallSteps
  <2>2. CASE BegunCall(calls'[i])
    <3> PICK r : r = calls'[i]
      OBVIOUS
    <3>1. BegunCall(r) => Passes(r)
      BY <1>0, BegunPasses
    <3> QED
      BY <2>2, <3>1
  <2>3. CASE /\ calls[i].wire = "sent" /\ calls'[i].request = calls[i].request
             /\ calls'[i].mode \in {calls[i].mode, "bearer"}
    <3>1. Passes(calls[i])
      BY <2>3 DEF Guarded
    <3> QED
      BY <2>3, <3>1 DEF Passes
  <2>4. \/ BegunCall(calls'[i])
        \/ calls[i].wire = "sent" /\ calls'[i].request = calls[i].request
    BY <1>0, <1>2, <2>1, CallStays
  <2>5. BegunCall(calls'[i]) \/ calls'[i].mode \in {calls[i].mode, "bearer"}
    <3>1. IsCall(calls[i])
      BY <1>0 DEF Shape, Runs
    <3>2. CASE calls'[i] = [calls[i] EXCEPT !.aborted = TRUE] \/ calls'[i] = Ended(calls[i])
      <4> PICK r, d : r = calls[i] /\ d = calls'[i]
        OBVIOUS
      <4>1. IsCall(r) /\ (d = [r EXCEPT !.aborted = TRUE] \/ d = Ended(r))
        BY <3>1, <3>2
      <4> QED
        BY <4>1, AbortedTyped, EndedTyped
    <3>3. CASE Answered(i)
      <4>1. calls'[i].wire = "served"
        <5> PICK r, d : r = calls[i] /\ d = calls'[i]
          OBVIOUS
        <5>1. PICK p : IsReply(p) /\ d = AnsweredAs(r, p)
          BY <3>3 DEF Answered
        <5>2. IsCall(r)
          BY <3>1
        <5> QED
          BY <5>1, <5>2, AnsweredTyped
      <4> QED
        BY <1>2, <4>1
    <3>4. CASE calls'[i] = [calls[i] EXCEPT !.wire = "received"]
      <4> PICK r, d : r = calls[i] /\ d = calls'[i]
        OBVIOUS
      <4>1. IsCall(r) /\ d = [r EXCEPT !.wire = "received"]
        BY <3>1, <3>4
      <4>2. d.mode = r.mode
        BY <4>1, ReceivedTyped
      <4> QED
        BY <4>2
    <3> QED
      BY <2>1, <3>2, <3>3, <3>4 DEF CallStep
  <2> QED
    BY <2>2, <2>3, <2>4, <2>5
<1> QED
  BY <1>1, <1>2

\* Every step keeps the cookies bound and the requests acceptable.
LEMMA GuardedStep == Steady /\ Apart /\ Guarded /\ [Next]_vars => Guarded'
<1> DEFINE Bare(i) == calls'[i].waiting /\ ~calls'[i].aborted /\ calls'[i].mode = "cookie"
           AfterNext(cookies, k) == IF k \in DOMAIN cookies THEN cookies[k] ELSE jar'[k]
           StoresNext(cookies) ==
             /\ Bound(AfterNext(cookies, "access"), AfterNext(cookies, "csrf"))
             /\ "access" \in DOMAIN cookies => "csrf" \in DOMAIN cookies
<1> SUFFICES ASSUME Steady, Apart, Guarded, [Next]_vars, OtherTab \notin past'.inCookies
             PROVE /\ Bound(jar'.access, jar'.csrf)
                   /\ \A i \in Calls : calls'[i].reply.status # 403
                   /\ \A i \in Calls : calls'[i].wire = "sent" => Passes(calls'[i])
                   /\ \A i \in Calls : Bare(i) =>
                        /\ calls'[i].wire = "sent" => jar'.access \in {Empty, calls'[i].request.cookies.access}
                        /\ calls'[i].wire = "served" => StoresNext(calls'[i].reply.cookies)
  BY DEF Guarded, Awaited, Passes, Stores, After
<1>0. /\ RunStep /\ Shape /\ jar \in Jars /\ OtherTab \notin past.inCookies
      /\ Bound(jar.access, jar.csrf)
  BY EveryStep, CookiesGrow DEF AllSteps, Steady, Shape, World, Guarded
<1>1. \A i \in Calls : calls'[i].reply.status # 403 /\ (calls'[i].wire = "sent" => Passes(calls'[i]))
  BY <1>0, CallsGuarded
<1>2. CASE jar' = jar
  <2>1. ASSUME NEW i \in Calls, Bare(i)
        PROVE /\ calls'[i].wire = "sent" => jar.access \in {Empty, calls'[i].request.cookies.access}
              /\ calls'[i].wire = "served" => Stores(calls'[i].reply.cookies)
    <3>1. CASE BegunCall(calls'[i])
      <4> PICK r : r = calls'[i]
        OBVIOUS
      <4>1. BegunCall(r) => r.wire = "sent" /\ (r.mode = "cookie" => r.request.cookies.access = jar.access)
        BY <1>0, BegunPasses
      <4> QED
        BY <2>1, <3>1, <4>1
    <3>2. CASE calls'[i] = calls[i]
      BY <1>0, <2>1, <3>2 DEF Guarded, Awaited
    <3>3. CASE Serve(i) /\ Awaited(i) /\ calls'[i].wire = "served" /\ calls'[i].mode = calls[i].mode
      <4>1. Stores(calls'[i].reply.cookies)
        BY <1>0, <2>1, <3>3, ServeGuarded
      <4> QED
        BY <3>3, <4>1
    <3>4. CASE calls'[i].wire = "received"
      BY <3>4
    <3> QED
      BY <1>0, <2>1, <3>1, <3>2, <3>3, <3>4, AwaitedSteps
  <2> QED
    BY <1>0, <1>1, <1>2, <2>1 DEF Stores, After
<1>3. ASSUME NEW c \in Calls, Receive(c), jar' # jar
      PROVE /\ Bound(jar'.access, jar'.csrf) /\ \A i \in Calls : ~Bare(i) \/ calls'[i].wire = "received"
  <2> PICK cookies : cookies = calls[c].reply.cookies
    OBVIOUS
  <2>1. /\ Awaited(c) /\ calls[c].wire = "served" /\ calls[c].mode = "cookie"
        /\ calls' = [calls EXCEPT ![c].wire = "received"] /\ latest' = latest
        /\ jar' = Spread(cookies, jar) /\ Pending(c, {"served"})
    BY <1>3 DEF Receive, Pending, Awaited
  <2>2. Partial(cookies, CookieNames) /\ Stores(cookies)
    BY <1>0, <2>1 DEF Shape, Runs, IsCall, IsReply, Guarded
  <2>3. jar'.access = After(cookies, "access") /\ jar'.csrf = After(cookies, "csrf")
    BY <1>0, <2>1, <2>2, SpreadJar DEF CookieNames, After, Jars
  <2>4. Bound(jar'.access, jar'.csrf)
    BY <2>2, <2>3 DEF Stores
  <2>5. c = abortRef
    BY <2>1, PendingIsLatest
  <2>6. ASSUME NEW i \in Calls, Bare(i)
        PROVE calls'[i].wire = "received"
    <3>1. CASE i = c
      <4>1. calls'[c] = [calls[c] EXCEPT !.wire = "received"] /\ IsCall(calls[c])
        BY <1>0, <2>1 DEF Shape, Runs
      <4> PICK r, d : r = calls[c] /\ d = calls'[c]
        OBVIOUS
      <4>2. IsCall(r) /\ d = [r EXCEPT !.wire = "received"]
        BY <4>1
      <4>3. d.wire = "received"
        BY <4>2, ReceivedTyped
      <4> QED
        BY <3>1, <4>3
    <3>2. CASE i # c
      <4>1. calls'[i] = calls[i]
        BY <1>0, <2>1, <3>2 DEF Shape, Runs
      <4> QED
        BY <2>5, <2>6, <3>2, <4>1 DEF Steady, SpinnerTracksRequest
    <3> QED
      BY <3>1, <3>2
  <2> QED
    BY <2>4, <2>6
<1>4. CASE OtherTabLogin
  BY <1>4, OtherTabKept
<1>5. CASE jar' = [jar EXCEPT !.access = Empty] /\ UNCHANGED <<run, past>>
  <2>1. jar'.access = Empty /\ jar'.csrf = jar.csrf /\ calls' = calls /\ jar' \in Jars
    BY <1>0, <1>5, NoSecrets DEF Jars, run
  <2>2. Bound(jar'.access, jar'.csrf)
    BY <2>1 DEF Bound
  <2>3. ASSUME NEW i \in Calls, Bare(i), calls'[i].wire = "served"
        PROVE StoresNext(calls'[i].reply.cookies)
    <3> PICK cookies : cookies = calls[i].reply.cookies
      OBVIOUS
    <3>1. Stores(cookies)
      BY <1>0, <2>1, <2>3 DEF Guarded, Awaited
    <3>2. calls'[i].reply.cookies = cookies
      BY <2>1
    <3>3. CASE "access" \in DOMAIN cookies
      BY <3>1, <3>2, <3>3 DEF Stores, After
    <3>4. CASE "access" \notin DOMAIN cookies
      BY <2>1, <3>2, <3>4 DEF Bound
    <3> QED
      BY <3>3, <3>4
  <2> QED
    BY <1>1, <2>1, <2>2, <2>3
<1> QED
  BY <1>1, <1>2, <1>3, <1>4, <1>5, JarSteps

\* Empty cookies are bound.
LEMMA GuardedInit == Init => Guarded
<1> SUFFICES ASSUME Init
             PROVE Guarded
  OBVIOUS
<1>1. \A c \in Calls : calls[c] = Unbegun
  BY DEF Init
<1>2. Unbegun.wire = "unsent" /\ ~Unbegun.waiting /\ Unbegun.reply.status = 0
  BY DEF Unbegun, NoReply
<1>3. jar.access = Empty
  BY DEF Init, ClearedCookies, CookieNames
<1> QED
  BY <1>1, <1>2, <1>3 DEF Guarded, Bound, Awaited

\* Until another tab signs in, no request of the Workbench fails the CSRF filter.
THEOREM MutationsAlwaysPass == Spec => []MutationsPassCsrf
<1>1. Steady /\ Apart /\ Guarded /\ [Next]_vars => Guarded'
  BY GuardedStep
<1>2. Guarded => MutationsPassCsrf
  BY DEF Guarded, MutationsPassCsrf
<1> QED
  BY <1>1, <1>2, GuardedInit, SteadyAlways, ApartAlways, PTL DEF Spec

(***************************************************************************)
(* "login_ready" is shown for a session this page can use.                 *)
(***************************************************************************)
\* A status that opens a session.
SignedIn(p) == ok(p.status) /\ p.status # 202

\* What the answer to a demo login brings: the session's cookies in cookie mode,
\* its access token otherwise.
Carries(p, mode, c) ==
  IF mode = "cookie" THEN "refresh" \in DOMAIN p.cookies /\ p.cookies["refresh"].by = c
  ELSE "accessToken" \in DOMAIN p.data /\ p.data["accessToken"].by = c

\* The awaited demo login asks for cookies exactly in cookie mode; its answer
\* carries the session's credentials; once received, those kept in cookies are in
\* the jar, unless another tab's have replaced them.
Demo ==
  \A c \in Calls : Awaited(c) /\ calls[c].flow = "demo" =>
    /\ calls[c].endpoint = "auth-login"
    /\ calls[c].wire = "sent" =>
         calls[c].request.headers.transport = (calls[c].mode = "cookie")
    /\ calls[c].wire \in {"served", "received"} /\ SignedIn(calls[c].reply) =>
         Carries(calls[c].reply, calls[c].mode, c)
    /\ calls[c].wire = "received" /\ SignedIn(calls[c].reply) /\ calls[c].mode = "cookie" =>
         jar.refresh.by \in {c, OtherTab}

\* The service answers an awaited login with what it was asked for, or not at all.
LEMMA ServeDemo ==
  ASSUME Shape, NEW c \in Calls, Serve(c), Awaited(c), calls[c].endpoint = "auth-login",
         Request(c).headers.transport = (calls[c].mode = "cookie"),
         SignedIn(calls'[c].reply)
  PROVE Carries(calls'[c].reply, calls[c].mode, c)
<1>0. ASSUME NEW status, NEW data, NEW cookies, Reply(c, status, data, cookies)
      PROVE /\ calls'[c].reply.status = status
            /\ calls'[c].reply.data = data /\ calls'[c].reply.cookies = cookies
  BY <1>0, AnswerReply DEF Awaited
<1>1. ServeLogin(c) \/ ServeRefused(c)
  BY DEF Serve, ServeMfaLogin, ServeRefresh, ServeLogout, ServeCsrf, ServeAuthorize,
     ServeCallback, ServeOther, Asked, Handled
<1>2. CASE ServeRefused(c)
  <2>1. Reply(c, 401, << >>, << >>) \/ Reply(c, 403, << >>, << >>)
    BY <1>2 DEF ServeRefused
  <2>2. calls'[c].reply.status \in {401, 403}
    BY <1>0, <2>1
  <2> QED
    BY <2>2 DEF SignedIn, ok
<1>3. CASE ServeLogin(c)
  <2>1. CASE server.mfa
    <3>1. Reply(c, 202, [mfaTicket |-> Value("mfaTicket", 0, c)], << >>)
      BY <1>3, <2>1 DEF ServeLogin
    <3> QED
      BY <1>0, <3>1 DEF SignedIn
  <2>2. CASE ~server.mfa
    <3>1. DeliverLogin(c)
      BY <1>3, <2>2 DEF ServeLogin
    <3>2. Delivered(c, c, calls[c].mode = "cookie") /\ c \in Sessions
      BY <3>1, Numbers DEF DeliverLogin
    <3>3. CASE calls[c].mode = "cookie"
      <4>1. Reply(c, 200, << >>, AuthCookies(c, c))
        BY <3>2, <3>3 DEF Delivered
      <4>2. calls'[c].reply.cookies = AuthCookies(c, c)
        BY <1>0, <4>1
      <4> QED
        BY <3>3, <4>2, PairFields DEF Carries, CookieNames
    <3>4. CASE calls[c].mode # "cookie"
      <4>1. Reply(c, 200, TokenPair(c, c), << >>)
        BY <3>2, <3>4 DEF Delivered
      <4>2. calls'[c].reply.data = TokenPair(c, c)
        BY <1>0, <4>1
      <4> QED
        BY <3>4, <4>2, PairFields DEF Carries
    <3> QED
      BY <3>3, <3>4
  <2> QED
    BY <2>1, <2>2
<1> QED
  BY <1>1, <1>2, <1>3

\* Receiving the reply of a login in cookie mode puts its refresh token into the jar.
LEMMA ReceiveDemo ==
  ASSUME Shape, NEW c \in Calls, Receive(c), calls[c].mode = "cookie",
         Carries(calls[c].reply, "cookie", c)
  PROVE jar'.refresh.by = c
<1>1. Partial(calls[c].reply.cookies, CookieNames) /\ jar \in Jars
  BY DEF Shape, World, Runs, IsCall, IsReply
<1>2. jar' = Spread(calls[c].reply.cookies, jar)
  BY DEF Receive
<1>3. jar'["refresh"] = calls[c].reply.cookies["refresh"]
  BY <1>1, <1>2, SpreadJar DEF Carries, CookieNames
<1> QED
  BY <1>3 DEF Carries

\* While a received login is awaited only another tab replaces its refresh cookie.
LEMMA RefreshStays ==
  ASSUME Steady, [Next]_vars, NEW i \in Calls, Awaited(i), calls[i].wire = "received",
         jar.refresh.by \in {i, OtherTab}
  PROVE jar'.refresh.by \in {i, OtherTab}
<1>1. ASSUME NEW c \in Calls, Receive(c)
      PROVE FALSE
  <2>1. Pending(c, {"served"})
    BY <1>1 DEF Receive
  <2>2. Awaited(c) /\ calls[c].wire = "served"
    BY <2>1 DEF Pending, Awaited
  <2>3. c = abortRef /\ i = abortRef
    BY <2>2 DEF Awaited, Steady, SpinnerTracksRequest
  <2> QED
    BY <2>2, <2>3
<1>2. CASE OtherTabLogin
  <2>1. jar' = AuthCookies(OtherTab, OtherTab)
    BY <1>2 DEF OtherTabLogin
  <2> QED
    BY <2>1 DEF AuthCookies, Value
<1>3. CASE jar' = [jar EXCEPT !.access = Empty]
  BY <1>3 DEF Steady, Shape, World, Jars
<1> QED
  BY <1>1, <1>2, <1>3, JarSteps

\* A demo login is begun with the transport of its mode.
LEMMA BegunDemo ==
  ASSUME Shape, NEW r, BegunCall(r), r.flow = "demo"
  PROVE /\ r.endpoint = "auth-login" /\ r.wire = "sent"
        /\ r.request.headers.transport = (r.mode = "cookie")
<1>1. /\ r.endpoint = "auth-login" /\ r.wire = "sent" /\ r.mode \in AuthModes
      /\ r.request.headers = buildHeaders(endpointById("auth-login"), r.mode, variables, jar)
  BY DEF BegunCall, IsCall
<1>2. endpointById("auth-login").id = "auth-login"
  BY EntryFound, NamedEntries
<1>3. variables \in [Variables -> Text] /\ jar \in Jars
  BY DEF Shape, Vault, World
<1>4. r.request.headers.transport
        = (r.mode = "cookie" /\ endpointById("auth-login").id \in SESSION_ISSUING_ENDPOINTS)
  BY <1>1, <1>3, HeaderFacts
<1>5. "auth-login" \in SESSION_ISSUING_ENDPOINTS
  BY DEF SESSION_ISSUING_ENDPOINTS
<1> QED
  BY <1>1, <1>2, <1>4, <1>5

\* Every step keeps what the awaited demo login will say.
LEMMA DemoStep == Steady /\ Demo /\ [Next]_vars => Demo'
<1> DEFINE Fits(i, r, refresh) ==
             /\ r.endpoint = "auth-login"
             /\ r.wire = "sent" => r.request.headers.transport = (r.mode = "cookie")
             /\ r.wire \in {"served", "received"} /\ SignedIn(r.reply) => Carries(r.reply, r.mode, i)
             /\ r.wire = "received" /\ SignedIn(r.reply) /\ r.mode = "cookie" =>
                  refresh.by \in {i, OtherTab}
<1> SUFFICES ASSUME Steady, Demo, [Next]_vars, NEW i \in Calls,
                    calls'[i].waiting, ~calls'[i].aborted, calls'[i].flow = "demo"
             PROVE Fits(i, calls'[i], jar'.refresh)
  BY DEF Demo, Awaited, SignedIn, Carries
<1>0. RunStep /\ Shape
  BY EveryStep DEF AllSteps, Steady
<1>1. CASE BegunCall(calls'[i])
  <2> PICK r : r = calls'[i]
    OBVIOUS
  <2>1. /\ r.endpoint = "auth-login" /\ r.wire = "sent"
        /\ r.request.headers.transport = (r.mode = "cookie")
    BY <1>0, <1>1, BegunDemo
  <2> QED
    BY <2>1
<1>2. ASSUME Awaited(i), calls[i].flow = "demo"
      PROVE Fits(i, calls[i], jar.refresh)
  BY <1>2 DEF Demo
<1>3. CASE calls'[i] = calls[i]
  <2>1. Awaited(i) /\ calls[i].flow = "demo"
    BY <1>3 DEF Awaited
  <2>2. CASE calls[i].wire = "received" /\ SignedIn(calls[i].reply) /\ calls[i].mode = "cookie"
    <3>1. jar.refresh.by \in {i, OtherTab}
      BY <1>2, <2>1, <2>2
    <3>2. jar'.refresh.by \in {i, OtherTab}
      BY <2>1, <2>2, <3>1, RefreshStays
    <3> QED
      BY <1>2, <1>3, <2>1, <3>2
  <2>3. CASE ~(calls[i].wire = "received" /\ SignedIn(calls[i].reply) /\ calls[i].mode = "cookie")
    BY <1>2, <1>3, <2>1, <2>3
  <2> QED
    BY <2>2, <2>3
<1>4. CASE /\ Serve(i) /\ Awaited(i) /\ calls'[i].wire = "served" /\ calls'[i].mode = calls[i].mode
           /\ calls'[i].flow = calls[i].flow /\ calls'[i].endpoint = calls[i].endpoint
  <2>1. calls[i].wire = "sent"
    BY <1>0, <1>4, ServeAnswers DEF Answers
  <2>2. /\ calls[i].endpoint = "auth-login"
        /\ Request(i).headers.transport = (calls[i].mode = "cookie")
    BY <1>2, <1>4, <2>1 DEF Request
  <2>3. SignedIn(calls'[i].reply) => Carries(calls'[i].reply, calls[i].mode, i)
    BY <1>0, <1>4, <2>2, ServeDemo
  <2> QED
    BY <1>4, <2>2, <2>3
<1>5. CASE /\ Receive(i) /\ Awaited(i) /\ calls[i].wire = "served" /\ calls'[i].wire = "received"
           /\ calls'[i].mode = calls[i].mode /\ calls'[i].flow = calls[i].flow
           /\ calls'[i].endpoint = calls[i].endpoint /\ calls'[i].reply = calls[i].reply
  <2>1. /\ calls[i].endpoint = "auth-login"
        /\ SignedIn(calls[i].reply) => Carries(calls[i].reply, calls[i].mode, i)
    BY <1>2, <1>5
  <2>2. ASSUME SignedIn(calls[i].reply), calls[i].mode = "cookie"
        PROVE jar'.refresh.by = i
    BY <1>0, <1>5, <2>1, <2>2, ReceiveDemo
  <2> QED
    BY <1>5, <2>1, <2>2
<1> QED
  BY <1>0, <1>1, <1>3, <1>4, <1>5, AwaitedSteps

\* No request is awaited yet.
LEMMA DemoInit == Init => Demo
<1> SUFFICES ASSUME Init
             PROVE Demo
  OBVIOUS
<1>1. \A c \in Calls : calls[c] = Unbegun
  BY DEF Init
<1>2. ~Unbegun.waiting
  BY DEF Unbegun
<1> QED
  BY <1>1, <1>2 DEF Demo, Awaited

\* Only the continuation of a demo login shows "login_ready".
LEMMA LoginReadyBy ==
  ASSUME Shape, Next, toast'.name = "login_ready"
  PROVE \E c \in Calls : Deliver(c) /\ ContinueDemo(c)
<1>0. NoToast.name = "none" /\ \A name, c : Toast(name, c).name = name /\ Toast(name, c).call = c
  BY DEF NoToast, Toast
<1>1. ~User
  <2>1. ~(OpenPanel \/ EditBody \/ EditField \/ setAuthMode \/ Reload)
    BY <1>0 DEF OpenPanel, EditBody, EditField, setAuthMode, Reload, Quiet
  <2>2. ~(Send \/ demoLogin \/ prepareSessions)
    BY <1>0 DEF Send, demoLogin, prepareSessions, Quiet
  <2>3. ~(useDemoApiKey \/ runSocial \/ clearVault)
    BY <1>0 DEF useDemoApiKey, runSocial, clearVault
  <2> QED
    BY <2>1, <2>2, <2>3 DEF User
<1>2. ASSUME NEW c \in Calls, Serve(c)
      PROVE FALSE
  <2>0. ASSUME NEW status, NEW data, NEW cookies, Reply(c, status, data, cookies)
        PROVE FALSE
    BY <1>0, <2>0 DEF Reply, Quiet
  <2>1. Answers(c)
    BY <1>2, ServeAnswers
  <2>2. CASE Opens(c) \/ \E s : Renews(c, s)
    <3>1. PICK s \in Sessions, byCookie \in BOOLEAN : Delivered(c, s, byCookie)
      BY <2>2, DeliveryAnswers
    <3> QED
      BY <2>0, <3>1, DeliveredReply
  <2>3. CASE Closes(c) \/ Protects(c)
    BY <2>0, <2>3 DEF Closes, Protects
  <2>4. ASSUME NEW status, NEW data, Tells(c, status, data)
        PROVE FALSE
    BY <2>0, <2>4 DEF Tells
  <2> QED
    BY <2>1, <2>2, <2>3, <2>4 DEF Answers
<1>3. ASSUME NEW c \in Calls, Receive(c)
      PROVE FALSE
  BY <1>0, <1>3 DEF Receive, Quiet
<1>4. \A flow : NullToast(flow) \in {"scenario_failed", "oauth_failed", "none"}
  BY DEF NullToast
<1>5. ASSUME NEW c \in Calls, Fails(c) \/ Interrupted(c)
      PROVE FALSE
  <2>1. \/ toast' = NoToast
        \/ toast' = Toast("request_failed", c)
        \/ toast' = Toast(NullToast(calls[c].flow), c)
    BY <1>5 DEF Fails, Interrupted
  <2> QED
    BY <1>0, <1>4, <2>1
<1>6. ASSUME NEW c \in Calls, Deliver(c), ~ContinueDemo(c)
      PROVE FALSE
  <2>1. ContinuePanel(c) \/ ContinueSessions(c) \/ ContinueSocial(c)
    BY <1>6 DEF Deliver
  <2>2. \/ toast' = NoToast
        \/ \E name \in {"scenario_failed", "scenario_ready", "oauth_failed", "oauth_ready"} :
             toast' = Toast(name, c)
    BY <2>1 DEF ContinuePanel, ContinueSessions, ContinueSocial
  <2> QED
    BY <1>0, <2>2
<1>7. ~(OtherTabLogin \/ AccessCookieExpires)
  BY <1>0 DEF OtherTabLogin, AccessCookieExpires, Quiet
<1> QED
  BY <1>1, <1>2, <1>3, <1>5, <1>6, <1>7 DEF Next, Settle

\* "login_ready" is shown only when the session exists and this page can use it: its
\* access token is in the vault or its refresh token in the cookies, unless another
\* tab's session has taken them over, whatever was in flight when it was asked for.
THEOREM LoginReadyAlwaysTruthful == Spec => LoginReadyTruthful
<1> DEFINE Truthful ==
      toast'.name = "login_ready" =>
        LET c == toast'.call
        IN \/ variables'["accessToken"].by = c
           \/ jar.refresh.by \in {c, OtherTab}
<1>1. ASSUME Steady, Demo, Next, toast'.name = "login_ready"
      PROVE Truthful
  <2>1. PICK c \in Calls : Deliver(c) /\ ContinueDemo(c)
    BY <1>1, LoginReadyBy DEF Steady
  <2>2. SignedIn(calls[c].reply) /\ toast'.call = c /\ calls[c].flow = "demo"
    BY <1>1, <2>1 DEF ContinueDemo, SignedIn, Toast, NoToast
  <2>3. Awaited(c) /\ calls[c].wire = "received"
    BY <2>1 DEF Deliver, Pending, Awaited
  <2>4. CASE calls[c].mode = "cookie"
    BY <1>1, <2>2, <2>3, <2>4 DEF Demo
  <2>5. CASE calls[c].mode # "cookie"
    <3> PICK updates : updates = captureResponseData(calls[c])
      OBVIOUS
    <3>1. "accessToken" \in DOMAIN calls[c].reply.data /\ calls[c].reply.data["accessToken"].by = c
      BY <1>1, <2>2, <2>3, <2>5 DEF Demo, Carries
    <3>2. IsCall(calls[c]) /\ jar \in Jars
      BY <1>1 DEF Steady, Shape, Runs, World
    <3>3. /\ "accessToken" \in DOMAIN updates
          /\ updates["accessToken"] = calls[c].reply.data["accessToken"]
      BY <3>1, <3>2, CapturedTyped
    <3>4. variables' = Spread(updates, variables)
      BY <2>1 DEF Deliver, setVariable
    <3>5. \A k \in DOMAIN updates : Spread(updates, variables)[k] = updates[k]
      BY SpreadFacts
    <3>6. variables'["accessToken"] = calls[c].reply.data["accessToken"]
      BY <3>3, <3>4, <3>5
    <3>7. variables'["accessToken"].by = c
      BY <3>1, <3>6
    <3> QED
      BY <2>2, <3>7
  <2> QED
    BY <2>4, <2>5
<1>2. Steady /\ Demo /\ [Next]_vars => [Truthful]_vars
  BY <1>1
<1>3. Steady /\ Demo /\ [Next]_vars => Demo'
  BY DemoStep
<1> QED
  BY <1>2, <1>3, DemoInit, SteadyAlways, PTL DEF Spec, LoginReadyTruthful

====
