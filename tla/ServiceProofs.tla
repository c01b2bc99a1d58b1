---------------------------- MODULE ServiceProofs ----------------------------
(***************************************************************************)
(* Proofs about the components around the approval protocol, each with the *)
(* inductive invariant its safety rests on.  The components share no       *)
(* variable and are proved one after the other, for every value of their   *)
(* constants.                                                              *)
(***************************************************************************)
EXTENDS WebDashboard, McpTools, SandboxStatus, SandboxAdmission, NetworkProbe, Snapshot,
        DecisionView, ApprovalDataset, AuditLedger, FiniteSetTheorems, TLAPS

-----------------------------------------------------------------------------
(*                              WebDashboard                               *)
(*                                                                         *)
(* A decision reaches its handler with a user whom TokenReview accepted    *)
(* since it was sent and a form that copies a cookie the browser sent: the *)
(* form was filled before, so that it cannot copy a cookie made for this   *)
(* very request.  Requests in flight have ids of their own, so that a      *)
(* decision is found under the id of the request that made it.             *)
-----------------------------------------------------------------------------

WebSpec == WebInit /\ [][WebNext]_webVars

RequestRecords ==
  [id : Nat, step : {"idle", "auth", "csrf", "handle", "audit"}, path : Paths,
   token : WebUsers \cup {Nobody}, csrf : Nat, form : Nat,
   given : WebUsers \cup {Nobody}, user : WebUsers \cup {Nobody}, status : Nat,
   setToken : WebUsers \cup {Nobody, Kept}, setCsrf : Nat,
   could : SUBSET WebUsers, may : SUBSET WebUsers]

Browsers == [token : WebUsers \cup {Nobody}, csrf : Nat]

WebTypeOK ==
  /\ browser \in Browsers /\ forms \subseteq Nat
  /\ accepted \subseteq WebUsers /\ permitted \subseteq WebUsers
  /\ request \in [Requests -> RequestRecords]
  /\ csrfIds \in Nat /\ webEvents \in Nat

(* What the answer to a request says of the decisions made.                *)
TrueAnswer(q, D) ==
  q.step = "audit" =>
    /\ q.status \in {303, 403} => \A d \in D : d.id # q.id
    /\ q.path = "decide" /\ q.status = 200 => \E d \in D : d.id = q.id /\ d.by = q.user

(* How far a request has been checked.                                     *)
Vetted(q, D, F, n, acc, per) ==
  /\ q.form \in F \cup {0} /\ q.csrf <= n /\ q.setCsrf <= n
  /\ q.step # "idle" => acc \subseteq q.could /\ per \subseteq q.may
  /\ q.path = "decide" /\ q.step \in {"csrf", "handle"} => q.user \in q.could
  /\ q.path = "decide" /\ q.step = "handle" => q.form # 0 /\ q.form = q.csrf
  /\ q.step \in {"auth", "csrf", "handle"} => \A d \in D : d.id # q.id
  /\ TrueAnswer(q, D)

SoundDecision(d, F, n) ==
  d.by \in d.could \cap d.may /\ d.form \in F /\ d.form = d.csrf /\ d.id \in 0 .. n

WebInv ==
  /\ WebTypeOK
  /\ \A f \in forms : f <= csrfIds
  /\ browser.csrf <= csrfIds
  /\ \A r \in Requests : Vetted(request[r], decided, forms, csrfIds, accepted, permitted)
  /\ \A d \in decided : SoundDecision(d, forms, webEvents)
  /\ \A r \in Requests : request[r].step # "idle" => request[r].id <= webEvents
  /\ \A r, s \in Requests :
       r # s /\ request[r].step # "idle" /\ request[s].step # "idle" => request[r].id # request[s].id

LEMMA VettedGrows ==
  ASSUME NEW q \in RequestRecords, NEW D, NEW E, NEW F, NEW G, NEW n \in Nat, NEW m \in Nat,
         NEW acc, NEW per, Vetted(q, D, F, n, acc, per), D \subseteq E, F \subseteq G, n <= m,
         \A d \in E \ D : q.step # "idle" => d.id # q.id
  PROVE  Vetted(q, E, G, m, acc, per)
<1>1. q.form \in G \cup {0}
  BY DEF Vetted
<1>2. q.csrf \in Nat /\ q.setCsrf \in Nat /\ q.csrf <= n /\ q.setCsrf <= n
  BY DEF Vetted, RequestRecords
<1>3. q.csrf <= m /\ q.setCsrf <= m
  BY <1>2
<1>4. TrueAnswer(q, E)
  BY DEF Vetted, TrueAnswer
<1>5. q.step \in {"auth", "csrf", "handle"} => \A d \in E : d.id # q.id
  BY DEF Vetted
<1> QED BY <1>1, <1>3, <1>4, <1>5 DEF Vetted

(* A step that moves one request on, and may decide in its name.           *)
LEMMA RequestMoves ==
  ASSUME WebInv, NEW r \in Requests, NEW q \in RequestRecords,
         request' = [request EXCEPT ![r] = q],
         browser' \in Browsers, browser'.csrf <= csrfIds',
         accepted' = accepted, permitted' = permitted,
         csrfIds' \in Nat, csrfIds' >= csrfIds, webEvents' \in Nat, webEvents' >= webEvents,
         forms' \subseteq Nat, forms \subseteq forms', \A f \in forms' : f <= csrfIds',
         decided \subseteq decided',
         \A d \in decided' \ decided :
           request[r].step # "idle" /\ d.id = request[r].id /\ SoundDecision(d, forms', webEvents'),
         Vetted(q, decided', forms', csrfIds', accepted, permitted),
         q.step # "idle" =>
           \/ request[r].step # "idle" /\ q.id = request[r].id
           \/ q.id = webEvents + 1 /\ webEvents' = webEvents + 1
  PROVE  WebInv'
<1>1. WebTypeOK'
  BY DEF WebInv, WebTypeOK
<1>2. /\ webEvents \in Nat /\ csrfIds \in Nat /\ request'[r] = q
      /\ \A s \in Requests : request[s] \in RequestRecords /\ request[s].id \in Nat
      /\ \A s \in Requests : s # r => request'[s] = request[s]
  BY DEF WebInv, WebTypeOK, RequestRecords
<1>3. ASSUME NEW s \in Requests PROVE Vetted(request'[s], decided', forms', csrfIds', accepted', permitted')
  <2>1. CASE s = r
    BY <1>2, <2>1
  <2>2. CASE s # r
    <3>1. Vetted(request[s], decided, forms, csrfIds, accepted, permitted)
      BY DEF WebInv
    <3>2. \A d \in decided' \ decided : request[s].step # "idle" => d.id # request[s].id
      BY <2>2 DEF WebInv
    <3>3. csrfIds <= csrfIds'
      BY <1>2
    <3>4. Vetted(request[s], decided', forms', csrfIds', accepted, permitted)
      BY <1>2, <3>1, <3>2, <3>3, VettedGrows
    <3> QED BY <1>2, <2>2, <3>4
  <2> QED BY <2>1, <2>2
<1>4. ASSUME NEW d \in decided' PROVE SoundDecision(d, forms', webEvents')
  <2>1. CASE d \in decided
    <3>1. SoundDecision(d, forms, webEvents)
      BY <2>1 DEF WebInv
    <3>2. d.id \in 0 .. webEvents'
      BY <1>2, <3>1 DEF SoundDecision
    <3> QED BY <3>1, <3>2 DEF SoundDecision
  <2> QED BY <2>1
<1>5. ASSUME NEW s \in Requests, request'[s].step # "idle" PROVE request'[s].id <= webEvents'
  <2>1. CASE s = r
    <3>1. request[r].step # "idle" => request[r].id <= webEvents
      BY DEF WebInv
    <3> QED BY <1>2, <1>5, <2>1, <3>1
  <2>2. CASE s # r
    <3>1. request[s].id <= webEvents
      BY <1>2, <1>5, <2>2 DEF WebInv
    <3> QED BY <1>2, <2>2, <3>1
  <2> QED BY <2>1, <2>2
<1>6. ASSUME NEW s \in Requests, s # r, request[s].step # "idle", q.step # "idle"
      PROVE  request[s].id # q.id
  <2>1. request[s].id <= webEvents /\ request[s].id \in Nat
    BY <1>2, <1>6 DEF WebInv
  <2>2. request[r].step # "idle" => request[s].id # request[r].id
    BY <1>6 DEF WebInv
  <2> QED BY <1>2, <1>6, <2>1, <2>2
<1>7. ASSUME NEW s \in Requests, NEW t \in Requests, s # t, request'[s].step # "idle",
             request'[t].step # "idle"
      PROVE  request'[s].id # request'[t].id
  <2>1. CASE s = r
    BY <1>2, <1>6, <1>7, <2>1
  <2>2. CASE t = r
    BY <1>2, <1>6, <1>7, <2>2
  <2>3. CASE s # r /\ t # r
    BY <1>2, <1>7, <2>3 DEF WebInv
  <2> QED BY <2>1, <2>2, <2>3
<1> QED BY <1>1, <1>3, <1>4, <1>5, <1>7 DEF WebInv

(* What a step of the chain leaves alone.                                  *)
LEMMA ChainMoves ==
  ASSUME WebInv, NEW r \in Requests, NEW q \in RequestRecords,
         request' = [request EXCEPT ![r] = q], request[r].step # "idle", q.id = request[r].id,
         UNCHANGED <<browser, forms, accepted, permitted, decided, webEvents>>,
         csrfIds' \in Nat, csrfIds' >= csrfIds,
         Vetted(q, decided, forms, csrfIds', accepted, permitted)
  PROVE  WebInv'
<1>1. /\ browser \in Browsers /\ forms \subseteq Nat /\ csrfIds \in Nat /\ webEvents \in Nat
      /\ browser.csrf \in Nat
  BY DEF WebInv, WebTypeOK, Browsers
<1>2. browser.csrf <= csrfIds /\ \A f \in forms : f <= csrfIds
  BY DEF WebInv
<1>3. browser'.csrf <= csrfIds' /\ \A f \in forms' : f <= csrfIds'
  BY <1>1, <1>2
<1>4. webEvents' \in Nat /\ webEvents' >= webEvents
  BY <1>1
<1>5. /\ browser' \in Browsers /\ forms' \subseteq Nat /\ forms \subseteq forms'
      /\ decided \subseteq decided' /\ decided' \ decided = {}
      /\ accepted' = accepted /\ permitted' = permitted
  BY <1>1
<1>6. Vetted(q, decided', forms', csrfIds', accepted, permitted)
  OBVIOUS
<1> QED BY <1>3, <1>4, <1>5, <1>6, RequestMoves

LEMMA IdleRequestType ==
  /\ IdleRequest \in RequestRecords /\ IdleRequest.step = "idle"
  /\ \A D, F, acc, per : \A n \in Nat : Vetted(IdleRequest, D, F, n, acc, per)
  BY DEF IdleRequest, RequestRecords, Vetted, TrueAnswer, Paths

LEMMA WebInitial == WebInit => WebInv
<1> SUFFICES ASSUME WebInit PROVE WebInv
  OBVIOUS
<1>1. browser \in Browsers /\ browser.csrf = 1
  BY DEF WebInit, Browsers
<1>2. WebTypeOK
  BY <1>1, IdleRequestType DEF WebInit, WebTypeOK
<1>3. /\ csrfIds = 1 /\ forms = {1} /\ decided = {}
      /\ \A r \in Requests : request[r] = IdleRequest
  BY DEF WebInit
<1>4. \A r \in Requests : Vetted(request[r], decided, forms, csrfIds, accepted, permitted)
  BY <1>3, IdleRequestType
<1> QED BY <1>1, <1>2, <1>3, <1>4, IdleRequestType DEF WebInv

LEMMA SendKeeps ==
  ASSUME WebInv, NEW r \in Requests, SendRequest(r) PROVE WebInv'
<1>1. PICK path \in Paths, form \in forms \cup {0}, header \in WebUsers \cup {Nobody},
           user \in WebUsers \cup {Nobody} :
        request' = [request EXCEPT ![r] =
          newRequest(webEvents', path, extractBearerToken(header, browser.token), form, user)]
  BY Zenon DEF SendRequest
<1> DEFINE bearer == extractBearerToken(header, browser.token)
           q == newRequest(webEvents', path, bearer, form, user)
<1>2. /\ browser \in Browsers /\ browser.token \in WebUsers \cup {Nobody} /\ browser.csrf \in Nat
      /\ csrfIds \in Nat /\ webEvents \in Nat /\ forms \subseteq Nat
      /\ accepted \subseteq WebUsers /\ permitted \subseteq WebUsers
  BY DEF WebInv, WebTypeOK, Browsers
<1>3. form \in Nat /\ bearer \in WebUsers \cup {Nobody}
  BY <1>2 DEF extractBearerToken
<1>4. /\ UNCHANGED <<browser, forms, accepted, permitted, decided, csrfIds>>
      /\ webEvents' = webEvents + 1
  BY DEF SendRequest, WebEvent
<1>5. webEvents' \in Nat /\ webEvents' >= webEvents
  BY <1>2, <1>4
<1> HIDE DEF bearer
<1>6. /\ q \in RequestRecords /\ q.form = form /\ q.step = "auth" /\ q.id = webEvents'
      /\ q.csrf = browser.csrf /\ q.setCsrf = 0 /\ q.could = accepted /\ q.may = permitted
  <2> DEFINE n == webEvents'
  <2>1. n \in Nat /\ accepted \in SUBSET WebUsers /\ permitted \in SUBSET WebUsers
    BY <1>2, <1>5
  <2> HIDE DEF n
  <2>2. /\ q.form = form /\ q.step = "auth" /\ q.id = n /\ q.csrf = browser.csrf /\ q.setCsrf = 0
        /\ q.could = accepted /\ q.may = permitted
    BY DEF newRequest, n
  <2>3. newRequest(n, path, bearer, form, user) \in RequestRecords
    BY <1>2, <1>3, <2>1 DEF newRequest, RequestRecords
  <2> QED BY <2>2, <2>3 DEF n
<1>7. request' = [request EXCEPT ![r] = q]
  BY <1>1 DEF bearer
<1> HIDE DEF q
<1>8. \A d \in decided : d.id # q.id
  <2>1. ASSUME NEW d \in decided PROVE d.id \in 0 .. webEvents
    BY DEF WebInv, SoundDecision
  <2> QED BY <1>2, <1>4, <1>6, <2>1
<1>9. browser.csrf <= csrfIds /\ \A f \in forms : f <= csrfIds
  BY DEF WebInv
<1>10. 0 <= csrfIds /\ csrfIds' \in Nat /\ csrfIds' >= csrfIds
  BY <1>2, <1>4
<1>11. Vetted(q, decided, forms, csrfIds, accepted, permitted)
  BY <1>6, <1>8, <1>9, <1>10 DEF Vetted, TrueAnswer
<1>12. /\ browser' = browser /\ forms' = forms /\ decided' = decided /\ csrfIds' = csrfIds
       /\ accepted' = accepted /\ permitted' = permitted
  BY <1>4
<1>13. decided' \ decided = {} /\ decided \subseteq decided' /\ forms \subseteq forms'
  BY <1>12
<1> QED BY <1>2, <1>4, <1>5, <1>6, <1>7, <1>9, <1>10, <1>11, <1>12, <1>13, RequestMoves

(* An answer changes the step, the status and the cookies set alone.       *)
LEMMA ResponseFields ==
  ASSUME WebInv, NEW r \in Requests, NEW s \in Nat, NEW t \in WebUsers \cup {Nobody, Kept},
         Respond(r, s) \/ RespondToken(r, s, t)
  PROVE  \E q \in RequestRecords :
           /\ request' = [request EXCEPT ![r] = q]
           /\ q.step = "audit" /\ q.status = s /\ q.path = request[r].path /\ q.id = request[r].id
           /\ q.form = request[r].form /\ q.csrf = request[r].csrf
           /\ q.setCsrf = request[r].setCsrf /\ q.user = request[r].user
           /\ q.could = request[r].could /\ q.may = request[r].may
<1> DEFINE p == request[r]
<1>1. p \in RequestRecords /\ request \in [Requests -> RequestRecords]
  BY DEF WebInv, WebTypeOK
<1>2. CASE Respond(r, s)
  <2> DEFINE q == [p EXCEPT !.step = "audit", !.status = s]
  <2>1. request' = [request EXCEPT ![r] = q]
    BY <1>1, <1>2 DEF Respond
  <2>2. q \in RequestRecords /\ q.step = "audit" /\ q.status = s
    BY <1>1 DEF RequestRecords
  <2>3. /\ q.path = p.path /\ q.id = p.id /\ q.form = p.form /\ q.csrf = p.csrf
        /\ q.setCsrf = p.setCsrf /\ q.user = p.user /\ q.could = p.could /\ q.may = p.may
    BY <1>1 DEF RequestRecords
  <2> HIDE DEF q
  <2> QED BY <2>1, <2>2, <2>3
<1>3. CASE RespondToken(r, s, t)
  <2> DEFINE q == [p EXCEPT !.step = "audit", !.status = s, !.setToken = t]
  <2>1. request' = [request EXCEPT ![r] = q]
    BY <1>1, <1>3 DEF RespondToken
  <2>2. q \in RequestRecords /\ q.step = "audit" /\ q.status = s
    BY <1>1 DEF RequestRecords
  <2>3. /\ q.path = p.path /\ q.id = p.id /\ q.form = p.form /\ q.csrf = p.csrf
        /\ q.setCsrf = p.setCsrf /\ q.user = p.user /\ q.could = p.could /\ q.may = p.may
    BY <1>1 DEF RequestRecords
  <2> HIDE DEF q
  <2> QED BY <2>1, <2>2, <2>3
<1> QED BY <1>2, <1>3

(* An answer that decides nothing.                                         *)
LEMMA ResponseIdles ==
  ASSUME WebInv, NEW r \in Requests, NEW s \in Nat, NEW t \in WebUsers \cup {Nobody, Kept},
         Respond(r, s) \/ RespondToken(r, s, t), request[r].step \in {"auth", "handle"},
         request[r].path = "decide" => s # 200,
         UNCHANGED <<browser, forms, accepted, permitted, decided, webEvents, csrfIds>>
  PROVE  WebInv'
<1>1. PICK q \in RequestRecords :
        /\ request' = [request EXCEPT ![r] = q]
        /\ q.step = "audit" /\ q.status = s /\ q.path = request[r].path /\ q.id = request[r].id
        /\ q.form = request[r].form /\ q.csrf = request[r].csrf
        /\ q.setCsrf = request[r].setCsrf /\ q.user = request[r].user
        /\ q.could = request[r].could /\ q.may = request[r].may
  BY ResponseFields
<1>2. csrfIds \in Nat /\ Vetted(request[r], decided, forms, csrfIds, accepted, permitted)
  BY DEF WebInv, WebTypeOK
<1>3. TrueAnswer(q, decided)
  BY <1>1, <1>2 DEF Vetted, TrueAnswer
<1>4. Vetted(q, decided, forms, csrfIds, accepted, permitted)
  BY <1>1, <1>2, <1>3 DEF Vetted
<1>5. csrfIds' = csrfIds /\ csrfIds' >= csrfIds
  BY <1>2
<1> QED BY <1>1, <1>2, <1>4, <1>5, ChainMoves

LEMMA AuthKeeps ==
  ASSUME WebInv, NEW r \in Requests, AuthMiddleware(r) PROVE WebInv'
<1> DEFINE p == request[r]
<1>1. /\ p \in RequestRecords /\ Vetted(p, decided, forms, csrfIds, accepted, permitted)
      /\ csrfIds \in Nat /\ accepted \subseteq WebUsers
      /\ request \in [Requests -> RequestRecords]
  BY DEF WebInv, WebTypeOK
<1>2. /\ UNCHANGED <<browser, forms, accepted, permitted, decided, webEvents, csrfIds>>
      /\ p.step = "auth" /\ csrfIds' = csrfIds
  BY DEF AuthMiddleware
<1>3. csrfIds' \in Nat /\ csrfIds' >= csrfIds
  BY <1>1, <1>2
<1>4. CASE Respond(r, 303) \/ RespondToken(r, 303, Nobody)
  BY <1>2, <1>4, ResponseIdles
<1>5. CASE skipsAuth(p.path) /\ request' = [request EXCEPT ![r].step = "csrf"]
  <2> DEFINE q == [p EXCEPT !.step = "csrf"]
  <2>1. request' = [request EXCEPT ![r] = q]
    BY <1>1, <1>5
  <2>2. /\ q \in RequestRecords /\ q.step = "csrf" /\ q.id = p.id /\ q.form = p.form
        /\ q.path = p.path /\ q.csrf = p.csrf /\ q.setCsrf = p.setCsrf /\ q.could = p.could
        /\ q.may = p.may
    BY <1>1 DEF RequestRecords
  <2>3. q.path # "decide"
    BY <1>5, <2>2 DEF skipsAuth
  <2> HIDE DEF q, p
  <2>4. Vetted(q, decided, forms, csrfIds', accepted, permitted)
    BY <1>1, <1>2, <2>2, <2>3 DEF Vetted, TrueAnswer
  <2> QED BY <1>2, <1>3, <2>1, <2>2, <2>4, ChainMoves DEF p
<1>6. CASE p.token \in accepted /\ request' = [request EXCEPT ![r].step = "csrf", ![r].user = p.token]
  <2> DEFINE q == [p EXCEPT !.step = "csrf", !.user = p.token]
  <2>1. request' = [request EXCEPT ![r] = q]
    BY <1>1, <1>6
  <2>2. /\ q \in RequestRecords /\ q.step = "csrf" /\ q.id = p.id /\ q.form = p.form
        /\ q.path = p.path /\ q.csrf = p.csrf /\ q.setCsrf = p.setCsrf /\ q.could = p.could
        /\ q.may = p.may /\ q.user = p.token
    BY <1>1, <1>6 DEF RequestRecords
  <2> HIDE DEF q, p
  <2>3. q.user \in q.could
    BY <1>1, <1>2, <1>6, <2>2 DEF Vetted
  <2>4. Vetted(q, decided, forms, csrfIds', accepted, permitted)
    BY <1>1, <1>2, <2>2, <2>3 DEF Vetted, TrueAnswer
  <2> QED BY <1>2, <1>3, <2>1, <2>2, <2>4, ChainMoves DEF p
<1> QED BY <1>4, <1>5, <1>6 DEF AuthMiddleware

LEMMA CsrfKeeps ==
  ASSUME WebInv, NEW r \in Requests, CSRFMiddleware(r) PROVE WebInv'
<1> DEFINE p == request[r]
           made == IF p.csrf = 0 THEN csrfIds + 1 ELSE 0
           cookie == IF p.csrf = 0 THEN made ELSE p.csrf
           mismatch == p.path \in Posted \ {"login"} /\ csrfMismatch(p, cookie)
           step == IF mismatch THEN "audit" ELSE "handle"
           status == IF mismatch THEN 403 ELSE 0
           q == [p EXCEPT !.setCsrf = made, !.step = step, !.status = status]
<1>1. /\ p \in RequestRecords /\ Vetted(p, decided, forms, csrfIds, accepted, permitted)
      /\ csrfIds \in Nat /\ request \in [Requests -> RequestRecords] /\ forms \subseteq Nat
      /\ \A f \in forms : f <= csrfIds
  BY DEF WebInv, WebTypeOK
<1>2. p.csrf \in Nat /\ p.form \in Nat /\ p.csrf <= csrfIds /\ p.form \in forms \cup {0}
  BY <1>1 DEF RequestRecords, Vetted
<1>3. /\ p.csrf = 0 => made = csrfIds + 1 /\ cookie = csrfIds + 1 /\ csrfIds' = csrfIds + 1
      /\ p.csrf # 0 => made = 0 /\ cookie = p.csrf /\ csrfIds' = csrfIds
  BY DEF CSRFMiddleware
<1>4. /\ UNCHANGED <<browser, forms, accepted, permitted, decided, webEvents>> /\ p.step = "csrf"
      /\ request' = [request EXCEPT ![r].setCsrf = made, ![r].step = step, ![r].status = status]
  BY DEF CSRFMiddleware
<1>5. (step = "audit" /\ status = 403) \/ (step = "handle" /\ status = 0 /\ ~mismatch)
  OBVIOUS
<1>6. p.path = "decide" /\ ~mismatch => p.form # 0 /\ p.form = cookie
  BY DEF Posted, csrfMismatch
<1>7. csrfIds' \in Nat /\ csrfIds' >= csrfIds /\ made \in Nat /\ made <= csrfIds'
  BY <1>1, <1>3
<1>8. p.path = "decide" /\ ~mismatch => p.form # 0 /\ p.form = p.csrf
  <2>1. p.form <= csrfIds
    BY <1>1, <1>2
  <2> QED BY <1>1, <1>2, <1>3, <1>6, <2>1
<1> HIDE DEF made, cookie, mismatch, step, status
<1>9. request' = [request EXCEPT ![r] = q]
  BY <1>1, <1>4
<1>10. status \in Nat /\ step \in {"audit", "handle"}
  BY <1>5
<1>11. /\ q \in RequestRecords /\ q.step = step /\ q.status = status /\ q.setCsrf = made
       /\ q.id = p.id /\ q.form = p.form /\ q.path = p.path /\ q.csrf = p.csrf
       /\ q.could = p.could /\ q.may = p.may /\ q.user = p.user
  BY <1>1, <1>7, <1>10 DEF RequestRecords
<1> HIDE DEF q, p
<1>12. p.csrf <= csrfIds'
  BY <1>1, <1>2, <1>7
<1>13. \A d \in decided : d.id # q.id
  BY <1>1, <1>4, <1>11 DEF Vetted
<1>14. TrueAnswer(q, decided)
  BY <1>5, <1>11, <1>13 DEF TrueAnswer
<1>15. Vetted(q, decided, forms, csrfIds', accepted, permitted)
  BY <1>1, <1>4, <1>5, <1>7, <1>8, <1>11, <1>12, <1>13, <1>14 DEF Vetted
<1> QED BY <1>4, <1>7, <1>9, <1>11, <1>15, ChainMoves DEF p

LEMMA HandleKeeps ==
  ASSUME WebInv, NEW r \in Requests, Handle(r) PROVE WebInv'
<1> DEFINE p == request[r]
           decision == [id |-> p.id, by |-> p.user, csrf |-> p.csrf, form |-> p.form,
                        could |-> p.could, may |-> p.may]
<1>1. /\ p \in RequestRecords /\ Vetted(p, decided, forms, csrfIds, accepted, permitted)
      /\ csrfIds \in Nat /\ webEvents \in Nat /\ forms \subseteq Nat /\ browser \in Browsers
      /\ browser.csrf <= csrfIds /\ \A f \in forms : f <= csrfIds
  BY DEF WebInv, WebTypeOK
<1>2. /\ UNCHANGED <<browser, forms, accepted, permitted, webEvents, csrfIds>> /\ p.step = "handle"
  BY DEF Handle
<1>3. p.given \in WebUsers \cup {Nobody} /\ p.id \in Nat
  BY <1>1 DEF RequestRecords
<1>4. CASE decided' = decided
  <2>1. \E s \in Nat, t \in WebUsers \cup {Nobody, Kept} :
          /\ Respond(r, s) \/ RespondToken(r, s, t)
          /\ p.path = "decide" => s # 200
    <3>1. CASE p.path = "login"
      <4> DEFINE t == IF p.given = Nobody THEN Kept ELSE p.given
      <4>1. RespondToken(r, 303, t)
        BY <3>1 DEF Handle
      <4>2. t \in WebUsers \cup {Nobody, Kept}
        BY <1>3
      <4> QED BY <3>1, <4>1, <4>2
    <3>2. CASE p.path = "logout"
      <4>1. RespondToken(r, 303, Nobody)
        BY <3>2 DEF Handle
      <4> QED BY <3>2, <4>1
    <3>3. CASE p.path = "workloads"
      <4>1. \E s \in {200, 500} : Respond(r, s)
        BY <3>3 DEF Handle
      <4> QED BY <3>3, <4>1
    <3>4. CASE p.path = "decide"
      <4>1. \/ \E s \in {403, 400} : Respond(r, s)
            \/ decided' = decided \cup {decision}
        BY <3>4 DEF Handle
      <4>2. decision \notin decided
        <5>1. \A d \in decided : d.id # p.id
          BY <1>1, <1>2 DEF Vetted
        <5> QED BY <5>1
      <4>3. \E s \in {403, 400} : Respond(r, s)
        BY <1>4, <4>1, <4>2
      <4> QED BY <3>4, <4>3
    <3> QED BY <1>1, <3>1, <3>2, <3>3, <3>4 DEF RequestRecords, Paths
  <2> QED BY <1>2, <1>4, <2>1, ResponseIdles
<1>5. CASE decided' # decided
  <2>1. /\ p.path = "decide" /\ p.user \in permitted /\ decided' = decided \cup {decision}
        /\ \E s \in {200, 400, 500} : Respond(r, s)
    BY <1>5 DEF Handle
  <2>2. PICK s \in {200, 400, 500} : Respond(r, s)
    BY <2>1
  <2>3. PICK q \in RequestRecords :
          /\ request' = [request EXCEPT ![r] = q]
          /\ q.step = "audit" /\ q.status = s /\ q.path = p.path /\ q.id = p.id
          /\ q.form = p.form /\ q.csrf = p.csrf /\ q.setCsrf = p.setCsrf /\ q.user = p.user
          /\ q.could = p.could /\ q.may = p.may
    BY <2>2, ResponseFields
  <2>4. p.user \in p.could /\ p.user \in p.may /\ p.form \in forms /\ p.form = p.csrf
    BY <1>1, <1>2, <2>1 DEF Vetted
  <2>5. p.id <= webEvents
    BY <1>2 DEF WebInv
  <2>6. /\ decision.id = p.id /\ decision.by = p.user /\ decision.csrf = p.csrf
        /\ decision.form = p.form /\ decision.could = p.could /\ decision.may = p.may
    OBVIOUS
  <2> HIDE DEF decision
  <2>7. p.id \in 0 .. webEvents
    BY <1>1, <1>3, <2>5
  <2>8. SoundDecision(decision, forms, webEvents)
    BY <2>4, <2>6, <2>7 DEF SoundDecision
  <2>9. TrueAnswer(q, decided')
    <3>1. q.status \notin {303, 403}
      BY <2>3
    <3>2. decision \in decided' /\ decision.id = q.id /\ decision.by = q.user
      BY <2>1, <2>3, <2>6
    <3> QED BY <3>1, <3>2 DEF TrueAnswer
  <2>10. Vetted(q, decided', forms, csrfIds, accepted, permitted)
    BY <1>1, <1>2, <2>3, <2>9 DEF Vetted
  <2>11. /\ browser' = browser /\ forms' = forms /\ csrfIds' = csrfIds /\ webEvents' = webEvents
         /\ accepted' = accepted /\ permitted' = permitted
    BY <1>2
  <2>12. csrfIds' >= csrfIds /\ webEvents' >= webEvents
    BY <1>1, <2>11
  <2>13. \A d \in decided' \ decided :
           request[r].step # "idle" /\ d.id = request[r].id /\ SoundDecision(d, forms', webEvents')
    BY <1>2, <2>1, <2>6, <2>8, <2>11
  <2>14. decided \subseteq decided' /\ forms \subseteq forms'
    BY <2>1, <2>11
  <2>15. Vetted(q, decided', forms', csrfIds', accepted, permitted)
    BY <2>10, <2>11
  <2>16. /\ browser' \in Browsers /\ browser'.csrf <= csrfIds' /\ csrfIds' \in Nat
         /\ webEvents' \in Nat /\ forms' \subseteq Nat /\ \A f \in forms' : f <= csrfIds'
    BY <1>1, <2>11
  <2>17. request[r].step # "idle" /\ q.id = request[r].id
    BY <1>2, <2>3
  <2> QED BY <2>3, <2>11, <2>12, <2>13, <2>14, <2>15, <2>16, <2>17, RequestMoves
<1> QED BY <1>4, <1>5

LEMMA ResponseKeeps ==
  ASSUME WebInv, NEW r \in Requests, AuditMiddleware(r) PROVE WebInv'
<1> DEFINE p == request[r]
<1>1. /\ p \in RequestRecords /\ Vetted(p, decided, forms, csrfIds, accepted, permitted)
      /\ csrfIds \in Nat /\ webEvents \in Nat /\ forms \subseteq Nat /\ browser \in Browsers
      /\ browser.csrf <= csrfIds /\ \A f \in forms : f <= csrfIds
  BY DEF WebInv, WebTypeOK
<1>2. /\ p.csrf \in Nat /\ p.setCsrf \in Nat /\ p.csrf <= csrfIds /\ p.setCsrf <= csrfIds
      /\ p.setToken \in WebUsers \cup {Nobody, Kept}
      /\ browser.token \in WebUsers \cup {Nobody} /\ browser.csrf \in Nat
  BY <1>1 DEF RequestRecords, Vetted, Browsers
<1>3. /\ UNCHANGED <<accepted, permitted, decided, csrfIds, webEvents>>
      /\ request' = [request EXCEPT ![r] = IdleRequest] /\ p.step = "audit"
  BY DEF AuditMiddleware
<1>4. pageToken(p) \in Nat /\ pageToken(p) <= csrfIds
  BY <1>2 DEF pageToken
<1>5. \/ UNCHANGED <<browser, forms>>
      \/ /\ browser' = [token |-> IF p.setToken = Kept THEN browser.token ELSE p.setToken,
                        csrf |-> IF p.setCsrf = 0 THEN browser.csrf ELSE p.setCsrf]
         /\ forms' = IF p.status = 200 THEN forms \cup {pageToken(p)} ELSE forms
  BY DEF AuditMiddleware
<1>6. /\ browser' \in Browsers /\ browser'.csrf <= csrfIds
  <2>1. CASE UNCHANGED <<browser, forms>>
    BY <1>1, <2>1
  <2>2. CASE browser' = [token |-> IF p.setToken = Kept THEN browser.token ELSE p.setToken,
                         csrf |-> IF p.setCsrf = 0 THEN browser.csrf ELSE p.setCsrf]
    BY <1>1, <1>2, <2>2 DEF Browsers
  <2> QED BY <1>5, <2>1, <2>2
<1>7. forms' \subseteq Nat /\ forms \subseteq forms' /\ \A f \in forms' : f <= csrfIds
  BY <1>1, <1>4, <1>5
<1>8. /\ csrfIds' = csrfIds /\ webEvents' = webEvents /\ decided' = decided
      /\ accepted' = accepted /\ permitted' = permitted
  BY <1>3
<1>9. csrfIds' >= csrfIds /\ webEvents' >= webEvents /\ decided' \ decided = {}
  BY <1>1, <1>8
<1> QED BY <1>1, <1>3, <1>6, <1>7, <1>8, <1>9, IdleRequestType, RequestMoves

(* What is granted is added to what the requests in flight may rely on.    *)
LEMMA AccessKeeps == ASSUME WebInv, ChangeAccess PROVE WebInv'
<1>1. /\ accepted \subseteq WebUsers /\ permitted \subseteq WebUsers
      /\ request \in [Requests -> RequestRecords] /\ webEvents \in Nat
  BY DEF WebInv, WebTypeOK
<1>2. accepted' \subseteq WebUsers /\ permitted' \subseteq WebUsers
  <2>1. PICK u \in WebUsers :
          \/ accepted' = toggled(accepted, u) /\ permitted' = permitted
          \/ permitted' = toggled(permitted, u) /\ accepted' = accepted
    BY Zenon DEF ChangeAccess
  <2>2. ASSUME NEW S, S \subseteq WebUsers PROVE toggled(S, u) \subseteq WebUsers
    BY <2>2 DEF toggled
  <2> QED BY <1>1, <2>1, <2>2
<1>3. /\ UNCHANGED <<browser, forms, decided, csrfIds>> /\ webEvents' = webEvents + 1
  BY Zenon DEF ChangeAccess, WebEvent
<1>10. request' = [r \in Requests |-> relying(request[r], accepted', permitted')]
  BY Zenon DEF ChangeAccess
<1>4. webEvents' \in Nat /\ webEvents' >= webEvents
  BY <1>1, <1>3
<1>5. ASSUME NEW r \in Requests
      PROVE  /\ request'[r] \in RequestRecords /\ request'[r].step = request[r].step
             /\ request'[r].id = request[r].id
             /\ Vetted(request'[r], decided, forms, csrfIds, accepted', permitted')
  <2>0. request'[r] = relying(request[r], accepted', permitted')
    BY <1>10, Zenon
  <2>1. request[r] \in RequestRecords /\ Vetted(request[r], decided, forms, csrfIds, accepted, permitted)
    BY <1>1 DEF WebInv
  <2>2. CASE request[r].step = "idle"
    <3>1. request'[r] = request[r]
      BY <2>0, <2>2, Zenon DEF relying
    <3> QED BY <2>1, <2>2, <3>1 DEF Vetted
  <2>3. CASE request[r].step # "idle"
    <3> DEFINE p == request[r]
               q == [p EXCEPT !.could = p.could \cup accepted', !.may = p.may \cup permitted']
    <3>1. request'[r] = q
      BY <2>0, <2>3, Zenon DEF relying
    <3>2. p.could \subseteq WebUsers /\ p.may \subseteq WebUsers
      BY <2>1 DEF RequestRecords
    <3>3. p.could \cup accepted' \in SUBSET WebUsers /\ p.may \cup permitted' \in SUBSET WebUsers
      BY <1>2, <3>2
    <3>4. /\ q \in RequestRecords /\ q.could = p.could \cup accepted' /\ q.may = p.may \cup permitted'
          /\ q.id = p.id /\ q.step = p.step /\ q.form = p.form /\ q.path = p.path /\ q.csrf = p.csrf
          /\ q.setCsrf = p.setCsrf /\ q.user = p.user /\ q.status = p.status
      BY <2>1, <3>3 DEF RequestRecords
    <3> HIDE DEF q, p
    <3>5. TrueAnswer(p, decided) => TrueAnswer(q, decided)
      BY <3>4 DEF TrueAnswer
    <3>6. Vetted(q, decided, forms, csrfIds, accepted', permitted')
      BY <2>1, <3>4, <3>5 DEF Vetted, p
    <3> QED BY <3>1, <3>4, <3>6 DEF p
  <2> QED BY <2>2, <2>3
<1>6. WebTypeOK'
  <2>1. request' = [r \in Requests |-> request'[r]]
    BY <1>10, Zenon
  <2>2. request' \in [Requests -> RequestRecords]
    BY <1>5, <2>1, Zenon
  <2> QED BY <1>2, <1>3, <1>4, <2>2 DEF WebInv, WebTypeOK
<1>7. \A d \in decided : SoundDecision(d, forms, webEvents')
  <2>1. ASSUME NEW d \in decided PROVE SoundDecision(d, forms, webEvents')
    <3>1. SoundDecision(d, forms, webEvents)
      BY DEF WebInv
    <3>2. d.id \in 0 .. webEvents'
      BY <1>1, <1>3, <3>1 DEF SoundDecision
    <3> QED BY <3>1, <3>2 DEF SoundDecision
  <2> QED BY <2>1
<1>8. ASSUME NEW r \in Requests, request'[r].step # "idle" PROVE request'[r].id <= webEvents'
  <2>1. request[r].id <= webEvents /\ request[r].id \in Nat
    BY <1>1, <1>5, <1>8 DEF WebInv, RequestRecords
  <2> QED BY <1>1, <1>3, <1>5, <2>1
<1>9. \A r, s \in Requests :
        r # s /\ request'[r].step # "idle" /\ request'[s].step # "idle" => request'[r].id # request'[s].id
  BY <1>5 DEF WebInv
<1> QED BY <1>3, <1>5, <1>6, <1>7, <1>8, <1>9 DEF WebInv

LEMMA RestartKeeps == ASSUME WebInv, BrowserRestarts PROVE WebInv'
<1>1. browser \in Browsers /\ webEvents \in Nat /\ csrfIds \in Nat
  BY DEF WebInv, WebTypeOK
<1>2. /\ UNCHANGED <<forms, accepted, permitted, request, decided, csrfIds>>
      /\ browser' = [browser EXCEPT !.csrf = 0] /\ webEvents' = webEvents + 1
  BY DEF BrowserRestarts, WebEvent
<1>3. browser' \in Browsers /\ browser'.csrf <= csrfIds'
  BY <1>1, <1>2 DEF Browsers
<1>4. WebTypeOK'
  BY <1>1, <1>2, <1>3 DEF WebInv, WebTypeOK
<1>5. \A d \in decided : SoundDecision(d, forms, webEvents')
  <2>1. ASSUME NEW d \in decided PROVE SoundDecision(d, forms, webEvents')
    <3>1. SoundDecision(d, forms, webEvents)
      BY DEF WebInv
    <3>2. d.id \in 0 .. webEvents'
      BY <1>1, <1>2, <3>1 DEF SoundDecision
    <3> QED BY <3>1, <3>2 DEF SoundDecision
  <2> QED BY <2>1
<1>6. ASSUME NEW r \in Requests, request[r].step # "idle" PROVE request[r].id <= webEvents'
  <2>1. request[r].id <= webEvents /\ request[r].id \in Nat
    BY <1>6 DEF WebInv, WebTypeOK, RequestRecords
  <2> QED BY <1>1, <1>2, <2>1
<1> QED BY <1>2, <1>3, <1>4, <1>5, <1>6 DEF WebInv

LEMMA WebStep == WebInv /\ [WebNext]_webVars => WebInv'
<1> SUFFICES ASSUME WebInv, [WebNext]_webVars PROVE WebInv'
  OBVIOUS
<1>1. CASE UNCHANGED webVars
  BY <1>1 DEF webVars, WebInv, WebTypeOK
<1>2. ASSUME NEW r \in Requests, RequestStep(r) PROVE WebInv'
  BY <1>2, SendKeeps, AuthKeeps, CsrfKeeps, HandleKeeps, ResponseKeeps DEF RequestStep
<1> QED BY <1>1, <1>2, AccessKeeps, RestartKeeps DEF WebNext

(* Through racing requests, logins and logouts in between, changes of      *)
(* access, failed calls, lost responses and a browser that lost its csrf   *)
(* cookie, handleApprove and handleReject act for a user accepted and      *)
(* permitted since the request was sent, on a form of an earlier page that *)
(* copies the cookie sent with it, and the answer tells whether they did.  *)
THEOREM DashboardIdentity == WebSpec => []DecidedByItsUser
<1>1. WebInv => DecidedByItsUser
  <2> SUFFICES ASSUME WebInv PROVE DecidedByItsUser
    OBVIOUS
  <2>1. \A d \in decided : d.by \in d.could \cap d.may /\ d.form \in forms /\ d.form = d.csrf
    BY DEF WebInv, SoundDecision
  <2>2. \A r \in Requests : TrueAnswer(request[r], decided)
    BY DEF WebInv, Vetted
  <2> QED BY <2>1, <2>2 DEF DecidedByItsUser, TrueAnswer
<1> QED BY <1>1, WebInitial, WebStep, PTL DEF WebSpec

-----------------------------------------------------------------------------
(*                                McpTools                                 *)
(*                                                                         *)
(* The workload there is was there when a call began or is younger than    *)
(* it, a create_workload that found the name taken still finds it unless   *)
(* it was removed, and the uid of a new workload was never answered.       *)
-----------------------------------------------------------------------------

CallRecords ==
  [tool : Tools \cup {"none"}, attempt : Nat, step : {"idle", "sent", "exists", "answered"},
   answer : {"none", "created", "alreadyExisted", "deleted", "not_found", "phase", "done",
             "tool_failed", "http_status", "unreachable"},
   value : Nat, found : Nat, born : Nat, failed : BOOLEAN, gone : BOOLEAN]

McpTypeOK ==
  /\ uid \in Nat /\ lastUid \in Nat /\ terminating \in BOOLEAN
  /\ mcpCall \in [McpCallers -> CallRecords]

(* The value v names a workload that was there since k began.              *)
Names(k, v) == v = k.found \/ v > k.born

(* k: a call while the workload's uid is u and the last one given out is l.*)
RetrySafe(k, u, l) ==
  /\ k.tool = "create_workload" /\ k.answer = "tool_failed" => k.failed \/ k.gone
  /\ k.step = "exists" => k.tool = "create_workload" /\ (u # 0 \/ k.gone)
  /\ k.step \in {"sent", "exists"} => k.answer = "none"
  /\ k.answer \in {"created", "alreadyExisted"} => k.value # 0 /\ k.value <= l /\ Names(k, k.value)
  /\ k.born <= l
  /\ u # 0 => Names(k, u)

CallsSafe(calls, u, l) ==
  /\ \A c \in McpCallers : RetrySafe(calls[c], u, l)
  /\ \A c, d \in McpCallers :
       c # d /\ calls[c].answer = "created" /\ calls[d].answer = "created" =>
         calls[c].value # calls[d].value

McpInv == McpTypeOK /\ uid <= lastUid /\ CallsSafe(mcpCall, uid, lastUid)

LEMMA NoCallType ==
  /\ NoCall \in CallRecords /\ NoCall.step = "idle" /\ NoCall.answer = "none"
  /\ NoCall.found = 0 /\ NoCall.born = 0
  BY DEF NoCall, CallRecords

LEMMA McpInitial == McpInit => McpInv
<1> SUFFICES ASSUME McpInit PROVE McpInv
  OBVIOUS
<1>1. McpTypeOK /\ uid <= lastUid
  <2>1. uid = 0 /\ lastUid = 0 /\ mcpCall = [c \in McpCallers |-> NoCall]
    BY DEF McpInit
  <2>2. terminating \in BOOLEAN
    BY DEF McpInit
  <2>3. uid \in Nat /\ lastUid \in Nat /\ uid <= lastUid
    BY <2>1
  <2>4. mcpCall \in [McpCallers -> CallRecords]
    BY <2>1, NoCallType
  <2> QED BY <2>2, <2>3, <2>4 DEF McpTypeOK
<1>2. ASSUME NEW c \in McpCallers PROVE mcpCall[c] = NoCall
  BY DEF McpInit
<1>3. RetrySafe(NoCall, 0, 0)
  BY NoCallType DEF RetrySafe
<1> QED BY <1>1, <1>2, <1>3, NoCallType DEF McpInv, CallsSafe, McpInit

(* The workload there is, or the next one, named to every call.            *)
UidMoves(u, l, u2, l2) == (u2 = u /\ l2 = l) \/ (u = 0 /\ u2 = l + 1 /\ l2 = l + 1)

(* One call changes, while the workload stays or is created.               *)
LEMMA OneCall ==
  ASSUME NEW calls \in [McpCallers -> CallRecords], NEW u \in Nat, NEW l \in Nat,
         NEW u2 \in Nat, NEW l2 \in Nat, UidMoves(u, l, u2, l2), CallsSafe(calls, u, l),
         NEW c \in McpCallers, NEW k \in CallRecords, RetrySafe(k, u2, l2),
         k.answer = "created" =>
           \/ l2 = l + 1 /\ k.value = l + 1
           \/ calls[c].answer = "created" /\ calls[c].value = k.value
  PROVE  /\ [calls EXCEPT ![c] = k] \in [McpCallers -> CallRecords]
         /\ CallsSafe([calls EXCEPT ![c] = k], u2, l2)
<1> DEFINE after == [calls EXCEPT ![c] = k]
<1>1. /\ after \in [McpCallers -> CallRecords]
      /\ after[c] = k /\ \A d \in McpCallers : d # c => after[d] = calls[d]
  OBVIOUS
<1> HIDE DEF after
<1>2. ASSUME NEW d \in McpCallers PROVE RetrySafe(calls[d], u2, l2)
  <2>1. /\ calls[d].value \in Nat /\ calls[d].born \in Nat /\ calls[d].found \in Nat
        /\ RetrySafe(calls[d], u, l)
    BY DEF CallRecords, CallsSafe
  <2> QED BY <2>1 DEF RetrySafe, Names, UidMoves
<1>3. \A d \in McpCallers : RetrySafe(after[d], u2, l2)
  BY <1>1, <1>2
<1>4. ASSUME NEW d \in McpCallers, d # c, k.answer = "created", calls[d].answer = "created"
      PROVE  k.value # calls[d].value
  <2>1. calls[d].value \in Nat /\ calls[d].value <= l
    BY <1>4 DEF CallRecords, CallsSafe, RetrySafe
  <2>2. CASE k.value = l + 1
    BY <2>1, <2>2
  <2>3. CASE calls[c].answer = "created" /\ calls[c].value = k.value
    BY <1>4, <2>3 DEF CallsSafe
  <2> QED BY <1>4, <2>2, <2>3
<1>5. ASSUME NEW d \in McpCallers, NEW e \in McpCallers, d # e,
             after[d].answer = "created", after[e].answer = "created"
      PROVE  after[d].value # after[e].value
  <2>1. CASE d = c
    BY <1>1, <1>4, <1>5, <2>1
  <2>2. CASE e = c
    BY <1>1, <1>4, <1>5, <2>2
  <2>3. CASE d # c /\ e # c
    BY <1>1, <1>5, <2>3 DEF CallsSafe
  <2> QED BY <2>1, <2>2, <2>3
<1>6. CallsSafe(after, u2, l2)
  BY <1>3, <1>5 DEF CallsSafe
<1> QED BY <1>1, <1>6 DEF after

(* The workload goes, and every call under way is marked.                  *)
LEMMA AllGone ==
  ASSUME NEW calls \in [McpCallers -> CallRecords], NEW u \in Nat, NEW l \in Nat,
         CallsSafe(calls, u, l)
  PROVE  LET g == [d \in McpCallers |-> [calls[d] EXCEPT !.gone = TRUE]]
         IN  g \in [McpCallers -> CallRecords] /\ CallsSafe(g, 0, l)
<1> DEFINE g == [d \in McpCallers |-> [calls[d] EXCEPT !.gone = TRUE]]
<1>1. ASSUME NEW d \in McpCallers
      PROVE  /\ g[d] \in CallRecords /\ g[d].gone
             /\ g[d].tool = calls[d].tool /\ g[d].answer = calls[d].answer
             /\ g[d].value = calls[d].value /\ g[d].step = calls[d].step
             /\ g[d].found = calls[d].found /\ g[d].born = calls[d].born
  BY DEF CallRecords
<1>2. g \in [McpCallers -> CallRecords]
  BY <1>1
<1> HIDE DEF g
<1>3. ASSUME NEW d \in McpCallers PROVE RetrySafe(g[d], 0, l)
  BY <1>1 DEF CallsSafe, RetrySafe, Names
<1>4. CallsSafe(g, 0, l)
  BY <1>1, <1>3 DEF CallsSafe
<1> QED BY <1>2, <1>4 DEF g

(* A step that changes one call, and the workload only by creating or      *)
(* marking it.                                                             *)
LEMMA CallMoves ==
  ASSUME McpInv, NEW c \in McpCallers, NEW k \in CallRecords, mcpCall' = [mcpCall EXCEPT ![c] = k],
         UidMoves(uid, lastUid, uid', lastUid'), terminating' \in BOOLEAN,
         RetrySafe(k, uid', lastUid'),
         k.answer = "created" =>
           \/ lastUid' = lastUid + 1 /\ k.value = lastUid + 1
           \/ mcpCall[c].answer = "created" /\ mcpCall[c].value = k.value
  PROVE  McpInv'
<1>1. /\ uid \in Nat /\ lastUid \in Nat /\ uid <= lastUid
      /\ mcpCall \in [McpCallers -> CallRecords] /\ CallsSafe(mcpCall, uid, lastUid)
  BY DEF McpInv, McpTypeOK
<1>2. uid' \in Nat /\ lastUid' \in Nat /\ uid' <= lastUid'
  BY <1>1 DEF UidMoves
<1>3. mcpCall' \in [McpCallers -> CallRecords] /\ CallsSafe(mcpCall', uid', lastUid')
  BY <1>1, <1>2, OneCall
<1> QED BY <1>2, <1>3 DEF McpInv, McpTypeOK

(* A step that removes the workload, the calls being what calls says.      *)
LEMMA RemovedKeeps ==
  ASSUME McpInv, NEW calls \in [McpCallers -> CallRecords], CallsSafe(calls, uid, lastUid),
         Removed(calls)
  PROVE  McpInv'
<1>1. uid \in Nat /\ lastUid \in Nat
  BY DEF McpInv, McpTypeOK
<1>2. /\ uid' = 0 /\ lastUid' = lastUid /\ terminating' = FALSE
      /\ mcpCall' = [d \in McpCallers |-> [calls[d] EXCEPT !.gone = TRUE]]
  BY DEF Removed
<1>3. mcpCall' \in [McpCallers -> CallRecords] /\ CallsSafe(mcpCall', 0, lastUid)
  BY <1>1, <1>2, AllGone
<1>4. terminating' \in BOOLEAN
  BY <1>2
<1>5. uid' \in Nat /\ lastUid' \in Nat /\ uid' <= lastUid'
  BY <1>1, <1>2
<1>6. CallsSafe(mcpCall', uid', lastUid')
  BY <1>2, <1>3
<1> QED BY <1>3, <1>4, <1>5, <1>6 DEF McpInv, McpTypeOK

(* A call of the handler is answered by k.                                 *)
LEMMA AnswerMoves ==
  ASSUME McpInv, NEW c \in McpCallers, NEW k \in CallRecords, mcpCall' = [mcpCall EXCEPT ![c] = k],
         k.step = "answered", k.tool = mcpCall[c].tool,
         k.found = mcpCall[c].found, k.born = mcpCall[c].born,
         k.answer = "tool_failed" => k.tool # "create_workload" \/ k.failed \/ k.gone,
         k.answer = "alreadyExisted" => uid # 0 /\ k.value = uid,
         k.answer = "created" => lastUid' = lastUid + 1 /\ k.value = lastUid + 1,
         UidMoves(uid, lastUid, uid', lastUid'), terminating' \in BOOLEAN
  PROVE  McpInv'
<1> DEFINE p == mcpCall[c]
<1>1. /\ p \in CallRecords /\ RetrySafe(p, uid, lastUid) /\ uid \in Nat /\ lastUid \in Nat
      /\ uid <= lastUid
  BY DEF McpInv, McpTypeOK, CallsSafe
<1>4. p.born \in Nat /\ p.found \in Nat /\ p.born <= lastUid /\ (uid # 0 => Names(p, uid))
  BY <1>1 DEF CallRecords, RetrySafe
<1>5. uid' # 0 => Names(k, uid')
  BY <1>1, <1>4 DEF Names, UidMoves
<1>6. k.born <= lastUid'
  BY <1>1, <1>4 DEF UidMoves
<1>7. k.answer \in {"created", "alreadyExisted"} =>
        k.value # 0 /\ k.value <= lastUid' /\ Names(k, k.value)
  BY <1>1, <1>4 DEF Names, UidMoves
<1>8. RetrySafe(k, uid', lastUid')
  BY <1>5, <1>6, <1>7 DEF RetrySafe
<1> QED BY <1>8, CallMoves

(* What the handler's answer and an API error make of the call.            *)
LEMMA AnswerFields ==
  ASSUME McpInv, NEW c \in McpCallers, NEW value \in Nat, NEW answer,
         answer \in {"created", "alreadyExisted", "deleted", "not_found", "phase", "done",
                     "tool_failed"}
  PROVE  \E k \in CallRecords :
           /\ ToolAnswered(c, answer, value) = [mcpCall EXCEPT ![c] = k]
           /\ k.step = "answered" /\ k.answer = answer /\ k.value = value
           /\ k.tool = mcpCall[c].tool /\ k.found = mcpCall[c].found
           /\ k.born = mcpCall[c].born /\ k.gone = mcpCall[c].gone
<1> DEFINE k == [mcpCall[c] EXCEPT !.step = "answered", !.answer = answer, !.value = value,
                                   !.failed = FALSE]
<1>1. mcpCall[c] \in CallRecords /\ mcpCall \in [McpCallers -> CallRecords]
  BY DEF McpInv, McpTypeOK
<1>2. k \in CallRecords
  BY <1>1 DEF CallRecords
<1>3. /\ k.step = "answered" /\ k.answer = answer /\ k.value = value
      /\ k.tool = mcpCall[c].tool /\ k.found = mcpCall[c].found
      /\ k.born = mcpCall[c].born /\ k.gone = mcpCall[c].gone
  BY <1>1 DEF CallRecords
<1>4. ToolAnswered(c, answer, value) = [mcpCall EXCEPT ![c] = k]
  BY <1>1 DEF ToolAnswered
<1> QED BY <1>2, <1>3, <1>4

LEMMA ErrorFields ==
  ASSUME McpInv, NEW c \in McpCallers
  PROVE  \E k \in CallRecords :
           /\ ToolErrored(c) = [mcpCall EXCEPT ![c] = k]
           /\ k.step = "answered" /\ k.answer = "tool_failed" /\ k.failed
           /\ k.tool = mcpCall[c].tool /\ k.found = mcpCall[c].found
           /\ k.born = mcpCall[c].born
<1> DEFINE k == [mcpCall[c] EXCEPT !.step = "answered", !.answer = "tool_failed", !.value = 0,
                                   !.failed = TRUE]
<1>1. mcpCall[c] \in CallRecords /\ mcpCall \in [McpCallers -> CallRecords]
  BY DEF McpInv, McpTypeOK
<1>2. k \in CallRecords
  BY <1>1 DEF CallRecords
<1>3. /\ k.step = "answered" /\ k.answer = "tool_failed" /\ k.failed
      /\ k.tool = mcpCall[c].tool /\ k.found = mcpCall[c].found
      /\ k.born = mcpCall[c].born
  BY <1>1 DEF CallRecords
<1>4. ToolErrored(c) = [mcpCall EXCEPT ![c] = k]
  BY <1>1 DEF ToolErrored
<1> QED BY <1>2, <1>3, <1>4

LEMMA AnswerKeeps ==
  ASSUME McpInv, NEW c \in McpCallers, NEW value \in Nat, NEW answer, Answer200(c, answer, value),
         answer \in {"created", "alreadyExisted", "deleted", "not_found", "phase", "done",
                     "tool_failed"},
         answer = "tool_failed" => mcpCall[c].tool # "create_workload" \/ mcpCall[c].gone,
         answer = "alreadyExisted" => uid # 0 /\ value = uid,
         answer = "created" => lastUid' = lastUid + 1 /\ value = lastUid + 1,
         UidMoves(uid, lastUid, uid', lastUid'), terminating' \in BOOLEAN
  PROVE  McpInv'
<1>1. PICK k \in CallRecords :
        /\ ToolAnswered(c, answer, value) = [mcpCall EXCEPT ![c] = k]
        /\ k.step = "answered" /\ k.answer = answer /\ k.value = value
        /\ k.tool = mcpCall[c].tool /\ k.found = mcpCall[c].found
        /\ k.born = mcpCall[c].born /\ k.gone = mcpCall[c].gone
  BY AnswerFields
<1>2. mcpCall' = [mcpCall EXCEPT ![c] = k]
  BY <1>1 DEF Answer200
<1> QED BY <1>1, <1>2, AnswerMoves

LEMMA ErrorKeeps ==
  ASSUME McpInv, NEW c \in McpCallers, ApiError(c),
         UidMoves(uid, lastUid, uid', lastUid'), terminating' \in BOOLEAN
  PROVE  McpInv'
<1>1. PICK k \in CallRecords :
        /\ ToolErrored(c) = [mcpCall EXCEPT ![c] = k]
        /\ k.step = "answered" /\ k.answer = "tool_failed" /\ k.failed
        /\ k.tool = mcpCall[c].tool /\ k.found = mcpCall[c].found
        /\ k.born = mcpCall[c].born
  BY ErrorFields
<1>2. mcpCall' = [mcpCall EXCEPT ![c] = k]
  BY <1>1 DEF ApiError
<1> QED BY <1>1, <1>2, AnswerMoves

(* A call that is sent, sent again or over.                                *)
LEMMA ClientKeeps ==
  ASSUME McpInv, NEW c \in McpCallers,
         CallTool(c) \/ ReturnAnswer(c) \/ retryableStatus(c) \/ ConnectionLost(c)
  PROVE  McpInv'
<1> DEFINE p == mcpCall[c]
<1>1. /\ p \in CallRecords /\ RetrySafe(p, uid, lastUid)
      /\ uid \in Nat /\ lastUid \in Nat /\ uid <= lastUid /\ terminating \in BOOLEAN
  BY DEF McpInv, McpTypeOK, CallsSafe
<1>0. UNCHANGED cluster
  BY Zenon DEF CallTool, ReturnAnswer, retryableStatus, ConnectionLost
<1>2. uid' = uid /\ lastUid' = lastUid /\ terminating' = terminating
  BY <1>0 DEF cluster
<1>3. ASSUME NEW k \in CallRecords, mcpCall' = [mcpCall EXCEPT ![c] = k],
             RetrySafe(k, uid, lastUid),
             k.answer = "created" => p.answer = "created" /\ p.value = k.value
      PROVE  McpInv'
  <2>1. UidMoves(uid, lastUid, uid', lastUid')
    BY <1>2 DEF UidMoves
  <2> QED BY <1>1, <1>2, <1>3, <2>1, CallMoves
<1>4. CASE CallTool(c)
  <2>1. PICK tool \in Tools :
          mcpCall' = [mcpCall EXCEPT ![c] = [NoCall EXCEPT !.tool = tool, !.step = "sent",
                                                           !.found = uid, !.born = lastUid]]
    <3>1. \E tool \in Tools :
            mcpCall' = [mcpCall EXCEPT ![c] = [NoCall EXCEPT !.tool = tool, !.step = "sent",
                                                             !.found = uid, !.born = lastUid]]
      BY <1>4, Zenon DEF CallTool
    <3> QED BY <3>1, Zenon
  <2> DEFINE k == [NoCall EXCEPT !.tool = tool, !.step = "sent", !.found = uid, !.born = lastUid]
  <2>2. /\ k \in CallRecords /\ k.answer = "none" /\ k.step = "sent"
        /\ k.found = uid /\ k.born = lastUid
    BY <1>1, NoCallType DEF CallRecords
  <2> HIDE DEF k
  <2>3. RetrySafe(k, uid, lastUid)
    BY <1>1, <2>2 DEF RetrySafe, Names
  <2> QED BY <1>3, <2>1, <2>2, <2>3 DEF k
<1>5. CASE ReturnAnswer(c)
  <2> DEFINE k == [p EXCEPT !.step = "idle"]
  <2>1. /\ k \in CallRecords /\ mcpCall' = [mcpCall EXCEPT ![c] = k]
        /\ k.step = "idle" /\ k.tool = p.tool /\ k.answer = p.answer /\ k.value = p.value
        /\ k.failed = p.failed /\ k.gone = p.gone /\ k.found = p.found /\ k.born = p.born
    BY <1>1, <1>5 DEF ReturnAnswer, Returned, McpInv, McpTypeOK, CallRecords
  <2> HIDE DEF k
  <2>2. RetrySafe(k, uid, lastUid)
    BY <1>1, <2>1 DEF RetrySafe, Names
  <2> QED BY <1>3, <2>1, <2>2
<1>6. ASSUME NEW a \in {"http_status", "unreachable"},
             mcpCall' = [mcpCall EXCEPT ![c].answer = a, ![c].step = "idle"]
      PROVE  McpInv'
  <2> DEFINE k == [p EXCEPT !.answer = a, !.step = "idle"]
  <2>1. /\ k \in CallRecords /\ mcpCall' = [mcpCall EXCEPT ![c] = k]
        /\ k.step = "idle" /\ k.answer = a /\ k.found = p.found /\ k.born = p.born
    BY <1>1, <1>6 DEF McpInv, McpTypeOK, CallRecords
  <2> HIDE DEF k
  <2>2. RetrySafe(k, uid, lastUid)
    BY <1>1, <1>6, <2>1 DEF RetrySafe, Names
  <2> QED BY <1>3, <1>6, <2>1, <2>2
<1>7. CASE mcpCall' = [mcpCall EXCEPT ![c].attempt = @ + 1, ![c].step = "sent", ![c].answer = "none"]
  <2> DEFINE k == [p EXCEPT !.attempt = p.attempt + 1, !.step = "sent", !.answer = "none"]
  <2>1. mcpCall' = [mcpCall EXCEPT ![c] = k]
    BY <1>7 DEF McpInv, McpTypeOK
  <2>2. p.attempt + 1 \in Nat
    BY <1>1 DEF CallRecords
  <2>3. /\ k \in CallRecords /\ k.step = "sent" /\ k.answer = "none"
        /\ k.found = p.found /\ k.born = p.born
    BY <1>1, <2>2 DEF CallRecords
  <2> HIDE DEF k
  <2>4. RetrySafe(k, uid, lastUid)
    BY <1>1, <2>3 DEF RetrySafe, Names
  <2> QED BY <1>3, <2>1, <2>3, <2>4
<1>8. CASE retryableStatus(c)
  BY <1>6, <1>7, <1>8 DEF retryableStatus
<1>9. CASE ConnectionLost(c)
  BY <1>6, <1>9 DEF ConnectionLost
<1> QED BY <1>4, <1>5, <1>8, <1>9

(* What becomes of the workload other than being removed.                  *)
LEMMA ClusterKept ==
  ASSUME McpInv
  PROVE  /\ UNCHANGED cluster => UidMoves(uid, lastUid, uid', lastUid') /\ terminating' \in BOOLEAN
         /\ uid = 0 /\ Created => UidMoves(uid, lastUid, uid', lastUid') /\ terminating' \in BOOLEAN
<1>1. terminating \in BOOLEAN
  BY DEF McpInv, McpTypeOK
<1>2. ASSUME UNCHANGED cluster PROVE uid' = uid /\ lastUid' = lastUid /\ terminating' = terminating
  BY <1>2 DEF cluster
<1>3. ASSUME Created PROVE terminating' \in BOOLEAN
  BY <1>3 DEF Created
<1>4. UNCHANGED cluster => UidMoves(uid, lastUid, uid', lastUid')
  BY <1>2 DEF UidMoves
<1>5. uid = 0 /\ Created => UidMoves(uid, lastUid, uid', lastUid')
  BY DEF Created, UidMoves
<1> QED BY <1>1, <1>2, <1>3, <1>4, <1>5

LEMMA CreateKeeps ==
  ASSUME McpInv, NEW c \in McpCallers, createWorkload(c) \/ getExisting(c)
  PROVE  McpInv'
<1> DEFINE p == mcpCall[c]
<1>1. /\ p \in CallRecords /\ RetrySafe(p, uid, lastUid) /\ uid \in Nat /\ lastUid \in Nat
      /\ uid <= lastUid /\ 0 \in Nat /\ lastUid + 1 \in Nat
  BY DEF McpInv, McpTypeOK, CallsSafe
<1>3. CASE uid = 0 /\ Created /\ Answer200(c, "created", uid')
  <2>1. lastUid' = lastUid + 1 /\ uid' = lastUid + 1
    BY <1>3 DEF Created
  <2>2. Answer200(c, "created", lastUid + 1)
    BY <1>3, <2>1
  <2> QED BY <1>1, <1>3, <2>1, <2>2, ClusterKept, AnswerKeeps
<1>4. CASE /\ uid # 0 /\ UNCHANGED cluster
           /\ p.tool = "create_workload" /\ p.step = "sent"
           /\ mcpCall' = [mcpCall EXCEPT ![c].step = "exists", ![c].gone = FALSE]
  <2> DEFINE k == [p EXCEPT !.step = "exists", !.gone = FALSE]
  <2>1. /\ k \in CallRecords /\ mcpCall' = [mcpCall EXCEPT ![c] = k] /\ k.step = "exists"
        /\ k.tool = p.tool /\ k.answer = p.answer /\ k.value = p.value
        /\ k.found = p.found /\ k.born = p.born
    BY <1>1, <1>4 DEF McpInv, McpTypeOK, CallRecords
  <2> HIDE DEF k
  <2>2. uid' = uid /\ lastUid' = lastUid /\ p.answer = "none"
    BY <1>1, <1>4 DEF cluster, RetrySafe
  <2>3. RetrySafe(k, uid', lastUid')
    BY <1>1, <1>4, <2>1, <2>2 DEF RetrySafe, Names
  <2> QED BY <1>4, <2>1, <2>2, <2>3, ClusterKept, CallMoves
<1>5. CASE ApiError(c) /\ (UNCHANGED cluster \/ (uid = 0 /\ Created))
  BY <1>5, ClusterKept, ErrorKeeps
<1>6. CASE createWorkload(c)
  BY <1>3, <1>4, <1>5, <1>6 DEF createWorkload, Dispatched
<1>7. CASE getExisting(c)
  <2>1. UNCHANGED cluster /\ p.step = "exists"
    BY <1>7 DEF getExisting
  <2>2. uid = 0 => p.gone
    BY <1>1, <2>1 DEF RetrySafe
  <2>3. CASE uid = 0 /\ Answer200(c, "tool_failed", 0)
    BY <1>1, <2>1, <2>2, <2>3, ClusterKept, AnswerKeeps
  <2>4. CASE uid # 0 /\ Answer200(c, "alreadyExisted", uid)
    BY <1>1, <2>1, <2>4, ClusterKept, AnswerKeeps
  <2> QED BY <1>5, <1>7, <2>1, <2>3, <2>4 DEF getExisting
<1> QED BY <1>6, <1>7

LEMMA DeleteKeeps ==
  ASSUME McpInv, NEW c \in McpCallers, deleteWorkload(c)
  PROVE  McpInv'
<1> DEFINE p == mcpCall[c]
<1>1. /\ p \in CallRecords /\ RetrySafe(p, uid, lastUid) /\ uid \in Nat /\ lastUid \in Nat
      /\ uid <= lastUid /\ 0 \in Nat /\ p.tool = "delete_workload"
      /\ mcpCall \in [McpCallers -> CallRecords] /\ CallsSafe(mcpCall, uid, lastUid)
  BY DEF McpInv, McpTypeOK, CallsSafe, deleteWorkload, Dispatched
<1>2. ASSUME NEW k \in CallRecords, k.step = "answered", k.tool = p.tool,
             k.answer \in {"deleted", "tool_failed"}, k.found = p.found, k.born = p.born,
             DeleteAsked([mcpCall EXCEPT ![c] = k])
      PROVE  McpInv'
  <2> DEFINE calls == [mcpCall EXCEPT ![c] = k]
  <2>1. CASE uid' = uid /\ terminating' = TRUE /\ lastUid' = lastUid /\ mcpCall' = calls
    <3>1. UidMoves(uid, lastUid, uid', lastUid')
      BY <2>1 DEF UidMoves
    <3>2. terminating' \in BOOLEAN
      BY <2>1
    <3> QED BY <1>1, <1>2, <2>1, <3>1, <3>2, AnswerMoves
  <2>2. CASE Removed(calls)
    <3>1. RetrySafe(k, uid, lastUid)
      BY <1>1, <1>2 DEF RetrySafe, Names
    <3>2. UidMoves(uid, lastUid, uid, lastUid)
      BY DEF UidMoves
    <3>3. calls \in [McpCallers -> CallRecords] /\ CallsSafe(calls, uid, lastUid)
      BY <1>1, <1>2, <3>1, <3>2, OneCall
    <3> HIDE DEF calls
    <3> QED BY <2>2, <3>3, RemovedKeeps
  <2> QED BY <1>2, <2>1, <2>2 DEF DeleteAsked
<1>3. CASE Answer200(c, "not_found", 0) /\ UNCHANGED cluster
  BY <1>1, <1>3, ClusterKept, AnswerKeeps
<1>4. CASE DeleteAsked(ToolAnswered(c, "deleted", 0))
  <2>1. PICK k \in CallRecords :
          /\ ToolAnswered(c, "deleted", 0) = [mcpCall EXCEPT ![c] = k]
          /\ k.step = "answered" /\ k.answer = "deleted"
          /\ k.tool = p.tool /\ k.found = p.found /\ k.born = p.born
    BY <1>1, AnswerFields
  <2> QED BY <1>2, <1>4, <2>1
<1>5. CASE ApiError(c) /\ UNCHANGED cluster
  BY <1>5, ClusterKept, ErrorKeeps
<1>6. CASE DeleteAsked(ToolErrored(c))
  <2>1. PICK k \in CallRecords :
          /\ ToolErrored(c) = [mcpCall EXCEPT ![c] = k]
          /\ k.step = "answered" /\ k.answer = "tool_failed"
          /\ k.tool = p.tool /\ k.found = p.found /\ k.born = p.born
    BY ErrorFields
  <2> QED BY <1>2, <1>6, <2>1
<1> QED BY <1>3, <1>4, <1>5, <1>6 DEF deleteWorkload

LEMMA OtherToolKeeps ==
  ASSUME McpInv, NEW c \in McpCallers,
         getWorkloadStatus(c) \/ unknownTool(c) \/ executeAction(c)
  PROVE  McpInv'
<1>1. UNCHANGED cluster /\ mcpCall[c].tool # "create_workload"
  BY DEF getWorkloadStatus, unknownTool, executeAction, Dispatched
<1>2. uid \in Nat /\ 0 \in Nat
  BY DEF McpInv, McpTypeOK
<1>3. ASSUME NEW a \in {"tool_failed", "phase", "done"}, NEW v \in Nat, Answer200(c, a, v)
      PROVE  McpInv'
  BY <1>1, <1>3, ClusterKept, AnswerKeeps
<1>4. CASE ApiError(c)
  BY <1>1, <1>4, ClusterKept, ErrorKeeps
<1>5. CASE getWorkloadStatus(c)
  <2>1. Answer200(c, "tool_failed", uid) \/ Answer200(c, "phase", uid) \/ ApiError(c)
    BY <1>5 DEF getWorkloadStatus
  <2> QED BY <1>2, <1>3, <1>4, <2>1
<1>6. CASE unknownTool(c)
  BY <1>2, <1>3, <1>6 DEF unknownTool
<1>7. CASE executeAction(c)
  BY <1>2, <1>3, <1>7 DEF executeAction
<1> QED BY <1>5, <1>6, <1>7

LEMMA McpStep == McpInv /\ [McpNext]_mcpVars => McpInv'
<1> SUFFICES ASSUME McpInv, [McpNext]_mcpVars PROVE McpInv'
  OBVIOUS
<1>1. CASE UNCHANGED mcpVars
  BY <1>1 DEF mcpVars, McpInv, McpTypeOK, CallsSafe
<1>2. ASSUME NEW c \in McpCallers, McpCallerStep(c) PROVE McpInv'
  BY <1>2, ClientKeeps, CreateKeeps, DeleteKeeps, OtherToolKeeps DEF McpCallerStep
<1>3. CASE RemoveWorkload
  <2>1. mcpCall \in [McpCallers -> CallRecords] /\ CallsSafe(mcpCall, uid, lastUid)
    BY DEF McpInv, McpTypeOK
  <2> QED BY <1>3, <2>1, RemovedKeeps DEF RemoveWorkload
<1> QED BY <1>1, <1>2, <1>3 DEF McpNext

(* However many callers race, however often CallTool repeats a request the *)
(* server already served and whichever API calls fail: createWorkload      *)
(* fails only when the API did or the workload in its way was removed, and *)
(* what it names was there during the call, created for one caller only.   *)
THEOREM CreateRetrySafe == McpSpec => []CreateIsRetrySafe
<1>1. ASSUME McpInv PROVE CreateIsRetrySafe
  <2>1. ASSUME NEW c \in McpCallers
        PROVE  /\ RetrySafe(mcpCall[c], uid, lastUid)
               /\ \A d \in McpCallers \ {c} :
                    mcpCall[c].answer = "created" /\ mcpCall[d].answer = "created" =>
                      mcpCall[c].value # mcpCall[d].value
    BY <1>1 DEF McpInv, CallsSafe
  <2> QED BY <2>1 DEF RetrySafe, Names, CreateIsRetrySafe
<1> QED BY <1>1, McpInitial, McpStep, PTL DEF McpSpec

-----------------------------------------------------------------------------
(*                              SandboxStatus                              *)
(*                                                                         *)
(* EnforcedWasSeen is inductive: a True is written for a list in which     *)
(* every pod was sandboxed, or kept for the execution that already had it. *)
-----------------------------------------------------------------------------

StatusSpec == StatusInit /\ [][StatusNext]_statusVars

StatusTypeOK ==
  /\ execution \in Nat /\ denial \in BOOLEAN
  /\ enforced \in [status : {"none", "True", "False", "Unknown"}, uid : Nat]

StatusInv == StatusTypeOK /\ EnforcedWasSeen

(* What a stored observation of execution u says.                          *)
LEMMA ObservationSound ==
  ASSUME StatusInv, NEW u \in Nat, NEW denied \in BOOLEAN, NEW was, NEW written \in BOOLEAN,
         observeSandboxStatus(u, denied, was, written)
  PROVE  /\ enforced' \in [status : {"none", "True", "False", "Unknown"}, uid : Nat]
         /\ ~written => enforced' = enforced /\ sight' = sight
         /\ written => enforced'.uid = u
         /\ written /\ enforced'.status = "True" =>
              sight' = "all" \/ (sight' = was /\ enforced.status = "True" /\ enforced.uid = u)
<1> DEFINE listed == {podCache[p] : p \in SandboxPods} \ {"absent"}
<1>1. PICK failed \in BOOLEAN :
        /\ enforced' = IF written
                         THEN [status |-> sandboxCondition(denied, failed, listed, enforced.uid = u),
                               uid |-> u]
                         ELSE enforced
        /\ sight' = IF written /\ ~denied /\ ~failed /\ listed # {}
                      THEN (IF listed = {"gvisor"} THEN "all" ELSE "some")
                      ELSE (IF written THEN was ELSE sight)
  BY DEF observeSandboxStatus
<1> HIDE DEF listed
<1> DEFINE s == sandboxCondition(denied, failed, listed, enforced.uid = u)
<1>2. /\ s \in {"True", "False", "Unknown"}
      /\ s = "True" => /\ ~denied /\ ~failed
                       /\ \/ listed = {} /\ enforced.status = "True" /\ enforced.uid = u
                          \/ listed # {} /\ listed = {"gvisor"}
  BY DEF sandboxCondition
<1> HIDE DEF s
<1>3. CASE written
  <2>1. enforced' = [status |-> s, uid |-> u]
    BY <1>1, <1>3 DEF s
  <2>2. enforced'.status = s /\ enforced'.uid = u
    BY <2>1
  <2>3. s = "True" => sight' = "all" \/ (sight' = was /\ enforced.status = "True" /\ enforced.uid = u)
    BY <1>1, <1>2, <1>3
  <2> QED BY <1>2, <1>3, <2>1, <2>2, <2>3
<1>4. CASE ~written
  BY <1>1, <1>4 DEF StatusInv, StatusTypeOK
<1> QED BY <1>3, <1>4

LEMMA StatusStep == StatusInv /\ [StatusNext]_statusVars => StatusInv'
<1> SUFFICES ASSUME StatusInv, [StatusNext]_statusVars PROVE StatusInv'
  OBVIOUS
<1>1. /\ execution \in Nat /\ enforced.uid \in Nat /\ enforced.uid + 1 \in Nat
      /\ enforced.uid # enforced.uid + 1 /\ denial \in BOOLEAN
      /\ enforced \in [status : {"none", "True", "False", "Unknown"}, uid : Nat]
  BY DEF StatusInv, StatusTypeOK
<1>2. denial' \in BOOLEAN
  <2>1. denial' = denial \/ denial' = TRUE \/ denial' = FALSE
    BY DEF StatusNext, ObserveExecution, StartExecution, ExecuteDenied,
           LoseReference, PodDenied, PodChanges, SyncPods, statusVars
  <2> QED BY <1>1, <2>1
<1>3. CASE UNCHANGED <<execution, enforced, sight>>
  BY <1>2, <1>1, <1>3 DEF StatusInv, StatusTypeOK, EnforcedWasSeen
<1>4. CASE ObserveExecution
  <2>1. PICK written \in BOOLEAN : observeSandboxStatus(execution, denial, sight, written)
    BY <1>4 DEF ObserveExecution
  <2>2. execution' = execution
    BY <1>4 DEF ObserveExecution
  <2> QED BY <1>2, <1>1, <2>1, <2>2, ObservationSound DEF StatusInv, StatusTypeOK, EnforcedWasSeen
<1>5. CASE StartExecution
  <2>1. PICK written \in BOOLEAN :
          /\ observeSandboxStatus(enforced.uid + 1, FALSE, "none", written)
          /\ execution' = IF written THEN enforced.uid + 1 ELSE 0
    BY <1>5 DEF StartExecution
  <2>2. /\ enforced' \in [status : {"none", "True", "False", "Unknown"}, uid : Nat]
        /\ written /\ enforced'.status = "True" => sight' = "all"
    BY <1>1, <2>1, ObservationSound
  <2> QED BY <1>2, <1>1, <2>1, <2>2 DEF StatusInv, StatusTypeOK, EnforcedWasSeen
<1>6. CASE ExecuteDenied
  BY <1>2, <1>1, <1>6 DEF ExecuteDenied, StatusInv, StatusTypeOK, EnforcedWasSeen
<1>7. CASE LoseReference
  BY <1>2, <1>1, <1>7 DEF LoseReference, StatusInv, StatusTypeOK, EnforcedWasSeen
<1> QED BY <1>3, <1>4, <1>5, <1>6, <1>7
        DEF StatusNext, PodDenied, PodChanges, SyncPods, statusVars

(* Whatever pods come and go, lists fail, denials arrive, updates are      *)
(* refused and references are lost, observeSandboxStatus leaves            *)
(* SandboxEnforced=True on an execution only if the last list of its own   *)
(* pods that showed any showed them all sandboxed.                         *)
THEOREM EnforcedSeen == StatusSpec => []EnforcedWasSeen
<1>1. StatusInit => StatusInv
  <2>1. StatusInit => denial \in BOOLEAN
    BY DEF StatusInit
  <2>2. StatusInit => /\ execution \in Nat /\ EnforcedWasSeen
                      /\ enforced \in [status : {"none", "True", "False", "Unknown"}, uid : Nat]
    BY DEF StatusInit, EnforcedWasSeen
  <2> QED BY <2>1, <2>2 DEF StatusInv, StatusTypeOK
<1>2. StatusInv => EnforcedWasSeen
  BY DEF StatusInv
<1> QED BY <1>1, <1>2, StatusStep, PTL DEF StatusSpec

-----------------------------------------------------------------------------
(*                              NetworkProbe                               *)
(*                                                                         *)
(* Each step of the probe rests on the ones before it (LateInv): the test  *)
(* client dials a server that had been running, so that a dial that failed *)
(* without the policy was dropped, or met a server that died, and stays    *)
(* dead.  The options and the scratch namespace are followed apart         *)
(* (OptionInv).                                                            *)
-----------------------------------------------------------------------------

ProbeSpec == ProbeInit /\ [][ProbeNext]_probeVars

ExitCodes == {"none", "running", ExitSuccess, ExitDialFailed, ExitDNSFailed, "1"}
StepNames ==
  {"namespace", "server", "service", "running", "endpoints", "control", "controlExit", "policy",
   "test", "testExit", "verify"}

Servers == [up : BOOLEAN, phase : {"none", "Pending", "Running", "Failed"}]

ProbeRecords ==
  [at : StepNames \cup {"detect", "cleanup", "report", "exit"}, active : BOOLEAN,
   override : BOOLEAN, keep : BOOLEAN, namespace : {"none", "there", "deleted"},
   verdict : {"none", "Enforcing", "NotEnforcing", "Inconclusive"}, seen : Servers \cup {"none"},
   err : BOOLEAN, exit : {"none", "configured", "success", "failure"}]

ProbeTypeOK ==
  /\ probe \in ProbeRecords
  /\ server \in Servers
  /\ clients \in [{"control", "test"} -> ExitCodes]
  /\ policy \in {"absent", "created", "programmed"} /\ refused \in BOOLEAN /\ dropped \in BOOLEAN

(* The server was reached once, and the test dial failed or met a death.   *)
Seen(p, cl, fell) ==
  /\ cl["control"] = ExitSuccess
  /\ fell \/ p.seen = [up |-> FALSE, phase |-> "Running"]

Untested == {"detect", "namespace", "server", "service", "running", "endpoints", "control",
             "controlExit", "policy", "test"}
Serving == {"endpoints", "control", "controlExit", "policy", "test", "testExit", "verify"}
Controlled == {"policy", "test", "testExit", "verify"}

LateInv ==
  /\ probe.at \in Untested => clients["test"] = "none"
  /\ probe.at \in Serving => server.phase \in {"Running", "Failed"}
  /\ probe.at \in Controlled => clients["control"] = ExitSuccess
  /\ probe.at \in Serving /\ clients["test"] = ExitDialFailed => refused \/ dropped \/ ~server.up

VerdictInv ==
  /\ probe.verdict = "Enforcing" =>
       probe.at \in {"cleanup", "report", "exit"} /\ Seen(probe, clients, refused \/ dropped)
  /\ probe.exit = "success" => probe.verdict = "Enforcing" /\ probe.at = "exit"

ProbeInv == ProbeTypeOK /\ LateInv /\ VerdictInv

(* RunActiveProbe's order.                                                 *)
LEMMA StepOrder ==
  /\ afterStep("server") = "service" /\ afterStep("service") = "running"
  /\ afterStep("running") = "endpoints" /\ afterStep("endpoints") = "control"
  /\ afterStep("control") = "controlExit" /\ afterStep("controlExit") = "policy"
  /\ afterStep("policy") = "test" /\ afterStep("test") = "testExit"
  /\ afterStep("testExit") = "verify"
<1>1. Len(ProbeSteps) = 11
  BY DEF ProbeSteps
<1>2. /\ ProbeSteps[1] = "namespace" /\ ProbeSteps[2] = "server" /\ ProbeSteps[3] = "service"
      /\ ProbeSteps[4] = "running" /\ ProbeSteps[5] = "endpoints" /\ ProbeSteps[6] = "control"
      /\ ProbeSteps[7] = "controlExit" /\ ProbeSteps[8] = "policy" /\ ProbeSteps[9] = "test"
      /\ ProbeSteps[10] = "testExit" /\ ProbeSteps[11] = "verify"
  BY DEF ProbeSteps
<1>3. ASSUME NEW i \in 1 .. 11, NEW j \in 1 .. 11, ProbeSteps[i] = ProbeSteps[j] PROVE i = j
  BY <1>2, <1>3
<1>4. ASSUME NEW n \in 1 .. 10 PROVE afterStep(ProbeSteps[n]) = ProbeSteps[n + 1]
  <2> DEFINE m == CHOOSE i \in 1 .. Len(ProbeSteps) : ProbeSteps[i] = ProbeSteps[n]
  <2>1. m \in 1 .. 11 /\ ProbeSteps[m] = ProbeSteps[n]
    BY <1>1
  <2>2. m = n
    BY <1>3, <2>1
  <2> QED BY <2>2 DEF afterStep
<1> QED BY <1>2, <1>4

LEMMA ProceedFields ==
  ASSUME probe \in ProbeRecords, Proceed,
         probe.at \in StepNames \ {"namespace", "verify"}
  PROVE  /\ probe' \in ProbeRecords
         /\ probe'.at = afterStep(probe.at) /\ afterStep(probe.at) \in StepNames
         /\ probe'.verdict = probe.verdict /\ probe'.seen = probe.seen /\ probe'.exit = probe.exit
         /\ probe'.override = probe.override /\ probe'.namespace = probe.namespace
         /\ probe'.err = probe.err
<1>1. afterStep(probe.at) \in StepNames
  BY StepOrder DEF StepNames
<1>2. probe' = [probe EXCEPT !.at = afterStep(probe.at)]
  BY DEF Proceed
<1> QED BY <1>1, <1>2 DEF ProbeRecords

LEMMA VerdictFields ==
  ASSUME ProbeTypeOK, NEW v \in {"Enforcing", "NotEnforcing", "Inconclusive"}, returnVerdict(v)
  PROVE  /\ probe' \in ProbeRecords
         /\ probe'.at \in {"cleanup", "report"}
         /\ probe'.verdict = v /\ probe'.seen = server /\ probe'.exit = probe.exit
         /\ probe'.override = probe.override /\ probe'.namespace = probe.namespace
         /\ probe'.keep = probe.keep
         /\ probe'.at = "report" => ~(probe.namespace = "there" /\ ~probe.keep)
<1>1. PICK a \in {"cleanup", "report"} :
        /\ probe' = [probe EXCEPT !.verdict = v, !.seen = server, !.at = a]
        /\ a = "report" => ~(probe.namespace = "there" /\ ~probe.keep)
  BY DEF returnVerdict
<1>2. probe \in ProbeRecords /\ server \in Servers
  BY DEF ProbeTypeOK
<1> QED BY <1>1, <1>2 DEF ProbeRecords

(* An inconclusive or other verdict that is no pass.                       *)
LEMMA NoPassKeeps ==
  ASSUME ProbeInv, NEW v \in {"NotEnforcing", "Inconclusive"}, returnVerdict(v),
         probe.at \in StepNames, UNCHANGED <<server, clients, policy, refused, dropped>>
  PROVE  ProbeInv'
<1>1. ProbeTypeOK /\ LateInv /\ VerdictInv
  BY DEF ProbeInv
<1>2. /\ probe' \in ProbeRecords /\ probe'.at \in {"cleanup", "report"}
      /\ probe'.verdict = v /\ probe'.exit = probe.exit
  BY <1>1, VerdictFields
<1>3. probe.exit # "success"
  BY <1>1 DEF VerdictInv, StepNames
<1>4. ProbeTypeOK'
  BY <1>1, <1>2 DEF ProbeTypeOK
<1>5. LateInv'
  BY <1>2 DEF LateInv, Untested, Serving, Controlled
<1>6. VerdictInv'
  BY <1>2, <1>3 DEF VerdictInv
<1> QED BY <1>4, <1>5, <1>6 DEF ProbeInv

(* The steps before the probe, and after its verdict.                      *)
LEMMA CommandKeeps ==
  ASSUME ProbeInv, DetectCNI \/ DetectFails \/ CreateNamespace \/ CleanUp \/ ReportProbe
  PROVE  ProbeInv'
<1>1. ProbeTypeOK /\ LateInv /\ VerdictInv /\ probe \in ProbeRecords
  BY DEF ProbeInv, ProbeTypeOK
<1>2. UNCHANGED <<server, clients, policy, refused, dropped>>
  BY DEF DetectCNI, DetectFails, CreateNamespace, CleanUp, ReportProbe
<1>3. ASSUME probe' \in ProbeRecords, probe'.seen = probe.seen, probe'.verdict = probe.verdict,
             \/ probe'.at \in {"report", "exit"}
             \/ probe.at \in {"detect", "namespace"} /\ probe'.at \in {"namespace", "server"},
             probe'.verdict = "Enforcing" => probe.at \in {"cleanup", "report"},
             probe'.exit = "success" => probe'.verdict = "Enforcing" /\ probe'.at = "exit"
      PROVE  ProbeInv'
  <2>1. ProbeTypeOK'
    BY <1>1, <1>2, <1>3 DEF ProbeTypeOK
  <2>2. LateInv'
    BY <1>1, <1>2, <1>3 DEF LateInv, Untested, Serving, Controlled
  <2>3. probe'.verdict = "Enforcing" => probe'.at \in {"report", "exit"}
    BY <1>3
  <2>4. VerdictInv'
    BY <1>1, <1>2, <1>3, <2>3 DEF VerdictInv, Seen
  <2> QED BY <2>1, <2>2, <2>4 DEF ProbeInv
<1>4. CASE DetectCNI
  <2>1. probe.verdict # "Enforcing" /\ probe.exit # "success" /\ probe.at = "detect"
    BY <1>1, <1>4 DEF VerdictInv, DetectCNI
  <2>2. CASE probe' = [probe EXCEPT !.at = "exit", !.exit = "configured"]
    <3>1. /\ probe' \in ProbeRecords /\ probe'.seen = probe.seen
          /\ probe'.verdict = probe.verdict /\ probe'.at = "exit" /\ probe'.exit = "configured"
      BY <1>1, <2>2 DEF ProbeRecords
    <3> QED BY <1>3, <2>1, <3>1
  <2>3. CASE probe' = [probe EXCEPT !.at = "report", !.verdict = "Inconclusive"]
    <3>1. /\ probe' \in ProbeRecords /\ probe'.verdict = "Inconclusive" /\ probe'.at = "report"
          /\ probe'.exit = probe.exit
      BY <1>1, <2>3 DEF ProbeRecords
    <3>2. ProbeTypeOK'
      BY <1>1, <1>2, <3>1 DEF ProbeTypeOK
    <3>3. LateInv' /\ VerdictInv'
      BY <2>1, <3>1 DEF LateInv, VerdictInv, Untested, Serving, Controlled
    <3> QED BY <3>2, <3>3 DEF ProbeInv
  <2>4. CASE probe' = [probe EXCEPT !.at = "namespace"]
    <3>1. /\ probe' \in ProbeRecords /\ probe'.seen = probe.seen /\ probe'.verdict = probe.verdict
          /\ probe'.at = "namespace" /\ probe'.exit = probe.exit
      BY <1>1, <2>4 DEF ProbeRecords, StepNames
    <3> QED BY <1>3, <2>1, <3>1
  <2> QED BY <1>4, <2>2, <2>3, <2>4 DEF DetectCNI
<1>5. CASE DetectFails
  <2>1. probe.verdict # "Enforcing" /\ probe.exit # "success" /\ probe.at = "detect"
    BY <1>1, <1>5 DEF VerdictInv, DetectFails
  <2>2. probe' = [probe EXCEPT !.at = "exit", !.err = TRUE, !.exit = "failure"]
    BY <1>5 DEF DetectFails
  <2>3. /\ probe' \in ProbeRecords /\ probe'.seen = probe.seen
        /\ probe'.verdict = probe.verdict /\ probe'.at = "exit" /\ probe'.exit = "failure"
    BY <1>1, <2>2 DEF ProbeRecords
  <2> QED BY <1>3, <2>1, <2>3
<1>6. CASE CreateNamespace
  <2>1. probe.verdict # "Enforcing" /\ probe.exit # "success" /\ probe.at = "namespace"
    BY <1>1, <1>6 DEF VerdictInv, CreateNamespace
  <2>2. probe' = [probe EXCEPT !.at = "server", !.namespace = "there"]
    BY <1>6 DEF CreateNamespace
  <2>3. /\ probe' \in ProbeRecords /\ probe'.seen = probe.seen /\ probe'.verdict = probe.verdict
        /\ probe'.at = "server" /\ probe'.exit = probe.exit
    BY <1>1, <2>2 DEF ProbeRecords, StepNames
  <2> QED BY <1>3, <2>1, <2>3
<1>7. CASE CleanUp
  <2>1. probe.at = "cleanup" /\ probe.exit # "success"
    BY <1>1, <1>7 DEF VerdictInv, CleanUp
  <2>2. \/ probe' = [probe EXCEPT !.at = "report", !.namespace = "deleted"]
        \/ probe' = [probe EXCEPT !.at = "report", !.err = TRUE]
    BY <1>7 DEF CleanUp
  <2>3. /\ probe' \in ProbeRecords /\ probe'.seen = probe.seen /\ probe'.verdict = probe.verdict
        /\ probe'.at = "report" /\ probe'.exit = probe.exit
    BY <1>1, <2>2 DEF ProbeRecords
  <2> QED BY <1>3, <2>1, <2>3
<1>8. CASE ReportProbe
  <2> DEFINE e == IF ~probe.err /\ probe.verdict = "Enforcing" THEN "success" ELSE "failure"
  <2>1. probe.at = "report" /\ probe' = [probe EXCEPT !.at = "exit", !.exit = e]
    BY <1>8 DEF ReportProbe
  <2>2. e \in {"success", "failure"} /\ (e = "success" => probe.verdict = "Enforcing")
    OBVIOUS
  <2> HIDE DEF e
  <2>3. /\ probe' \in ProbeRecords /\ probe'.seen = probe.seen /\ probe'.verdict = probe.verdict
        /\ probe'.at = "exit" /\ probe'.exit = e
    BY <1>1, <2>1, <2>2 DEF ProbeRecords
  <2> QED BY <1>3, <2>1, <2>2, <2>3
<1> QED BY <1>4, <1>5, <1>6, <1>7, <1>8

(* A step of RunActiveProbe that goes on.                                  *)
LEMMA ProceedKeeps ==
  ASSUME ProbeInv, Proceed, probe.at \in StepNames \ {"namespace", "verify"},
         server' \in Servers, clients' \in [{"control", "test"} -> ExitCodes],
         policy' \in {"absent", "created", "programmed"}, refused' = refused, dropped' = dropped,
         probe.at = "running" => server'.phase = "Running",
         probe.at = "controlExit" => clients'["control"] = ExitSuccess,
         probe.at # "control" => clients'["control"] = clients["control"],
         probe.at # "test" => clients'["test"] = clients["test"],
         probe.at = "test" => clients'["test"] = "running",
         probe.at # "server" => server' = server
  PROVE  ProbeInv'
<1>1. ProbeTypeOK /\ LateInv /\ VerdictInv /\ probe \in ProbeRecords /\ refused \in BOOLEAN
      /\ dropped \in BOOLEAN
  BY DEF ProbeInv, ProbeTypeOK
<1>2. /\ probe' \in ProbeRecords
      /\ probe'.at = afterStep(probe.at) /\ afterStep(probe.at) \in StepNames
      /\ probe'.verdict = probe.verdict /\ probe'.seen = probe.seen /\ probe'.exit = probe.exit
  BY <1>1, ProceedFields
<1>3. ProbeTypeOK'
  BY <1>1, <1>2 DEF ProbeTypeOK
<1>4. /\ probe.at = "server" => probe'.at = "service"
      /\ probe.at = "service" => probe'.at = "running"
      /\ probe.at = "running" => probe'.at = "endpoints"
      /\ probe.at = "endpoints" => probe'.at = "control"
      /\ probe.at = "control" => probe'.at = "controlExit"
      /\ probe.at = "controlExit" => probe'.at = "policy"
      /\ probe.at = "policy" => probe'.at = "test"
      /\ probe.at = "test" => probe'.at = "testExit"
      /\ probe.at = "testExit" => probe'.at = "verify"
  BY <1>2, StepOrder
<1>5. LateInv'
  <2>1. probe'.at \in Untested => clients'["test"] = "none"
    BY <1>1, <1>4 DEF LateInv, Untested, StepNames
  <2>2. probe'.at \in Serving => server'.phase \in {"Running", "Failed"}
    BY <1>1, <1>4 DEF LateInv, Serving, StepNames
  <2>3. probe'.at \in Controlled => clients'["control"] = ExitSuccess
    BY <1>1, <1>4 DEF LateInv, Controlled, StepNames
  <2>4. probe'.at \in Serving /\ clients'["test"] = ExitDialFailed =>
          refused' \/ dropped' \/ ~server'.up
    BY <1>1, <1>4, <2>1 DEF LateInv, Serving, Untested, StepNames, ExitDialFailed
  <2> QED BY <2>1, <2>2, <2>3, <2>4 DEF LateInv
<1>6. VerdictInv'
  BY <1>1, <1>2 DEF VerdictInv, StepNames
<1> QED BY <1>3, <1>5, <1>6 DEF ProbeInv

LEMMA ProbeStepKeeps ==
  ASSUME ProbeInv,
         \/ CreateServer \/ CreateService \/ waitForPodRunning \/ waitForServiceEndpoints
         \/ ControlExits \/ CreatePolicy \/ TestExits \/ \E c \in {"control", "test"} : CreateClient(c)
  PROVE  ProbeInv'
<1>1. /\ ProbeTypeOK /\ server \in Servers /\ clients \in [{"control", "test"} -> ExitCodes]
      /\ policy \in {"absent", "created", "programmed"}
  BY DEF ProbeInv, ProbeTypeOK
<1>2. CASE CreateServer
  <2>1. probe.at = "server" /\ Proceed /\ UNCHANGED <<clients, policy, refused, dropped>>
    BY <1>2 DEF CreateServer
  <2>2. server' \in Servers
    BY <1>2 DEF CreateServer, Servers
  <2> QED BY <1>1, <2>1, <2>2, ProceedKeeps DEF StepNames
<1>3. CASE CreateService
  <2>1. probe.at = "service" /\ Proceed /\ UNCHANGED <<server, clients, policy, refused, dropped>>
    BY <1>3 DEF CreateService
  <2> QED BY <1>1, <2>1, ProceedKeeps DEF StepNames
<1>4. CASE waitForPodRunning
  <2>1. probe.at = "running" /\ UNCHANGED <<server, clients, policy, refused, dropped>>
    BY <1>4 DEF waitForPodRunning
  <2>2. CASE server.phase = "Running" /\ Proceed
    BY <1>1, <2>1, <2>2, ProceedKeeps DEF StepNames
  <2>3. CASE returnVerdict("Inconclusive")
    BY <2>1, <2>3, NoPassKeeps DEF StepNames
  <2> QED BY <1>4, <2>2, <2>3 DEF waitForPodRunning
<1>5. CASE waitForServiceEndpoints
  <2>1. probe.at = "endpoints" /\ Proceed /\ UNCHANGED <<server, clients, policy, refused, dropped>>
    BY <1>5 DEF waitForServiceEndpoints
  <2> QED BY <1>1, <2>1, ProceedKeeps DEF StepNames
<1>6. CASE ControlExits
  <2>1. probe.at = "controlExit" /\ UNCHANGED <<server, clients, policy, refused, dropped>>
    BY <1>6 DEF ControlExits
  <2>2. CASE clients["control"] = ExitSuccess /\ Proceed
    BY <1>1, <2>1, <2>2, ProceedKeeps DEF StepNames
  <2>3. CASE returnVerdict("Inconclusive")
    BY <2>1, <2>3, NoPassKeeps DEF StepNames
  <2> QED BY <1>6, <2>2, <2>3 DEF ControlExits
<1>7. CASE CreatePolicy
  <2>1. probe.at = "policy" /\ Proceed /\ policy' = "created" /\ UNCHANGED <<server, clients, refused, dropped>>
    BY <1>7 DEF CreatePolicy
  <2> QED BY <1>1, <2>1, ProceedKeeps DEF StepNames
<1>8. CASE TestExits
  <2>1. probe.at = "testExit" /\ Proceed /\ UNCHANGED <<server, clients, policy, refused, dropped>>
    BY <1>8 DEF TestExits
  <2> QED BY <1>1, <2>1, ProceedKeeps DEF StepNames
<1>9. ASSUME NEW c \in {"control", "test"}, CreateClient(c) PROVE ProbeInv'
  <2>1. /\ probe.at = c /\ Proceed /\ clients' = [clients EXCEPT ![c] = "running"]
        /\ UNCHANGED <<server, policy, refused, dropped>>
    BY <1>9 DEF CreateClient
  <2>2. /\ clients' \in [{"control", "test"} -> ExitCodes]
        /\ c # "control" => clients'["control"] = clients["control"]
        /\ c # "test" => clients'["test"] = clients["test"]
        /\ clients'[c] = "running"
    BY <1>1, <2>1 DEF ExitCodes
  <2> QED BY <1>1, <2>1, <2>2, ProceedKeeps DEF StepNames
<1> QED BY <1>2, <1>3, <1>4, <1>5, <1>6, <1>7, <1>8, <1>9

(* The verdict.                                                            *)
LEMMA VerdictKeeps == ASSUME ProbeInv, VerifyServer \/ inconclusive PROVE ProbeInv'
<1>1. ProbeTypeOK /\ LateInv /\ VerdictInv /\ server \in Servers /\ probe \in ProbeRecords
  BY DEF ProbeInv, ProbeTypeOK
<1>2. UNCHANGED <<server, clients, policy, refused, dropped>>
  BY DEF VerifyServer, inconclusive
<1>3. CASE inconclusive
  <2>1. ASSUME NEW i \in 1 .. Len(ProbeSteps) PROVE ProbeSteps[i] \in StepNames
    BY DEF ProbeSteps, StepNames
  <2>2. probe.at \in StepNames /\ returnVerdict("Inconclusive")
    BY <1>3, <2>1 DEF inconclusive
  <2> QED BY <1>2, <2>2, NoPassKeeps
<1>4. CASE VerifyServer
  <2>1. probe.at = "verify" /\ probe.at \in StepNames
    BY <1>4 DEF VerifyServer, StepNames
  <2>2. PICK v \in {"Enforcing", "NotEnforcing", "Inconclusive"} :
          /\ returnVerdict(v)
          /\ v = "Enforcing" => server.phase = "Running" /\ clients["test"] = ExitDialFailed
    BY <1>4 DEF VerifyServer, classifyProbeResult
  <2>3. CASE v # "Enforcing"
    BY <1>2, <2>1, <2>2, <2>3, NoPassKeeps
  <2>4. CASE v = "Enforcing"
    <3>1. /\ probe' \in ProbeRecords /\ probe'.at \in {"cleanup", "report"}
          /\ probe'.verdict = "Enforcing" /\ probe'.seen = server /\ probe'.exit = probe.exit
      BY <1>1, <2>2, <2>4, VerdictFields
    <3>2. clients["control"] = ExitSuccess
      BY <1>1, <2>1 DEF LateInv, Controlled
    <3>3. refused \/ dropped \/ ~server.up
      BY <1>1, <2>1, <2>2, <2>4 DEF LateInv, Serving
    <3>4. ~server.up => server = [up |-> FALSE, phase |-> "Running"]
      BY <1>1, <2>2, <2>4 DEF Servers
    <3>5. ProbeTypeOK'
      BY <1>1, <1>2, <3>1 DEF ProbeTypeOK
    <3>6. LateInv'
      BY <3>1 DEF LateInv, Untested, Serving, Controlled
    <3>7. probe.exit # "success"
      BY <1>1, <2>1 DEF VerdictInv
    <3>8. VerdictInv'
      BY <1>2, <3>1, <3>2, <3>3, <3>4, <3>7 DEF VerdictInv, Seen
    <3> QED BY <3>5, <3>6, <3>8 DEF ProbeInv
  <2> QED BY <2>3, <2>4
<1> QED BY <1>3, <1>4

(* The server, the CNI and the clients.                                    *)
LEMMA ClusterKeeps ==
  ASSUME ProbeInv,
         \/ ServerStarts \/ ServerDies \/ KubeletReports \/ PolicyProgrammed
         \/ \E c \in {"control", "test"} : ClientDials(c) \/ ClientFails(c)
  PROVE  ProbeInv'
<1>1. /\ ProbeTypeOK /\ LateInv /\ VerdictInv /\ server \in Servers /\ refused \in BOOLEAN
      /\ dropped \in BOOLEAN
      /\ clients \in [{"control", "test"} -> ExitCodes] /\ server.up \in BOOLEAN
  BY DEF ProbeInv, ProbeTypeOK, Servers
<1>2. probe' = probe
  BY DEF ServerStarts, ServerDies, KubeletReports, PolicyProgrammed, ClientDials, ClientFails
<1>3. CASE ServerStarts \/ ServerDies \/ KubeletReports \/ PolicyProgrammed
  <2>1. UNCHANGED <<clients, refused, dropped>> /\ policy' \in {"absent", "created", "programmed"}
    BY <1>1, <1>3 DEF ServerStarts, ServerDies, KubeletReports, PolicyProgrammed, ProbeTypeOK
  <2>2. /\ server' \in Servers
        /\ server.phase \in {"Running", "Failed"} =>
             server'.phase \in {"Running", "Failed"} /\ (server'.up => server.up)
    <3>1. CASE ServerStarts
      BY <1>1, <3>1 DEF ServerStarts, Servers
    <3>2. CASE ServerDies
      BY <1>1, <3>2 DEF ServerDies, Servers
    <3>3. CASE KubeletReports
      BY <1>1, <3>3 DEF KubeletReports, Servers
    <3>4. CASE PolicyProgrammed
      BY <1>1, <3>4 DEF PolicyProgrammed
    <3> QED BY <1>3, <3>1, <3>2, <3>3, <3>4
  <2>3. ProbeTypeOK'
    BY <1>1, <1>2, <2>1, <2>2 DEF ProbeTypeOK
  <2>4. LateInv'
    BY <1>1, <1>2, <2>1, <2>2 DEF LateInv
  <2>5. VerdictInv'
    BY <1>1, <1>2, <2>1 DEF VerdictInv, Seen
  <2> QED BY <2>3, <2>4, <2>5 DEF ProbeInv
<1>4. ASSUME NEW c \in {"control", "test"}, ClientDials(c) \/ ClientFails(c) PROVE ProbeInv'
  <2>1. UNCHANGED <<server, policy>> /\ clients[c] = "running"
    BY <1>4 DEF ClientDials, ClientFails
  <2>2. PICK code \in {ExitSuccess, ExitDialFailed, ExitDNSFailed, "1"} :
          /\ clients' = [clients EXCEPT ![c] = code]
          /\ refused' \in BOOLEAN /\ dropped' \in BOOLEAN
          /\ (refused => refused') /\ (dropped => dropped')
          /\ c = "test" /\ code = ExitDialFailed => refused' \/ dropped' \/ ~server.up
    <3>1. CASE ClientDials(c)
      <4> DEFINE code == IF server.up /\ ~(policy = "programmed") THEN ExitSuccess ELSE ExitDialFailed
      <4>1. /\ clients' = [clients EXCEPT ![c] = code]
            /\ refused' = (refused \/ (c = "test" /\ policy = "programmed"))
        BY <3>1 DEF ClientDials
      <4>2. code = ExitDialFailed => ~server.up \/ policy = "programmed"
        BY DEF ExitSuccess, ExitDialFailed
      <4>3. refused' \in BOOLEAN /\ dropped' = dropped
        BY <3>1, <4>1 DEF ClientDials
      <4> QED BY <1>1, <4>1, <4>2, <4>3
    <3>2. CASE ClientFails(c)
      <4>1. PICK code \in {ExitDNSFailed, ExitDialFailed, "1"} :
              /\ clients' = [clients EXCEPT ![c] = code]
              /\ dropped' = (dropped \/ (c = "test" /\ code = ExitDialFailed))
        BY <3>2 DEF ClientFails
      <4>2. dropped' \in BOOLEAN /\ (dropped => dropped')
        BY <4>1
      <4>3. refused' = refused
        BY <3>2 DEF ClientFails
      <4> QED BY <1>1, <4>1, <4>2, <4>3
    <3> QED BY <1>4, <3>1, <3>2
  <2>3. /\ clients' \in [{"control", "test"} -> ExitCodes] /\ clients'[c] = code
        /\ \A d \in {"control", "test"} : d # c => clients'[d] = clients[d]
    BY <1>1, <2>2 DEF ExitCodes
  <2>4. clients["control"] = ExitSuccess => clients'["control"] = ExitSuccess
    BY <2>1, <2>3 DEF ExitSuccess
  <2>5. clients["test"] = "none" => clients'["test"] = "none"
    BY <2>1, <2>3
  <2>6. ProbeTypeOK'
    BY <1>1, <1>2, <2>1, <2>2, <2>3 DEF ProbeTypeOK
  <2>7. LateInv'
    BY <1>1, <1>2, <2>1, <2>2, <2>3, <2>4, <2>5 DEF LateInv
  <2>8. VerdictInv'
    BY <1>1, <1>2, <2>2, <2>4 DEF VerdictInv, Seen
  <2> QED BY <2>6, <2>7, <2>8 DEF ProbeInv
<1> QED BY <1>3, <1>4

LEMMA ProbeInitial == ProbeInit => ProbeInv
<1> SUFFICES ASSUME ProbeInit PROVE ProbeInv
  OBVIOUS
<1>1. probe \in ProbeRecords /\ probe.at = "detect" /\ probe.verdict = "none" /\ probe.exit = "none"
  BY DEF ProbeInit, ProbeRecords
<1>2. refused \in BOOLEAN /\ dropped \in BOOLEAN
  BY DEF ProbeInit
<1>3. ProbeTypeOK
  BY <1>1, <1>2 DEF ProbeInit, ProbeTypeOK, Servers, ExitCodes
<1>4. LateInv /\ VerdictInv
  BY <1>1 DEF ProbeInit, LateInv, VerdictInv, Serving, Controlled
<1> QED BY <1>3, <1>4 DEF ProbeInv

LEMMA ProbeStep == ProbeInv /\ [ProbeNext]_probeVars => ProbeInv'
<1> SUFFICES ASSUME ProbeInv, [ProbeNext]_probeVars PROVE ProbeInv'
  OBVIOUS
<1>1. CASE UNCHANGED probeVars
  BY <1>1 DEF probeVars, ProbeInv, ProbeTypeOK, LateInv, VerdictInv, Seen
<1>2. CASE ProbeNext
  BY <1>2, CommandKeeps, ProbeStepKeeps, VerdictKeeps, ClusterKeeps DEF ProbeNext
<1> QED BY <1>1, <1>2

(* What the options allowed, and what became of the scratch namespace.     *)
Allowed(p, kind) == kind = "KnownNonEnforcing" => p.override

Tidy(p) == p.at = "cleanup" \/ p.err \/ p.keep \/ p.namespace = "deleted"

OptionInv ==
  /\ probe.at \in StepNames => Allowed(probe, DetectCNIEnforcement)
  /\ probe.at \in StepNames \ {"namespace"} => probe.namespace = "there"
  /\ probe.at \in {"test", "testExit", "verify"} => policy # "absent"
  /\ probe.verdict = "Enforcing" =>
       Allowed(probe, DetectCNIEnforcement) /\ Tidy(probe) /\ policy # "absent"
  /\ probe.exit = "success" => ~probe.err

(* A step that leaves the command, or moves it on among its steps.         *)
LEMMA OptionProceeds ==
  ASSUME ProbeInv, OptionInv, Proceed, cni' = cni, probe.at \in StepNames \ {"namespace", "verify"},
         policy' = policy \/ policy' = "created", probe.at = "policy" => policy' = "created"
  PROVE  OptionInv'
<1>1. probe \in ProbeRecords /\ VerdictInv
  BY DEF ProbeInv, ProbeTypeOK
<1>2. /\ probe'.at = afterStep(probe.at) /\ afterStep(probe.at) \in StepNames
      /\ probe'.verdict = probe.verdict /\ probe'.exit = probe.exit
      /\ probe'.override = probe.override /\ probe'.namespace = probe.namespace
      /\ probe'.err = probe.err
  BY <1>1, ProceedFields
<1>3. DetectCNIEnforcement' = DetectCNIEnforcement
  BY DEF DetectCNIEnforcement
<1>4. probe.verdict # "Enforcing" /\ probe.exit # "success"
  BY <1>1 DEF VerdictInv, StepNames
<1>5. probe'.at \in {"test", "testExit", "verify"} => policy' # "absent"
  BY <1>2, StepOrder DEF OptionInv, StepNames
<1> QED BY <1>2, <1>3, <1>4, <1>5 DEF OptionInv, Allowed, StepNames

LEMMA OptionVerdict ==
  ASSUME ProbeInv, OptionInv, NEW v \in {"Enforcing", "NotEnforcing", "Inconclusive"},
         returnVerdict(v), probe.at \in StepNames, v = "Enforcing" => probe.at = "verify",
         UNCHANGED <<cni, policy>>
  PROVE  OptionInv'
<1>1. ProbeTypeOK /\ VerdictInv
  BY DEF ProbeInv
<1>2. /\ probe'.at \in {"cleanup", "report"} /\ probe'.verdict = v /\ probe'.exit = probe.exit
      /\ probe'.override = probe.override /\ probe'.namespace = probe.namespace
      /\ probe'.keep = probe.keep
      /\ probe'.at = "report" => ~(probe.namespace = "there" /\ ~probe.keep)
  BY <1>1, VerdictFields
<1>3. DetectCNIEnforcement' = DetectCNIEnforcement /\ policy' = policy
  BY DEF DetectCNIEnforcement
<1>4. probe.exit # "success"
  BY <1>1 DEF VerdictInv, StepNames
<1>5. v = "Enforcing" => Tidy(probe')
  BY <1>2 DEF OptionInv, Tidy, StepNames
<1> QED BY <1>2, <1>3, <1>4, <1>5 DEF OptionInv, Allowed, StepNames

LEMMA OptionCommand ==
  ASSUME ProbeInv, OptionInv, DetectCNI \/ DetectFails \/ CreateNamespace \/ CleanUp \/ ReportProbe
  PROVE  OptionInv'
<1>1. probe \in ProbeRecords /\ VerdictInv
  BY DEF ProbeInv, ProbeTypeOK
<1>2. UNCHANGED <<cni, policy>>
  BY DEF DetectCNI, DetectFails, CreateNamespace, CleanUp, ReportProbe
<1>3. DetectCNIEnforcement' = DetectCNIEnforcement /\ policy' = policy
  BY <1>2 DEF DetectCNIEnforcement
<1>4. CASE DetectCNI
  <2>1. probe.verdict # "Enforcing" /\ probe.exit # "success" /\ probe.at = "detect"
    BY <1>1, <1>4 DEF VerdictInv, DetectCNI
  <2>2. /\ probe'.verdict # "Enforcing" /\ probe'.exit # "success"
        /\ probe'.at \in {"exit", "report", "namespace"} /\ probe'.override = probe.override
        /\ probe'.at = "namespace" => Allowed(probe, DetectCNIEnforcement)
    BY <1>1, <1>4, <2>1 DEF DetectCNI, ProbeRecords, Allowed
  <2> QED BY <1>3, <2>2 DEF OptionInv, Allowed, StepNames
<1>5. CASE DetectFails
  <2>1. probe.verdict # "Enforcing" /\ probe.at = "detect"
    BY <1>1, <1>5 DEF VerdictInv, DetectFails
  <2>2. probe'.verdict # "Enforcing" /\ probe'.exit # "success" /\ probe'.at = "exit"
    BY <1>1, <1>5, <2>1 DEF DetectFails, ProbeRecords
  <2> QED BY <2>2 DEF OptionInv, StepNames
<1>6. CASE CreateNamespace
  <2>1. probe.verdict # "Enforcing" /\ probe.exit # "success" /\ probe.at = "namespace"
    BY <1>1, <1>6 DEF VerdictInv, CreateNamespace
  <2>2. /\ probe'.verdict # "Enforcing" /\ probe'.exit # "success"
        /\ probe'.at = "server" /\ probe'.override = probe.override /\ probe'.namespace = "there"
    BY <1>1, <1>6, <2>1 DEF CreateNamespace, ProbeRecords
  <2> QED BY <1>3, <2>1, <2>2 DEF OptionInv, Allowed, StepNames
<1>7. CASE CleanUp
  <2>1. probe.at = "cleanup" /\ probe.exit # "success"
    BY <1>1, <1>7 DEF VerdictInv, CleanUp
  <2>2. /\ probe'.verdict = probe.verdict /\ probe'.exit = probe.exit
        /\ probe'.at = "report" /\ probe'.override = probe.override
        /\ probe'.namespace = "deleted" \/ probe'.err
    BY <1>1, <1>7 DEF CleanUp, ProbeRecords
  <2> QED BY <1>3, <2>1, <2>2 DEF OptionInv, Allowed, Tidy, StepNames
<1>8. CASE ReportProbe
  <2>1. /\ probe'.verdict = probe.verdict /\ probe'.at = "exit"
        /\ probe'.override = probe.override /\ probe'.namespace = probe.namespace
        /\ probe'.keep = probe.keep /\ probe'.err = probe.err
        /\ probe'.exit = "success" => ~probe.err
    BY <1>1, <1>8 DEF ReportProbe, ProbeRecords
  <2>2. probe.at = "report"
    BY <1>8 DEF ReportProbe
  <2> QED BY <1>3, <2>1, <2>2 DEF OptionInv, Allowed, Tidy, StepNames
<1> QED BY <1>4, <1>5, <1>6, <1>7, <1>8

LEMMA OptionStep == ProbeInv /\ OptionInv /\ [ProbeNext]_probeVars => OptionInv'
<1> SUFFICES ASSUME ProbeInv, OptionInv, [ProbeNext]_probeVars PROVE OptionInv'
  OBVIOUS
<1>1. CASE UNCHANGED <<cni, probe>> /\ (policy' = policy \/ policy' = "programmed")
  <2>1. DetectCNIEnforcement' = DetectCNIEnforcement
    BY <1>1 DEF DetectCNIEnforcement
  <2> QED BY <1>1, <2>1 DEF OptionInv
<1>2. CASE \/ UNCHANGED probeVars \/ ServerStarts \/ ServerDies \/ KubeletReports \/ PolicyProgrammed
           \/ \E c \in {"control", "test"} : ClientDials(c) \/ ClientFails(c)
  BY <1>1, <1>2 DEF probeVars, ServerStarts, ServerDies, KubeletReports, PolicyProgrammed,
     ClientDials, ClientFails
<1>3. CASE \/ CreateServer \/ CreateService \/ waitForServiceEndpoints \/ CreatePolicy \/ TestExits
           \/ \E c \in {"control", "test"} : CreateClient(c)
  <2>1. /\ Proceed /\ cni' = cni /\ probe.at \in StepNames \ {"namespace", "verify"}
        /\ policy' = policy \/ policy' = "created"
        /\ probe.at = "policy" => policy' = "created"
    BY <1>3 DEF CreateServer, CreateService, waitForServiceEndpoints, CreatePolicy, TestExits,
       CreateClient, StepNames
  <2> QED BY <2>1, OptionProceeds
<1>4. CASE waitForPodRunning \/ ControlExits
  <2>1. /\ UNCHANGED <<cni, policy>> /\ probe.at \in {"running", "controlExit"}
        /\ Proceed \/ returnVerdict("Inconclusive")
    BY <1>4 DEF waitForPodRunning, ControlExits
  <2>2. cni' = cni /\ policy' = policy
    BY <2>1
  <2>3. CASE Proceed
    BY <2>1, <2>2, <2>3, OptionProceeds DEF StepNames
  <2>4. CASE returnVerdict("Inconclusive")
    BY <2>1, <2>4, OptionVerdict DEF StepNames
  <2> QED BY <2>1, <2>3, <2>4
<1>5. CASE inconclusive
  <2>1. ASSUME NEW i \in 1 .. Len(ProbeSteps) PROVE ProbeSteps[i] \in StepNames
    BY DEF ProbeSteps, StepNames
  <2>2. probe.at \in StepNames /\ returnVerdict("Inconclusive") /\ UNCHANGED <<cni, policy>>
    BY <1>5, <2>1 DEF inconclusive
  <2> QED BY <2>2, OptionVerdict
<1>6. CASE VerifyServer
  <2>1. probe.at = "verify" /\ probe.at \in StepNames /\ UNCHANGED <<cni, policy>>
    BY <1>6 DEF VerifyServer, StepNames
  <2>2. PICK v \in {"Enforcing", "NotEnforcing", "Inconclusive"} : returnVerdict(v)
    BY <1>6 DEF VerifyServer, classifyProbeResult
  <2> QED BY <2>1, <2>2, OptionVerdict
<1>7. CASE DetectCNI \/ DetectFails \/ CreateNamespace \/ CleanUp \/ ReportProbe
  BY <1>7, OptionCommand
<1> QED BY <1>2, <1>3, <1>4, <1>5, <1>6, <1>7 DEF ProbeNext

(* However pods start, die and are evicted, connections are lost, the      *)
(* policy is programmed and calls fail, RunActiveProbe reports success     *)
(* only after a control client reached the server and the test client's    *)
(* dial failed under the policy, or met a server whose death the API did   *)
(* not show; never for a CNI known not to enforce without the override,    *)
(* and never with the scratch namespace left by accident.                  *)
THEOREM EnforcingSeen == ProbeSpec => []EnforcingWasSeen
<1>1. ProbeInit => OptionInv
  <2> SUFFICES ASSUME ProbeInit PROVE OptionInv
    OBVIOUS
  <2>1. probe.at = "detect" /\ probe.verdict = "none" /\ probe.exit = "none"
    BY DEF ProbeInit
  <2> QED BY <2>1 DEF OptionInv, StepNames
<1>2. ProbeInv /\ OptionInv => EnforcingWasSeen
  BY DEF ProbeInv, VerdictInv, Seen, OptionInv, Allowed, Tidy, EnforcingWasSeen
<1> QED BY <1>1, <1>2, ProbeInitial, ProbeStep, OptionStep, PTL DEF ProbeSpec

-----------------------------------------------------------------------------
(*                                Snapshot                                 *)
(*                                                                         *)
(* Kind and birth tell the objects of one list apart although the cluster  *)
(* changes between the lists, so that the projection, which keeps both,    *)
(* merges no two of them.                                                  *)

SnapObjects ==
  [kind : DOMAIN Shapes, born : Nat, shape : UNION {Shapes[k] : k \in DOMAIN Shapes}]

(* The objects of a list at a time.                                        *)
ListAt(S, t) ==
  /\ S \subseteq SnapObjects /\ IsFiniteSet(S)
  /\ \A o \in S : o.born <= t
  /\ \A o, p \in S : o.kind = p.kind /\ o.born = p.born => o = p

Docs == {NoDoc} \cup {document(r, l, t) : r \in SnapRuns, l \in SUBSET SnapObjects, t \in Nat}

Runs == [step : {"idle", "listing", "captured", "written", "done", "failed"},
         lists : Seq(SUBSET SnapObjects), doc : Docs, synced : BOOLEAN]

HonestDoc(doc) ==
  /\ doc.sourceObjects = doc.projectedObjects + doc.omitted.unprojectedPods
  /\ \A v \in doc.view : v.born <= doc.at
  /\ \A o \in doc.listed : o.kind = "jobs" /\ "Failed" \in o.shape =>
       \A v \in doc.view : v.kind = "jobs" /\ v.born = o.born => ~v.shown.succeeded

RunOK(x, t) ==
  /\ x \in Runs /\ Len(x.lists) <= 5
  /\ \A i \in DOMAIN x.lists : ListAt(x.lists[i], t) /\ \A o \in x.lists[i] : o.kind = Kinds[i]
  /\ x.step = "written" => x.synced
  /\ x.doc # NoDoc => HonestDoc(x.doc)

SnapInv ==
  /\ snapTime \in Nat /\ ListAt(nsObjects, snapTime)
  /\ snapRun \in [SnapRuns -> Runs] /\ \A r \in SnapRuns : RunOK(snapRun[r], snapTime)
  /\ artifact \in Docs /\ unsettled \subseteq Docs

(* The behaviours of the runs and the cluster.                             *)
SnapSpec == SnapInit /\ [][SnapNext]_snapVars

(* Every document is whole.                                                *)
LEMMA DocsAreWhole ==
  ASSUME NEW d \in Docs
  PROVE  d.whole = TRUE
  BY DEF Docs, NoDoc, document

(* Time passes over a list.                                                *)
LEMMA ListLater ==
  ASSUME NEW S, NEW t \in Nat, ListAt(S, t)
  PROVE  ListAt(S, t + 1)
<1>1. ASSUME NEW o \in S PROVE o.born <= t + 1
  <2>1. o.born \in Nat /\ o.born <= t
    BY DEF ListAt, SnapObjects
  <2> QED BY <2>1
<1> QED BY <1>1 DEF ListAt

LEMMA RunLater ==
  ASSUME NEW x, NEW t \in Nat, RunOK(x, t)
  PROVE  RunOK(x, t + 1)
  BY ListLater DEF RunOK

(* Part of a list is one.                                                  *)
LEMMA SubList ==
  ASSUME NEW S, NEW T \in SUBSET S, NEW t, ListAt(S, t)
  PROVE  ListAt(T, t)
  BY FS_Subset DEF ListAt

(* A run that has failed, or has not started.                              *)
LEMMA EmptyRunOK ==
  ASSUME NEW t, NEW s \in {"idle", "failed"}
  PROVE  RunOK([IdleRun EXCEPT !.step = s], t) /\ RunOK(IdleRun, t)
<1> DEFINE x == [IdleRun EXCEPT !.step = s]
<1>1. NoDoc \in Docs
  BY DEF Docs
<1>2. <<>> \in Seq(SUBSET SnapObjects) /\ Len(<<>>) = 0 /\ DOMAIN <<>> = {}
  OBVIOUS
<1>3. /\ IdleRun \in Runs /\ IdleRun.step = "idle" /\ IdleRun.lists = <<>>
      /\ IdleRun.doc = NoDoc
  BY <1>1, <1>2 DEF IdleRun, Runs
<1>4. x \in Runs /\ x.step = s /\ x.lists = <<>> /\ x.doc = NoDoc
  BY <1>3 DEF Runs
<1> HIDE DEF x
<1>5. RunOK(x, t) /\ RunOK(IdleRun, t)
  BY <1>2, <1>3, <1>4 DEF RunOK
<1> QED BY <1>5 DEF x

(* No two kinds are listed as one.                                         *)
LEMMA KindsDiffer ==
  /\ Len(Kinds) = 5
  /\ \A i, j \in 1 .. 5 : Kinds[i] = Kinds[j] => i = j
  BY DEF Kinds

(* The projection counts each listed object but the pods.                  *)
LEMMA ProjectionCounts ==
  ASSUME NEW L, NEW t, ListAt(L, t)
  PROVE  /\ Cardinality(buildNamespaceView(L, t)) \in Nat
         /\ Cardinality(OfKind(L, "pods")) \in Nat
         /\ Cardinality(L) =
              Cardinality(buildNamespaceView(L, t)) + Cardinality(OfKind(L, "pods"))
<1> DEFINE N == {x \in L : x.kind # "pods"}
           P == OfKind(L, "pods")
           V == buildNamespaceView(L, t)
           f == [o \in N |-> [kind |-> o.kind, born |-> o.born, age |-> ageDays(o.born, t),
                              shown |-> translate(o)]]
<1>1. IsFiniteSet(N) /\ IsFiniteSet(P)
  BY FS_Subset DEF ListAt, OfKind
<1>2. V = {f[o] : o \in N}
  BY DEF buildNamespaceView
<1>3. ASSUME NEW o \in N PROVE f[o].kind = o.kind /\ f[o].born = o.born
  OBVIOUS
<1> HIDE DEF V
<1>4. f \in [N -> V]
  BY <1>2
<1>5. DOMAIN f = N
  OBVIOUS
<1> HIDE DEF f
<1>6. \A a, b \in DOMAIN f : f[a] = f[b] => a = b
  BY <1>3, <1>5 DEF ListAt
<1>7. f \in Injection(N, V)
  BY <1>4, <1>6 DEF Injection, IsInjective
<1>8. f \in Surjection(N, V)
  BY <1>2, <1>4 DEF Surjection
<1>9. IsFiniteSet(V) /\ Cardinality(V) = Cardinality(N)
  BY <1>1, <1>7, <1>8, FS_Surjection
<1>10. L = N \cup P /\ N \cap P = {}
  BY DEF OfKind
<1>11. Cardinality(N \cup P) = Cardinality(N) + Cardinality(P) - Cardinality(N \cap P)
  BY <1>1, FS_Union
<1>12. Cardinality(N) \in Nat /\ Cardinality(P) \in Nat
  BY <1>1, FS_CardinalityType
<1>13. Cardinality(N \cap P) = 0
  BY <1>10, FS_EmptySet
<1> HIDE DEF N, P
<1>14. Cardinality(L) = Cardinality(N) + Cardinality(P)
  BY <1>10, <1>11, <1>12, <1>13
<1> QED BY <1>9, <1>12, <1>14 DEF V, P

(* What five lists, each of its own kind, hold together.                   *)
LEMMA ListsTogether ==
  ASSUME NEW x, NEW t, RunOK(x, t), Len(x.lists) = 5
  PROVE  ListAt(UNION {x.lists[i] : i \in DOMAIN x.lists}, t)
<1> DEFINE l(i) == x.lists[i]
           L == UNION {x.lists[i] : i \in DOMAIN x.lists}
<1>1. x.lists \in Seq(SUBSET SnapObjects)
  BY DEF RunOK, Runs
<1>2. DOMAIN x.lists = 1 .. 5
  BY <1>1
<1>3. /\ ListAt(l(1), t) /\ ListAt(l(2), t) /\ ListAt(l(3), t) /\ ListAt(l(4), t)
      /\ ListAt(l(5), t)
  BY <1>2 DEF RunOK
<1>4. L = l(1) \cup l(2) \cup l(3) \cup l(4) \cup l(5)
  <2>1. ASSUME NEW o, o \in L PROVE o \in l(1) \cup l(2) \cup l(3) \cup l(4) \cup l(5)
    <3>1. PICK i \in 1 .. 5 : o \in l(i)
      BY <1>2, <2>1
    <3>2. i = 1 \/ i = 2 \/ i = 3 \/ i = 4 \/ i = 5
      OBVIOUS
    <3> QED BY <3>1, <3>2
  <2>2. ASSUME NEW o, o \in l(1) \cup l(2) \cup l(3) \cup l(4) \cup l(5) PROVE o \in L
    <3>1. 1 \in 1 .. 5 /\ 2 \in 1 .. 5 /\ 3 \in 1 .. 5 /\ 4 \in 1 .. 5 /\ 5 \in 1 .. 5
      OBVIOUS
    <3> QED BY <1>2, <2>2, <3>1
  <2> QED BY <2>1, <2>2
<1>5. IsFiniteSet(L)
  <2>1. /\ IsFiniteSet(l(1)) /\ IsFiniteSet(l(2)) /\ IsFiniteSet(l(3)) /\ IsFiniteSet(l(4))
        /\ IsFiniteSet(l(5))
    BY <1>3 DEF ListAt
  <2>2. IsFiniteSet(l(1) \cup l(2))
    BY <2>1, FS_Union
  <2>3. IsFiniteSet(l(1) \cup l(2) \cup l(3))
    BY <2>1, <2>2, FS_Union
  <2>4. IsFiniteSet(l(1) \cup l(2) \cup l(3) \cup l(4))
    BY <2>1, <2>3, FS_Union
  <2>5. IsFiniteSet(l(1) \cup l(2) \cup l(3) \cup l(4) \cup l(5))
    BY <2>1, <2>4, FS_Union
  <2> HIDE DEF L, l
  <2> QED BY <1>4, <2>5
<1>6. ASSUME NEW o \in L
      PROVE  \E i \in 1 .. 5 : o \in x.lists[i] /\ ListAt(x.lists[i], t) /\ o.kind = Kinds[i]
  <2>1. PICK i \in DOMAIN x.lists : o \in x.lists[i]
    OBVIOUS
  <2> QED BY <1>2, <2>1 DEF RunOK
<1> HIDE DEF L
<1>7. ASSUME NEW o \in L, NEW p \in L, o.kind = p.kind, o.born = p.born
      PROVE  o = p
  <2>1. PICK i \in 1 .. 5 : o \in x.lists[i] /\ ListAt(x.lists[i], t) /\ o.kind = Kinds[i]
    BY <1>6
  <2>2. PICK j \in 1 .. 5 : p \in x.lists[j] /\ ListAt(x.lists[j], t) /\ p.kind = Kinds[j]
    BY <1>6
  <2>3. i = j
    BY <1>7, <2>1, <2>2, KindsDiffer
  <2> QED BY <1>7, <2>1, <2>2, <2>3 DEF ListAt
<1>8. ASSUME NEW o \in L PROVE o \in SnapObjects /\ o.born <= t
  BY <1>6 DEF ListAt
<1>9. ListAt(L, t)
  BY <1>5, <1>7, <1>8 DEF ListAt
<1> QED BY <1>9 DEF L

(* A document is true of what was listed.                                  *)
LEMMA DocumentHonest ==
  ASSUME NEW r, NEW L, NEW t, ListAt(L, t)
  PROVE  HonestDoc(document(r, L, t))
<1> DEFINE d == document(r, L, t)
           V == buildNamespaceView(L, t)
<1>1. /\ d.sourceObjects = Cardinality(L) /\ d.projectedObjects = Cardinality(V)
      /\ d.omitted = countProjectionOmissions(L)
      /\ d.view = V /\ d.at = t /\ d.listed = L
  BY DEF document
<1>2. d.omitted.unprojectedPods = Cardinality(OfKind(L, "pods"))
  BY <1>1 DEF countProjectionOmissions
<1> HIDE DEF d
<1>3. d.sourceObjects = d.projectedObjects + d.omitted.unprojectedPods
  BY <1>1, <1>2, ProjectionCounts
<1>4. ASSUME NEW v \in V
      PROVE  \E o \in L : v.kind = o.kind /\ v.born = o.born /\ v.shown = translate(o)
  BY DEF buildNamespaceView
<1> HIDE DEF V
<1>5. ASSUME NEW v \in V PROVE v.born <= t
  BY <1>4 DEF ListAt
<1>6. ASSUME NEW o \in L, o.kind = "jobs", "Failed" \in o.shape,
             NEW v \in V, v.kind = "jobs", v.born = o.born
      PROVE  ~v.shown.succeeded
  <2>1. PICK p \in L : v.kind = p.kind /\ v.born = p.born /\ v.shown = translate(p)
    BY <1>4
  <2>2. p = o
    BY <1>6, <2>1 DEF ListAt
  <2>3. v.shown = translateJob(o.shape)
    BY <1>6, <2>1, <2>2 DEF translate
  <2>4. translateJob(o.shape).succeeded = FALSE
    BY <1>6 DEF translateJob
  <2> QED BY <2>3, <2>4
<1>7. HonestDoc(d)
  BY <1>1, <1>3, <1>5, <1>6 DEF HonestDoc
<1> QED BY <1>7 DEF d

(* One run's step keeps the invariant when it keeps that run's part of it. *)
LEMMA RunStep ==
  ASSUME SnapInv, NEW r \in SnapRuns, NEW y, RunOK(y, snapTime),
         snapRun' = [snapRun EXCEPT ![r] = y], UNCHANGED <<nsObjects, snapTime>>,
         artifact' \in Docs, unsettled' \subseteq Docs
  PROVE  SnapInv'
<1>1. y \in Runs
  BY DEF RunOK
<1> QED BY <1>1 DEF SnapInv

LEMMA SnapInitially == SnapInit => SnapInv
<1> SUFFICES ASSUME SnapInit PROVE SnapInv
  OBVIOUS
<1>1. ListAt({}, 0)
  BY FS_EmptySet DEF ListAt
<1>2. NoDoc \in Docs
  BY DEF Docs
<1>3. RunOK(IdleRun, 0) /\ IdleRun \in Runs
  BY EmptyRunOK DEF RunOK
<1> QED BY <1>1, <1>2, <1>3 DEF SnapInit, SnapInv

LEMMA SnapRunStep ==
  ASSUME SnapInv, NEW r \in SnapRuns,
         ListNext(r) \/ Capture(r) \/ WriteTemporary(r) \/ ReplaceArtifact(r) \/ FailRun(r)
  PROVE  SnapInv'
<1> DEFINE x == snapRun[r]
<1>0. /\ x \in Runs /\ RunOK(x, snapTime) /\ snapTime \in Nat /\ ListAt(nsObjects, snapTime)
      /\ artifact \in Docs /\ unsettled \subseteq Docs /\ x.doc \in Docs
      /\ x.lists \in Seq(SUBSET SnapObjects)
  BY DEF SnapInv, Runs
<1>1. CASE ListNext(r)
  <2> DEFINE i == Len(x.lists) + 1
             l == OfKind(nsObjects, Kinds[i])
             y == [x EXCEPT !.step = "listing", !.lists = Append(@, l)]
  <2>1. i <= 5 /\ UNCHANGED <<nsObjects, snapTime, artifact, unsettled>>
    BY <1>1, KindsDiffer DEF ListNext
  <2>2. snapRun' = [snapRun EXCEPT ![r] = y]
    BY <1>1 DEF ListNext
  <2>3. l \in SUBSET nsObjects /\ \A o \in l : o.kind = Kinds[i]
    BY DEF OfKind
  <2>4. ListAt(l, snapTime)
    BY <1>0, <2>3, SubList
  <2>5. l \in SUBSET SnapObjects
    BY <2>4 DEF ListAt
  <2> HIDE DEF l
  <2> DEFINE ls == Append(x.lists, l)
  <2>6. /\ ls \in Seq(SUBSET SnapObjects) /\ Len(ls) = i /\ DOMAIN ls = 1 .. i
        /\ ls[i] = l /\ \A j \in 1 .. i : j # i => ls[j] = x.lists[j] /\ j \in DOMAIN x.lists
    BY <1>0, <2>5
  <2> HIDE DEF ls
  <2>7. /\ y \in Runs /\ y.step = "listing" /\ y.lists = ls /\ y.doc = x.doc
    BY <1>0, <2>6 DEF Runs, ls
  <2> HIDE DEF y
  <2>8. ASSUME NEW j \in 1 .. i
        PROVE  ListAt(ls[j], snapTime) /\ \A o \in ls[j] : o.kind = Kinds[j]
    <3>1. CASE j = i
      BY <3>1, <2>3, <2>4, <2>6
    <3>2. CASE j # i
      BY <3>2, <2>6, <1>0 DEF RunOK
    <3> QED BY <3>1, <3>2
  <2>9. RunOK(y, snapTime)
    BY <1>0, <2>1, <2>6, <2>7, <2>8 DEF RunOK
  <2> QED BY <1>0, <2>1, <2>2, <2>9, RunStep
<1>2. CASE Capture(r)
  <2> DEFINE d == document(r, Listed(r), snapTime)
             y == [x EXCEPT !.step = "captured", !.doc = d]
  <2>1. Len(x.lists) = 5 /\ UNCHANGED <<nsObjects, snapTime, artifact, unsettled>>
    BY <1>2, KindsDiffer DEF Capture
  <2>2. snapRun' = [snapRun EXCEPT ![r] = y]
    BY <1>2 DEF Capture
  <2>3. ListAt(Listed(r), snapTime)
    BY <1>0, <2>1, ListsTogether DEF Listed
  <2>4. d \in Docs
    <3>1. Listed(r) \in SUBSET SnapObjects
      BY <2>3 DEF ListAt
    <3> QED BY <1>0, <3>1 DEF Docs
  <2>5. HonestDoc(d)
    BY <2>3, DocumentHonest
  <2> HIDE DEF d
  <2>6. y \in Runs /\ y.step = "captured" /\ y.lists = x.lists /\ y.doc = d
    BY <1>0, <2>4 DEF Runs
  <2> HIDE DEF y
  <2>7. RunOK(y, snapTime)
    BY <1>0, <2>5, <2>6 DEF RunOK
  <2> QED BY <1>0, <2>1, <2>2, <2>7, RunStep
<1>3. CASE WriteTemporary(r)
  <2> DEFINE y == [x EXCEPT !.step = "written", !.synced = TRUE]
  <2>1. /\ snapRun' = [snapRun EXCEPT ![r] = y]
        /\ UNCHANGED <<nsObjects, snapTime, artifact, unsettled>>
    BY <1>3 DEF WriteTemporary
  <2>2. y \in Runs /\ y.synced = TRUE /\ y.lists = x.lists /\ y.doc = x.doc
    BY <1>0 DEF Runs
  <2> HIDE DEF y
  <2>3. RunOK(y, snapTime)
    BY <1>0, <2>2 DEF RunOK
  <2> QED BY <1>0, <2>1, <2>3, RunStep
<1>4. CASE ReplaceArtifact(r)
  <2> DEFINE y == [x EXCEPT !.step = "done"]
  <2>1. /\ snapRun' = [snapRun EXCEPT ![r] = y] /\ UNCHANGED <<nsObjects, snapTime>>
        /\ x.step = "written" /\ artifact' = x.doc
        /\ unsettled' = unsettled \cup {artifact} \cup (IF x.synced THEN {} ELSE {TornDoc})
    BY <1>4 DEF ReplaceArtifact
  <2>2. x.synced
    BY <1>0, <2>1 DEF RunOK
  <2>3. unsettled' = unsettled \cup {artifact}
    BY <2>1, <2>2
  <2>4. y \in Runs /\ y.step = "done" /\ y.lists = x.lists /\ y.doc = x.doc
    BY <1>0 DEF Runs
  <2> HIDE DEF y
  <2>5. RunOK(y, snapTime)
    BY <1>0, <2>4 DEF RunOK
  <2>6. artifact' \in Docs /\ unsettled' \subseteq Docs
    BY <1>0, <2>1, <2>3
  <2> QED BY <2>1, <2>5, <2>6, RunStep
<1>5. CASE FailRun(r)
  <2> DEFINE y == [IdleRun EXCEPT !.step = "failed"]
  <2>1. /\ snapRun' = [snapRun EXCEPT ![r] = y]
        /\ UNCHANGED <<nsObjects, snapTime, artifact, unsettled>>
    BY <1>5 DEF FailRun
  <2>2. RunOK(y, snapTime)
    BY EmptyRunOK
  <2> HIDE DEF y
  <2> QED BY <1>0, <2>1, <2>2, RunStep
<1> QED BY <1>1, <1>2, <1>3, <1>4, <1>5

(* A change of the cluster gives no two objects one kind and birth.        *)
LEMMA ClusterStep ==
  ASSUME SnapInv, ClusterChanges
  PROVE  ListAt(nsObjects', snapTime + 1)
<1> DEFINE t == snapTime + 1
<1>1. /\ ListAt(nsObjects, t) /\ ListAt(nsObjects, snapTime)
      /\ snapTime \in Nat /\ t \in Nat /\ IsFiniteSet(nsObjects)
      /\ nsObjects \subseteq SnapObjects
  BY ListLater DEF SnapInv, ListAt
<1>2. CASE \E o \in nsObjects : nsObjects' = nsObjects \ {o}
  BY <1>1, <1>2, SubList
<1>3. ASSUME NEW k \in DOMAIN Shapes, NEW s \in Shapes[k],
             nsObjects' = nsObjects \cup {[kind |-> k, born |-> t, shape |-> s]}
      PROVE  ListAt(nsObjects', t)
  <2> DEFINE n == [kind |-> k, born |-> t, shape |-> s]
  <2>1. n \in SnapObjects /\ n.born = t
    BY <1>1 DEF SnapObjects
  <2> HIDE DEF n
  <2>2. ASSUME NEW o \in nsObjects PROVE o.born # t /\ o.born <= t /\ o \in SnapObjects
    <3>1. o.born \in Nat /\ o.born <= snapTime /\ o \in SnapObjects
      BY <1>1 DEF ListAt, SnapObjects
    <3> QED BY <1>1, <3>1
  <2>3. IsFiniteSet(nsObjects \cup {n})
    BY <1>1, FS_AddElement
  <2>4. t <= t
    BY <1>1
  <2>5. nsObjects' = nsObjects \cup {n}
    BY <1>3 DEF n
  <2> HIDE DEF t
  <2>6. \A o, p \in nsObjects' : o.kind = p.kind /\ o.born = p.born => o = p
    BY <1>1, <2>1, <2>2, <2>5 DEF ListAt
  <2> QED BY <2>1, <2>2, <2>3, <2>4, <2>5, <2>6 DEF ListAt
<1>4. ASSUME NEW o \in nsObjects, NEW s \in Shapes.jobs,
             nsObjects' = (nsObjects \ {o}) \cup {[o EXCEPT !.shape = s]}
      PROVE  ListAt(nsObjects', t)
  <2> DEFINE n == [o EXCEPT !.shape = s]
             R == nsObjects \ {o}
  <2>1. s \in UNION {Shapes[k] : k \in DOMAIN Shapes}
    <3>1. "jobs" \in DOMAIN Shapes
      BY DEF Shapes
    <3> QED BY <3>1
  <2>2. n \in SnapObjects /\ n.born = o.born /\ n.kind = o.kind
    BY <1>1, <2>1 DEF SnapObjects
  <2> HIDE DEF n
  <2>3. IsFiniteSet(R) /\ R \subseteq nsObjects /\ o \notin R
    BY <1>1, FS_Subset
  <2>4. IsFiniteSet(R \cup {n}) /\ nsObjects' = R \cup {n}
    BY <1>4, <2>3, FS_AddElement DEF n
  <2> HIDE DEF R, t
  <2>5. ASSUME NEW p \in nsObjects' PROVE p \in SnapObjects /\ p.born <= t
    BY <1>1, <2>2, <2>3, <2>4 DEF ListAt
  <2>6. ASSUME NEW p \in nsObjects', NEW q \in nsObjects', p.kind = q.kind, p.born = q.born
        PROVE  p = q
    BY <1>1, <2>2, <2>3, <2>4, <2>6 DEF ListAt
  <2> QED BY <2>4, <2>5, <2>6 DEF ListAt
<1> QED BY <1>2, <1>3, <1>4 DEF ClusterChanges

LEMMA SnapStep ==
  ASSUME SnapInv, [SnapNext]_snapVars
  PROVE  SnapInv'
<1>1. CASE ClusterChanges
  <2>1. /\ snapTime \in Nat /\ snapTime' = snapTime + 1 /\ snapTime + 1 \in Nat
        /\ UNCHANGED <<snapRun, artifact, unsettled>>
    BY <1>1 DEF ClusterChanges, SnapInv
  <2>2. \A r \in SnapRuns : RunOK(snapRun[r], snapTime + 1)
    BY <2>1, RunLater DEF SnapInv
  <2> QED BY <1>1, <2>1, <2>2, ClusterStep DEF SnapInv
<1>2. CASE LosePowerOnHost
  <2> DEFINE gone == [IdleRun EXCEPT !.step = "failed"]
             y(r) == IF snapRun[r].step \in {"listing", "captured", "written"}
                       THEN gone ELSE snapRun[r]
  <2>1. /\ snapTime \in Nat /\ snapTime' = snapTime + 1 /\ snapTime + 1 \in Nat
        /\ nsObjects' = nsObjects /\ unsettled' = {}
        /\ artifact' \in unsettled \cup {artifact}
        /\ snapRun' = [r \in SnapRuns |-> y(r)]
    BY <1>2 DEF LosePowerOnHost, SnapInv
  <2>2. RunOK(gone, snapTime + 1)
    BY EmptyRunOK
  <2> HIDE DEF gone
  <2>3. ASSUME NEW r \in SnapRuns PROVE RunOK(y(r), snapTime + 1) /\ y(r) \in Runs
    <3>1. RunOK(snapRun[r], snapTime + 1)
      BY <2>1, RunLater DEF SnapInv
    <3> QED BY <2>2, <3>1 DEF RunOK
  <2> HIDE DEF y
  <2>4. ListAt(nsObjects, snapTime + 1)
    BY <2>1, ListLater DEF SnapInv
  <2> QED BY <2>1, <2>3, <2>4 DEF SnapInv
<1>3. CASE UNCHANGED snapVars
  BY <1>3 DEF snapVars, SnapInv
<1> QED BY <1>1, <1>2, <1>3, SnapRunStep DEF SnapNext

(* For any number of runs that share --output and whatever changes between *)
(* their lists, WriteArtifact leaves a whole document or none through      *)
(* failures and power losses, and every document accounts for each listed  *)
(* object and shows no failed job as succeeded.                            *)
THEOREM SnapshotSound == SnapSpec => []SnapshotIsSound
<1>1. SnapInv => SnapshotIsSound
  <2> SUFFICES ASSUME SnapInv PROVE SnapshotIsSound
    OBVIOUS
  <2>1. ArtifactIsWhole
    BY DocsAreWhole DEF SnapInv, ArtifactIsWhole
  <2>2. DocumentIsHonest
    BY DEF SnapInv, RunOK, HonestDoc, DocumentIsHonest
  <2> QED BY <2>1, <2>2 DEF SnapshotIsSound
<1> QED BY <1>1, SnapInitially, SnapStep, PTL DEF SnapSpec

-----------------------------------------------------------------------------
(*                              DecisionView                               *)
(*                                                                         *)
(* A complete view that reports no failed refresh covers what the chain    *)
(* held before the last try; the last try of a fresh one is less than a    *)
(* TTL ago.                                                                *)

ViewRecords ==
  {NewDecisionRecord([outcome |-> "require_approval", layer |-> "pack"], "a")} \cup
  {NewHumanRecord([label |-> "approve", approver |-> "alice", id |-> i, original |-> i], "a") :
     i \in Nat}

Sources == [records : Seq(ViewRecords), when : Seq(Nat)]

Views == [rows : SUBSET Nat, held : SUBSET Nat, ok : BOOLEAN, complete : BOOLEAN,
          error : BOOLEAN, err : BOOLEAN]

(* The view v shows record i of source s, and not what it answers as held. *)
Shows(v, s, i) == i \in v.rows /\ s.records[i].approval.original \notin v.held

SourceInv ==
  /\ source \in Sources /\ Len(source.when) = Len(source.records)
  /\ \A i \in DOMAIN source.when : source.when[i] <= viewClock

LoaderInv ==
  /\ loader \in [last : Views, have : BOOLEAN, lastTry : Nat]
  /\ loader.lastTry = Never \/ loader.lastTry <= viewClock
  /\ loader.lastTry = Never => ~loader.last.complete
  /\ loader.last.complete /\ ~loader.last.err =>
       \A i \in DOMAIN source.when :
         source.when[i] < loader.lastTry => Shows(loader.last, source, i)

PageInv ==
  /\ page.at \in Nat /\ page.at <= viewClock
  /\ page.status = "verified" /\ ~page.view.err =>
       /\ Pinned
       /\ \A i \in DOMAIN source.when :
            source.when[i] + ViewTTL <= page.at => Shows(page.view, source, i)

ViewInv == viewClock \in 0 .. MaxViewTime /\ SourceInv /\ LoaderInv /\ PageInv

(* The behaviours of the loader and its source.                            *)
ViewSpec == ViewInit /\ [][ViewNext]_viewVars

(* A complete view of an export covers the export.                         *)
LEMMA BuildCovers ==
  ASSUME ViewInv
  PROVE  /\ Build(Loaded) \in Views
         /\ Build(Loaded).complete => \A i \in DOMAIN source.when : Shows(Build(Loaded), source, i)
<1> DEFINE e == Loaded
           R == source.records
           answered == {e.records[j].record.approval.original : j \in DOMAIN e.records}
           rows == {e.receipts[i].seq : i \in DOMAIN e.receipts}
           waiting == {i \in DOMAIN e.receipts :
                      e.records[i].record.outcome = "require_approval"} \ answered
           v == [rows |-> rows, held |-> waiting, ok |-> VerifyRecords(e), complete |-> Complete(e),
                 error |-> FALSE, err |-> FALSE]
<1>1. R \in Seq(ViewRecords) /\ DOMAIN source.when = DOMAIN R
  BY DEF ViewInv, SourceInv, Sources
<1>2. EmptyView \in Views /\ ~EmptyView.complete
  BY DEF EmptyView, Views
<1>3. Build(e) = IF VerifyBundle(e) THEN v ELSE EmptyView
  BY DEF Build
<1>4. VerifyRecords(e) \in BOOLEAN /\ Complete(e) \in BOOLEAN
  BY DEF VerifyRecords, Complete
<1> DEFINE x == Export(R)
<1>5. /\ DOMAIN x.receipts = DOMAIN R /\ DOMAIN x.records = DOMAIN R
      /\ \A i \in DOMAIN R : x.receipts[i].seq = i /\ x.records[i].record = R[i]
  BY DEF Export, Receipt, RecordLine
<1>6. x.receipts \in Seq({Receipt(R, i) : i \in DOMAIN R}) /\ DOMAIN R = 1 .. Len(R)
  <2>1. x.receipts \in [1 .. Len(R) -> {Receipt(R, i) : i \in DOMAIN R}]
    BY <1>1 DEF Export
  <2> QED BY <1>1, <2>1
<1>7. CASE ~cut
  <2>1. e = x
    BY <1>7 DEF Loaded
  <2> HIDE DEF e, x
  <2>2. rows \in SUBSET Nat /\ rows = DOMAIN R
    BY <2>1, <1>5, <1>6
  <2>3. waiting \in SUBSET Nat
    BY <2>1, <1>5, <1>6
  <2>4. \A i \in DOMAIN R : R[i].approval.original \in answered
    BY <2>1, <1>5
  <2> HIDE DEF answered, rows
  <2>5. \A i \in DOMAIN R : R[i].approval.original \notin waiting
    BY <2>4
  <2> HIDE DEF waiting
  <2>6. v \in Views /\ v.rows = rows /\ v.held = waiting
    BY <1>4, <2>2, <2>3 DEF Views
  <2>7. \A i \in DOMAIN source.when : Shows(v, source, i)
    BY <1>1, <2>2, <2>5, <2>6 DEF Shows
  <2> HIDE DEF v
  <2>8. /\ Build(e) \in Views
        /\ Build(e).complete => \A i \in DOMAIN source.when : Shows(Build(e), source, i)
    BY <1>2, <1>3, <2>6, <2>7
  <2> QED BY <2>8 DEF e
<1>8. CASE cut
  <2>1. e = StripToPrefix(x, 1)
    BY <1>8 DEF Loaded
  <2>2. ~Complete(e)
    BY <2>1 DEF Complete, StripToPrefix
  <2>3. e.receipts = SubSeq(x.receipts, 1, Len(x.receipts) - 1)
    BY <2>1 DEF StripToPrefix
  <2>4. Len(x.receipts) = Len(R) /\ Len(R) \in Nat
    BY <1>1, <1>5, <1>6
  <2>5. /\ DOMAIN e.receipts \subseteq DOMAIN R
        /\ \A i \in DOMAIN e.receipts : e.receipts[i] = x.receipts[i]
    BY <2>3, <2>4, <1>6
  <2>6. \A i \in DOMAIN e.receipts : e.receipts[i].seq \in Nat /\ i \in Nat
    BY <2>5, <1>5, <1>6
  <2> HIDE DEF e, x, answered
  <2>7. rows \in SUBSET Nat /\ waiting \in SUBSET Nat
    BY <2>6
  <2> HIDE DEF rows, waiting
  <2>8. v \in Views /\ ~v.complete
    BY <1>4, <2>2, <2>7 DEF Views
  <2> HIDE DEF v
  <2>9. Build(e) \in Views /\ ~Build(e).complete
    BY <1>2, <1>3, <2>8
  <2> QED BY <2>9 DEF e
<1> QED BY <1>7, <1>8

(* The export of a source that grew keeps what was there.                  *)
LEMMA SourceGrows ==
  ASSUME ViewInv, SourceAppends
  PROVE  /\ source' \in Sources /\ Len(source'.when) = Len(source'.records)
         /\ \A i \in DOMAIN source'.when :
              \/ i \in DOMAIN source.when /\ source'.when[i] = source.when[i]
                 /\ source'.records[i] = source.records[i]
              \/ source'.when[i] = viewClock
<1>1. /\ source.records \in Seq(ViewRecords) /\ source.when \in Seq(Nat) /\ viewClock \in Nat
      /\ Len(source.when) = Len(source.records)
  BY ViewAssumption DEF ViewInv, SourceInv, Sources
<1>2. DOMAIN source.records \subseteq Nat
  BY <1>1
<1>3. PICK rec \in ViewRecords :
        source' = [records |-> Append(source.records, rec), when |-> Append(source.when, viewClock)]
  BY <1>2 DEF SourceAppends, ViewRecords
<1> DEFINE rs == Append(source.records, rec)
           ws == Append(source.when, viewClock)
<1>4. /\ rs \in Seq(ViewRecords) /\ Len(rs) = Len(source.records) + 1
      /\ \A i \in DOMAIN source.records : rs[i] = source.records[i]
  BY <1>1
<1>5. /\ ws \in Seq(Nat) /\ Len(ws) = Len(source.when) + 1
      /\ \A i \in DOMAIN ws : (i \in DOMAIN source.when /\ ws[i] = source.when[i])
                              \/ ws[i] = viewClock
  BY <1>1
<1>6. DOMAIN source.when = DOMAIN source.records
  BY <1>1
<1> HIDE DEF rs, ws
<1>7. source'.records = rs /\ source'.when = ws /\ source' \in Sources
  BY <1>3, <1>4, <1>5 DEF rs, ws, Sources
<1> QED BY <1>1, <1>4, <1>5, <1>6, <1>7

(* What Loader.Current leaves in the loader.                               *)
LEMMA RefreshCovers ==
  ASSUME ViewInv, ~fresh, loader' = refreshed, UNCHANGED <<source, viewClock>>
  PROVE  /\ LoaderInv' /\ loader'.lastTry = viewClock
<1>1. /\ loader \in [last : Views, have : BOOLEAN, lastTry : Nat] /\ viewClock \in Nat
      /\ loader.last \in Views /\ viewClock # Never
  BY ViewAssumption DEF ViewInv, LoaderInv, Never
<1>2. EmptyView \in Views
  BY DEF EmptyView, Views
<1>3. CASE sourceUp
  <2> DEFINE b == Build(Loaded)
  <2>1. /\ b \in Views
        /\ b.complete => \A i \in DOMAIN source.when : Shows(b, source, i)
    BY BuildCovers
  <2>2. loader' = [last |-> b, have |-> TRUE, lastTry |-> viewClock]
    BY <1>3 DEF refreshed
  <2> HIDE DEF b
  <2>3. /\ loader' \in [last : Views, have : BOOLEAN, lastTry : Nat]
        /\ loader'.last = b /\ loader'.lastTry = viewClock
    BY <1>1, <2>1, <2>2
  <2>4. viewClock <= viewClock
    BY <1>1
  <2>5. viewClock # Never
    BY <1>1
  <2> QED BY <2>1, <2>3, <2>4, <2>5 DEF LoaderInv
<1>4. CASE ~sourceUp
  <2> DEFINE old == [loader.last EXCEPT !.err = TRUE]
             none == [EmptyView EXCEPT !.err = TRUE]
             l == IF loader.have THEN old ELSE none
  <2>1. old \in Views /\ old.err = TRUE /\ none \in Views /\ none.err = TRUE
    BY <1>1, <1>2 DEF Views
  <2>2. /\ loader' \in [last : Views, have : BOOLEAN, lastTry : Nat]
        /\ loader'.last = l /\ loader'.lastTry = viewClock
    <3>1. CASE loader.have
      <4>1. loader' = [loader EXCEPT !.last = old, !.lastTry = viewClock]
        BY <1>4, <3>1 DEF refreshed
      <4> HIDE DEF old, none
      <4> QED BY <1>1, <2>1, <3>1, <4>1
    <3>2. CASE ~loader.have
      <4>1. loader' = [loader EXCEPT !.last = none, !.lastTry = viewClock]
        BY <1>4, <3>2 DEF refreshed
      <4> HIDE DEF old, none
      <4> QED BY <1>1, <2>1, <3>2, <4>1
    <3> QED BY <3>1, <3>2
  <2>3. l \in Views /\ l.err = TRUE
    BY <2>1
  <2>4. viewClock <= viewClock /\ viewClock # Never
    BY <1>1
  <2> HIDE DEF l
  <2> QED BY <2>2, <2>3, <2>4 DEF LoaderInv
<1> QED BY <1>3, <1>4

(* What a page shows when it is made.                                      *)
LEMMA PageCovers ==
  ASSUME ViewInv, Current
  PROVE  ViewInv'
<1>1. /\ UNCHANGED <<source, viewClock>> /\ viewClock \in Nat /\ ViewTTL \in Nat
      /\ loader' = IF fresh THEN loader ELSE refreshed
      /\ page' = [view |-> loader'.last, status |-> viewStatus(loader'.last), at |-> viewClock]
  BY ViewAssumption DEF Current, ViewInv
<1>2. LoaderInv' /\ loader'.lastTry \in Nat
  <2>1. CASE fresh
    BY <1>1, <2>1 DEF ViewInv, LoaderInv
  <2>2. CASE ~fresh
    BY <1>1, <2>2, RefreshCovers
  <2> QED BY <2>1, <2>2
<1>3. loader'.lastTry # Never => viewClock - loader'.lastTry < ViewTTL
  <2>1. CASE fresh
    BY <1>1, <2>1 DEF fresh
  <2>2. CASE ~fresh
    <3>1. loader'.lastTry = viewClock
      BY <1>1, <2>2, RefreshCovers
    <3> QED BY <1>1, <3>1, ViewAssumption
  <2> QED BY <2>1, <2>2
<1>4. /\ page'.at = viewClock /\ page'.view = loader'.last
      /\ page'.status = viewStatus(loader'.last)
  BY <1>1
<1>5. ASSUME page'.status = "verified", ~page'.view.err
      PROVE  /\ Pinned
             /\ \A i \in DOMAIN source.when :
                  source.when[i] + ViewTTL <= viewClock => Shows(loader'.last, source, i)
  <2>1. Pinned /\ loader'.last.complete
    BY <1>4, <1>5 DEF viewStatus
  <2>2. /\ loader'.lastTry # Never
        /\ \A i \in DOMAIN source.when :
             source.when[i] < loader'.lastTry => Shows(loader'.last, source, i)
    BY <1>1, <1>2, <1>4, <1>5, <2>1 DEF LoaderInv
  <2>3. ASSUME NEW i \in DOMAIN source.when, source.when[i] + ViewTTL <= viewClock
        PROVE  source.when[i] < loader'.lastTry
    <3>1. source.when[i] \in Nat
      BY DEF ViewInv, SourceInv, Sources
    <3> QED BY <1>1, <1>2, <1>3, <2>2, <2>3, <3>1
  <2> QED BY <2>1, <2>2, <2>3
<1>6. PageInv'
  <2>1. viewClock <= viewClock
    BY <1>1
  <2> QED BY <1>1, <1>4, <1>5, <2>1 DEF PageInv
<1>7. SourceInv'
  BY <1>1 DEF ViewInv, SourceInv
<1> QED BY <1>1, <1>2, <1>6, <1>7 DEF ViewInv

LEMMA ViewInitially == ViewInit => ViewInv
<1> SUFFICES ASSUME ViewInit PROVE ViewInv
  OBVIOUS
<1>1. EmptyView \in Views /\ EmptyView.complete = FALSE
  BY DEF EmptyView, Views
<1>2. Never \in Nat /\ 0 \in 0 .. MaxViewTime
  BY ViewAssumption DEF Never
<1>3. /\ source \in Sources /\ source.when = <<>> /\ source.records = <<>>
      /\ viewClock = 0
  BY DEF ViewInit, Sources
<1>4. SourceInv
  BY <1>3 DEF SourceInv
<1>5. /\ loader \in [last : Views, have : BOOLEAN, lastTry : Nat]
      /\ loader.last = EmptyView /\ loader.lastTry = Never
  <2> HIDE DEF EmptyView
  <2>1. loader = [last |-> EmptyView, have |-> FALSE, lastTry |-> Never]
    BY DEF ViewInit
  <2> QED BY <1>1, <1>2, <2>1
<1>6. LoaderInv
  BY <1>1, <1>5 DEF LoaderInv
<1>7. page.at = 0 /\ page.status = "failed"
  BY DEF ViewInit, NoPage
<1>8. PageInv
  BY <1>3, <1>7 DEF PageInv
<1> QED BY <1>2, <1>3, <1>4, <1>6, <1>8 DEF ViewInv

LEMMA ViewStep ==
  ASSUME ViewInv, [ViewNext]_viewVars
  PROVE  ViewInv'
<1>0. viewClock \in Nat /\ ViewTTL \in Nat /\ ViewTTL # 0
  BY ViewAssumption DEF ViewInv
<1>1. CASE SourceAppends
  <2>1. UNCHANGED <<loader, page, viewClock>>
    BY <1>1 DEF SourceAppends
  <2>2. /\ source' \in Sources /\ Len(source'.when) = Len(source'.records)
        /\ \A i \in DOMAIN source'.when :
             \/ i \in DOMAIN source.when /\ source'.when[i] = source.when[i]
                /\ source'.records[i] = source.records[i]
             \/ source'.when[i] = viewClock
    BY <1>1, SourceGrows
  <2>3. viewClock <= viewClock
    BY <1>0
  <2>4. SourceInv'
    BY <2>1, <2>2, <2>3 DEF ViewInv, SourceInv
  <2>5. ASSUME NEW v, NEW i \in DOMAIN source.when,
               source'.records[i] = source.records[i], Shows(v, source, i)
        PROVE  Shows(v, source', i)
    BY <2>5 DEF Shows
  <2>6. LoaderInv'
    <3>1. loader.lastTry # Never => ~(viewClock < loader.lastTry)
      BY <1>0 DEF ViewInv, LoaderInv
    <3> QED BY <2>1, <2>2, <2>5, <3>1 DEF ViewInv, LoaderInv
  <2>7. PageInv'
    <3>1. ~(viewClock + ViewTTL <= page.at)
      BY <1>0 DEF ViewInv, PageInv
    <3> QED BY <2>1, <2>2, <2>5, <3>1 DEF ViewInv, PageInv
  <2> QED BY <2>1, <2>4, <2>6, <2>7 DEF ViewInv
<1>2. CASE SourceFlips \/ SourceCut
  <2>1. UNCHANGED <<source, loader, page, viewClock>>
    BY <1>2 DEF SourceFlips, SourceCut
  <2> QED BY <2>1 DEF ViewInv, SourceInv, LoaderInv, PageInv
<1>3. CASE Current
  BY <1>3, PageCovers
<1>4. CASE ViewTick
  <2>1. /\ UNCHANGED <<source, loader, page>>
        /\ viewClock' \in 0 .. MaxViewTime /\ viewClock' = viewClock + 1
    BY <1>4, ViewAssumption DEF ViewTick, ViewInv
  <2>2. SourceInv'
    <3>1. ASSUME NEW i \in DOMAIN source.when PROVE source.when[i] <= viewClock + 1
      <4>1. source.when[i] \in Nat /\ source.when[i] <= viewClock
        BY DEF ViewInv, SourceInv, Sources
      <4> QED BY <1>0, <4>1
    <3> QED BY <2>1, <3>1 DEF ViewInv, SourceInv
  <2>3. LoaderInv'
    <3>1. loader.lastTry = Never \/ loader.lastTry <= viewClock + 1
      BY <1>0 DEF ViewInv, LoaderInv
    <3> QED BY <2>1, <3>1 DEF ViewInv, LoaderInv
  <2>4. PageInv'
    <3>1. page.at <= viewClock + 1
      BY <1>0 DEF ViewInv, PageInv
    <3> QED BY <2>1, <3>1 DEF ViewInv, PageInv
  <2> QED BY <2>1, <2>2, <2>3, <2>4 DEF ViewInv
<1>5. CASE UNCHANGED viewVars
  BY <1>5 DEF viewVars, ViewInv, SourceInv, LoaderInv, PageInv
<1> QED BY <1>1, <1>2, <1>3, <1>4, <1>5 DEF ViewNext

(* For every TTL and however the source grows, fails or is cut short while *)
(* Loader.Current serves its cached view, a page that says Verified and    *)
(* reports no error shows everything the chain held a TTL before.          *)
THEOREM VerifiedCurrent == ViewSpec => []VerifiedIsCurrent
<1>1. ViewInv => VerifiedIsCurrent
  BY DEF ViewInv, PageInv, Shows, VerifiedIsCurrent
<1> QED BY <1>1, ViewInitially, ViewStep, PTL DEF ViewSpec

-----------------------------------------------------------------------------
(*                            ApprovalDataset                              *)
(*                                                                         *)
(* Every line of the file, every validated request and every line of an    *)
(* export under way binds to a receipt of the chain, and keeps doing so as *)
(* the chain grows; the store knows every line unless it is broken; and    *)
(* what was answered is among the synced lines.                            *)

IsSeq(s) == \E S : s \in Seq(S)

LEMMA SeqShape ==
  ASSUME NEW s, IsSeq(s)
  PROVE  Len(s) \in Nat /\ DOMAIN s = 1 .. Len(s)
  BY DEF IsSeq

LEMMA AppendShape ==
  ASSUME NEW s, NEW x, IsSeq(s)
  PROVE  /\ IsSeq(Append(s, x)) /\ Len(Append(s, x)) = Len(s) + 1
         /\ \A i \in 1 .. Len(s) : Append(s, x)[i] = s[i]
         /\ Append(s, x)[Len(s) + 1] = x
<1>1. PICK S : s \in Seq(S)
  BY DEF IsSeq
<1> DEFINE T == S \cup {x}
<1>2. s \in Seq(T) /\ x \in T
  BY <1>1
<1> HIDE DEF T
<1>3. /\ Append(s, x) \in Seq(T) /\ Len(Append(s, x)) = Len(s) + 1
      /\ \A i \in 1 .. Len(s) : Append(s, x)[i] = s[i]
      /\ Append(s, x)[Len(s) + 1] = x
  BY <1>2
<1> QED BY <1>3 DEF IsSeq

LEMMA PrefixShape ==
  ASSUME NEW s, IsSeq(s), NEW n \in 0 .. Len(s)
  PROVE  /\ IsSeq(SubSeq(s, 1, n)) /\ Len(SubSeq(s, 1, n)) = n
         /\ \A i \in 1 .. n : SubSeq(s, 1, n)[i] = s[i]
<1>1. PICK S : s \in Seq(S)
  BY DEF IsSeq
<1>2. /\ SubSeq(s, 1, n) \in Seq(S) /\ Len(SubSeq(s, 1, n)) = n
      /\ \A i \in 1 .. n : SubSeq(s, 1, n)[i] = s[i]
  BY <1>1
<1> QED BY <1>2 DEF IsSeq

LEMMA TailShape ==
  ASSUME NEW s, IsSeq(s)
  PROVE  IsSeq(SubSeq(s, 2, Len(s)))
<1>1. PICK S : s \in Seq(S)
  BY DEF IsSeq
<1>2. SubSeq(s, 2, Len(s)) \in Seq(S)
  BY <1>1
<1> QED BY <1>2 DEF IsSeq

LEMMA ReplaceShape ==
  ASSUME NEW s, IsSeq(s), NEW i \in DOMAIN s, NEW x
  PROVE  IsSeq([s EXCEPT ![i] = x])
<1>1. PICK S : s \in Seq(S)
  BY DEF IsSeq
<1> DEFINE T == S \cup {x}
<1>2. s \in [1 .. Len(s) -> T] /\ x \in T /\ Len(s) \in Nat
  BY <1>1
<1> HIDE DEF T
<1>3. [s EXCEPT ![i] = x] \in [1 .. Len(s) -> T]
  BY <1>2
<1>4. [s EXCEPT ![i] = x] \in Seq(T)
  BY <1>2, <1>3
<1> QED BY <1>4 DEF IsSeq

(* A prefix is not changed by what is appended behind it.                  *)
LEMMA PrefixStays ==
  ASSUME NEW s, NEW x, IsSeq(s), NEW n \in 0 .. Len(s)
  PROVE  SubSeq(Append(s, x), 1, n) = SubSeq(s, 1, n)
<1> DEFINE a == SubSeq(Append(s, x), 1, n)
           b == SubSeq(s, 1, n)
<1>1. Len(s) \in Nat /\ n \in Nat
  BY SeqShape
<1>2. n \in 0 .. Len(Append(s, x))
  BY <1>1, AppendShape
<1>3. IsSeq(a) /\ Len(a) = n /\ \A i \in 1 .. n : a[i] = Append(s, x)[i]
  BY <1>2, AppendShape, PrefixShape
<1>4. IsSeq(b) /\ Len(b) = n /\ \A i \in 1 .. n : b[i] = s[i]
  BY PrefixShape
<1>5. \A i \in 1 .. n : Append(s, x)[i] = s[i]
  BY <1>1, AppendShape
<1> HIDE DEF a, b
<1>6. PICK S : a \in Seq(S)
  BY <1>3 DEF IsSeq
<1>7. PICK T : b \in Seq(T)
  BY <1>4 DEF IsSeq
<1>8. a = [i \in 1 .. n |-> a[i]] /\ b = [i \in 1 .. n |-> b[i]]
  BY <1>3, <1>4, <1>6, <1>7
<1>9. \A i \in 1 .. n : a[i] = b[i]
  BY <1>3, <1>4, <1>5
<1>10. a = b
  BY <1>8, <1>9
<1> QED BY <1>10 DEF a, b

(* A receipt covers what came before it, not what comes after.             *)
LEMMA ReceiptStays ==
  ASSUME NEW D, NEW x, IsSeq(D), NEW i \in DOMAIN D
  PROVE  /\ i \in DOMAIN Append(D, x) /\ Append(D, x)[i] = D[i]
         /\ Receipt(Append(D, x), i) = Receipt(D, i)
<1>1. Len(D) \in Nat /\ DOMAIN D = 1 .. Len(D)
  BY SeqShape
<1>2. i - 1 \in 0 .. Len(D)
  BY <1>1
<1>3. SubSeq(Append(D, x), 1, i - 1) = SubSeq(D, 1, i - 1)
  BY <1>2, PrefixStays
<1>4. i \in DOMAIN Append(D, x) /\ Append(D, x)[i] = D[i]
  <2>1. Len(Append(D, x)) = Len(D) + 1 /\ DOMAIN Append(D, x) = 1 .. Len(Append(D, x))
    BY AppendShape, SeqShape
  <2>2. Append(D, x)[i] = D[i]
    BY <1>1, AppendShape
  <2> QED BY <1>1, <2>1, <2>2
<1> QED BY <1>3, <1>4 DEF Receipt

(* An export of a chain verifies.                                          *)
LEMMA ExportVerifies ==
  ASSUME NEW D, IsSeq(D)
  PROVE  /\ DOMAIN Export(D).receipts = DOMAIN D /\ DOMAIN Export(D).records = DOMAIN D
         /\ \A i \in DOMAIN D : /\ Export(D).receipts[i] = Receipt(D, i)
                                /\ Export(D).records[i] = RecordLine(D, i)
         /\ Export(D).manifest = {[head |-> Len(D), hash |-> D]}
         /\ IsSeq(Export(D).receipts) /\ IsSeq(Export(D).records)
         /\ Len(Export(D).receipts) = Len(D) /\ Len(Export(D).records) = Len(D)
         /\ PrefixOK(Export(D)) /\ Complete(Export(D))
<1> DEFINE e == Export(D)
<1>1. /\ e.receipts = [i \in DOMAIN D |-> Receipt(D, i)]
      /\ e.records = [i \in DOMAIN D |-> RecordLine(D, i)]
      /\ e.manifest = {[head |-> Len(D), hash |-> D]}
  BY DEF Export
<1>2. Len(D) \in Nat /\ DOMAIN D = 1 .. Len(D)
  BY SeqShape
<1>3. \A i \in DOMAIN D : Receipt(D, i).fields.params = D[i] /\ Receipt(D, i).seq = i
  BY DEF Receipt, Fields
<1>4. \A i \in DOMAIN D : RecordLine(D, i) = [seq |-> i, record |-> D[i]] /\ RecordLine(D, i).seq = i
  BY DEF RecordLine
<1> HIDE DEF e
<1>5. /\ e.receipts \in Seq({Receipt(D, i) : i \in DOMAIN D}) /\ Len(e.receipts) = Len(D)
      /\ e.records \in Seq({RecordLine(D, i) : i \in DOMAIN D}) /\ Len(e.records) = Len(D)
  BY <1>1, <1>2
<1>6. chainOf(e.receipts) = D
  <2>1. PICK S : D \in Seq(S)
    BY DEF IsSeq
  <2>2. D = [i \in DOMAIN D |-> D[i]]
    BY <2>1
  <2>3. chainOf(e.receipts) = [i \in DOMAIN D |-> D[i]]
    BY <1>1, <1>3 DEF chainOf
  <2> QED BY <2>2, <2>3
<1>7. VerifyBundle(e)
  BY <1>1, <1>5, <1>6 DEF VerifyBundle
<1>8. VerifyRecords(e)
  <2>1. /\ DOMAIN e.receipts = DOMAIN D /\ DOMAIN e.records = DOMAIN D
        /\ \A i \in DOMAIN D :
             /\ e.receipts[i].seq = i /\ e.receipts[i].fields.params = D[i]
             /\ e.records[i].seq = i /\ e.records[i] = [seq |-> i, record |-> D[i]]
    BY <1>1, <1>3, <1>4
  <2>2. ASSUME NEW j \in DOMAIN e.records, NEW k \in DOMAIN e.records,
               e.records[j].seq = e.records[k].seq
        PROVE  j = k
    <3>1. e.records[j].seq = j /\ e.records[k].seq = k
      BY <2>1
    <3> QED BY <2>2, <3>1
  <2>3. ASSUME NEW i \in DOMAIN e.receipts
        PROVE  \E j \in DOMAIN e.records :
                 e.records[j] = [seq |-> e.receipts[i].seq, record |-> e.receipts[i].fields.params]
    <3>1. i \in DOMAIN e.records
      BY <2>1
    <3>2. e.receipts[i].seq = i /\ e.receipts[i].fields.params = D[i]
      BY <2>1
    <3>3. e.records[i] = [seq |-> e.receipts[i].seq, record |-> e.receipts[i].fields.params]
      BY <2>1, <3>2
    <3> QED BY <3>1, <3>3
  <2>4. ASSUME NEW j \in DOMAIN e.records
        PROVE  \E i \in DOMAIN e.receipts : e.receipts[i].seq = e.records[j].seq
    <3>1. j \in DOMAIN e.receipts /\ e.receipts[j].seq = e.records[j].seq
      BY <2>1
    <3> QED BY <3>1
  <2> QED BY <2>2, <2>3, <2>4 DEF VerifyRecords
<1>9. Complete(e)
  BY <1>1 DEF Complete
<1> QED BY <1>1, <1>5, <1>7, <1>8, <1>9 DEF PrefixOK, IsSeq, e

(* An example binds to chain D and shows no more than its mode allows.     *)
Binds(ex, D) ==
  /\ ex.seq \in DOMAIN D /\ Validate(ex, Receipt(D, ex.seq), D[ex.seq])
  /\ \A c \in {ex.content} \cup {d.edited : d \in ex.editDiff} :
       c.shown \in Sensitive => ex.mode = "full"

LinesOK(lines, D) ==
  /\ IsSeq(lines)
  /\ \A i, j \in DOMAIN lines :
       lines[i].seq = lines[j].seq \/ lines[i].id = lines[j].id => i = j
  /\ \A i \in DOMAIN lines : Binds(lines[i], D)

(* The store knows the lines of the file.                                  *)
StoreInv ==
  /\ DOMAIN store = {"seqs", "ids", "broken"}
  /\ ~store.broken =>
       \A i \in DOMAIN approvals :
         approvals[i].seq \in store.seqs /\ approvals[i].id \in store.ids

PostsInv ==
  /\ DOMAIN post = Posters
  /\ \A p \in Posters : post[p].step = "store" => Binds(post[p].ex, decisions)

StoredInv ==
  /\ synced \in Nat /\ synced <= Len(approvals)
  /\ \A ex \in stored : \E i \in 1 .. synced : approvals[i] = ex

PulledInv ==
  /\ pulled.step = "half" =>
       "lines" \in DOMAIN pulled.first /\ LinesOK(pulled.first.lines, decisions)
  /\ pulled.step = "done" =>
       \E D : /\ IsSeq(D) /\ pulled.chain = Export(D)
              /\ LinesOK(pulled.approvals.lines, D)

DatasetInv ==
  /\ IsSeq(decisions) /\ LinesOK(approvals, decisions)
  /\ StoreInv /\ PostsInv /\ StoredInv /\ PulledInv

(* The behaviours of the dataset.                                          *)
DatasetSpec == DatasetInit /\ [][DatasetNext]_datasetVars

(* What binds to a chain binds to it when it has grown.                    *)
LEMMA BindsStays ==
  ASSUME NEW D, NEW x, IsSeq(D), NEW ex, Binds(ex, D)
  PROVE  Binds(ex, Append(D, x))
<1>1. ex.seq \in DOMAIN D
  BY DEF Binds
<1>2. /\ ex.seq \in DOMAIN Append(D, x) /\ Append(D, x)[ex.seq] = D[ex.seq]
      /\ Receipt(Append(D, x), ex.seq) = Receipt(D, ex.seq)
  BY <1>1, ReceiptStays
<1> QED BY <1>2 DEF Binds

LEMMA LinesStay ==
  ASSUME NEW D, NEW x, IsSeq(D), NEW lines, LinesOK(lines, D)
  PROVE  LinesOK(lines, Append(D, x))
  BY BindsStays DEF LinesOK

(* One more line, of a receipt and a pending id no line has.               *)
LEMMA LineAdded ==
  ASSUME NEW D, NEW lines, LinesOK(lines, D), NEW ex, Binds(ex, D),
         \A i \in DOMAIN lines : lines[i].seq # ex.seq /\ lines[i].id # ex.id
  PROVE  LinesOK(Append(lines, ex), D)
<1> DEFINE n == Len(lines) + 1
           ls == Append(lines, ex)
<1>1. Len(lines) \in Nat /\ DOMAIN lines = 1 .. Len(lines)
  BY SeqShape DEF LinesOK
<1>2. /\ IsSeq(ls) /\ Len(ls) = n /\ ls[n] = ex
      /\ \A i \in DOMAIN lines : ls[i] = lines[i]
  BY <1>1, AppendShape DEF LinesOK
<1> HIDE DEF ls
<1>3. DOMAIN ls = 1 .. n
  BY <1>2, SeqShape
<1>4. ASSUME NEW i \in DOMAIN ls PROVE (i \in DOMAIN lines /\ ls[i] = lines[i]) \/ (i = n /\ ls[i] = ex)
  BY <1>1, <1>2, <1>3
<1>5. ASSUME NEW i \in DOMAIN ls, NEW j \in DOMAIN ls, ls[i].seq = ls[j].seq \/ ls[i].id = ls[j].id
      PROVE  i = j
  BY <1>4, <1>5 DEF LinesOK
<1>6. ASSUME NEW i \in DOMAIN ls PROVE Binds(ls[i], D)
  BY <1>4 DEF LinesOK
<1>7. LinesOK(ls, D)
  BY <1>2, <1>5, <1>6 DEF LinesOK
<1> QED BY <1>7 DEF ls

LEMMA LinesCut ==
  ASSUME NEW D, NEW lines, LinesOK(lines, D), NEW n \in 0 .. Len(lines)
  PROVE  LinesOK(SubSeq(lines, 1, n), D)
<1> DEFINE ls == SubSeq(lines, 1, n)
<1>1. Len(lines) \in Nat /\ DOMAIN lines = 1 .. Len(lines)
  BY SeqShape DEF LinesOK
<1>2. IsSeq(ls) /\ Len(ls) = n /\ \A i \in 1 .. n : ls[i] = lines[i]
  BY PrefixShape DEF LinesOK
<1> HIDE DEF ls
<1>3. DOMAIN ls = 1 .. n /\ DOMAIN ls \subseteq DOMAIN lines
  BY <1>1, <1>2, SeqShape
<1>4. \A i \in DOMAIN ls : ls[i] = lines[i] /\ i \in DOMAIN lines
  BY <1>2, <1>3
<1>5. LinesOK(ls, D)
  BY <1>2, <1>4 DEF LinesOK
<1> QED BY <1>5 DEF ls

(* A store that was opened knows the lines.                                *)
LEMMA OpenedKnows ==
  ASSUME NEW lines
  PROVE  /\ DOMAIN Opened(lines) = {"seqs", "ids", "broken"}
         /\ \A i \in DOMAIN lines :
              lines[i].seq \in Opened(lines).seqs /\ lines[i].id \in Opened(lines).ids
  BY DEF Opened, Range

(* BuildContent shows a sensitive action only in full capture.             *)
LEMMA ContentShows ==
  ASSUME NEW mode, NEW a, BuildContent(mode, a).shown \in Sensitive
  PROVE  mode = "full"
<1>1. Redacted \notin Sensitive /\ None \notin Sensitive
  BY DatasetAssumption
<1>2. /\ mode = "redacted" => BuildContent(mode, a).shown = redactString(a)
      /\ mode # "redacted" /\ mode # "full" => BuildContent(mode, a).shown = None
  BY DEF BuildContent
<1>3. redactString(a) \notin Sensitive
  BY <1>1 DEF redactString
<1> QED BY <1>1, <1>2, <1>3

(* A request that passes Validate binds, the wrong ones included.          *)
LEMMA RequestBinds ==
  ASSUME NEW i, NEW mode, NEW a, NEW b,
         NEW e \in {NewExample(i, mode, a, b)} \cup WrongExamples(NewExample(i, mode, a, b)),
         e.seq \in DOMAIN decisions,
         Validate(e, Receipt(decisions, e.seq), decisions[e.seq])
  PROVE  Binds(e, decisions)
<1> DEFINE ex == NewExample(i, mode, a, b)
           ok(x) == \A c \in {x.content} \cup {d.edited : d \in x.editDiff} :
                      c.shown \in Sensitive => x.mode = "full"
<1>1. /\ DOMAIN ex = {"id", "seq", "hash", "label", "features", "approver", "mode", "content",
                      "editDiff", "source"}
      /\ ex.mode = mode /\ ex.content = BuildContent(mode, a)
      /\ \A d \in ex.editDiff : d.edited = BuildContent(mode, b)
  BY DEF NewExample
<1> HIDE DEF ex
<1>2. ok(ex)
  BY <1>1, ContentShows
<1>3. ASSUME NEW x, x.mode = ex.mode, x.content = ex.content,
             \/ x.editDiff = ex.editDiff \/ x.editDiff = {}
             \/ x.editDiff = {[changed |-> FALSE, edited |-> ex.content]}
      PROVE  ok(x)
  BY <1>2, <1>3
<1>4. ok(e)
  <2>1. CASE e = ex
    BY <1>2, <2>1
  <2>2. CASE e \in WrongExamples(ex)
    <3>1. /\ e.mode = ex.mode /\ e.content = ex.content
          /\ \/ e.editDiff = ex.editDiff \/ e.editDiff = {}
             \/ e.editDiff = {[changed |-> FALSE, edited |-> ex.content]}
      BY <1>1, <2>2 DEF WrongExamples
    <3> QED BY <1>3, <3>1
  <2> QED BY <2>1, <2>2 DEF ex
<1> QED BY <1>4 DEF Binds

LEMMA DatasetInitially == DatasetInit => DatasetInv
<1> SUFFICES ASSUME DatasetInit PROVE DatasetInv
  OBVIOUS
<1>1. <<>> \in Seq({}) /\ Len(<<>>) = 0 /\ DOMAIN <<>> = {}
  OBVIOUS
<1>2. IsSeq(<<>>)
  BY <1>1 DEF IsSeq
<1>3. IsSeq(decisions) /\ LinesOK(approvals, decisions)
  BY <1>1, <1>2 DEF DatasetInit, LinesOK
<1>4. StoreInv
  BY OpenedKnows DEF DatasetInit, StoreInv
<1>5. PostsInv
  BY DEF DatasetInit, PostsInv, IdlePost
<1>6. StoredInv
  BY <1>1 DEF DatasetInit, StoredInv
<1>7. PulledInv
  BY DEF DatasetInit, PulledInv, NoPull
<1> QED BY <1>3, <1>4, <1>5, <1>6, <1>7 DEF DatasetInv

(* The chain grows under the file, the requests and an export.             *)
LEMMA AppendRecordKeeps ==
  ASSUME DatasetInv, AppendRecord
  PROVE  DatasetInv'
<1>1. PICK x : decisions' = Append(decisions, x)
  BY DEF AppendRecord
<1>2. UNCHANGED <<approvals, torn, synced, store, post, stored, pulled>>
  BY DEF AppendRecord
<1>3. IsSeq(decisions)
  BY DEF DatasetInv
<1>4. IsSeq(decisions')
  BY <1>1, <1>3, AppendShape
<1>5. LinesOK(approvals, decisions')
  BY <1>1, <1>3, LinesStay DEF DatasetInv
<1>6. PostsInv'
  BY <1>1, <1>2, <1>3, BindsStays DEF DatasetInv, PostsInv
<1>7. PulledInv'
  BY <1>1, <1>2, <1>3, LinesStay DEF DatasetInv, PulledInv
<1>8. StoreInv' /\ StoredInv'
  BY <1>2 DEF DatasetInv, StoreInv, StoredInv
<1> QED BY <1>2, <1>4, <1>5, <1>6, <1>7, <1>8 DEF DatasetInv

LEMMA StartPostKeeps ==
  ASSUME DatasetInv, NEW p \in Posters, StartPost(p)
  PROVE  DatasetInv'
<1>1. UNCHANGED <<decisions, approvals, torn, synced, store, stored, pulled>>
  BY DEF StartPost
<1>2. PICK i \in DOMAIN decisions, mode \in CaptureModes, a \in Actions, b \in Actions :
        LET ex == NewExample(i, mode, a, b)
        IN  \E e \in {ex} \cup WrongExamples(ex) :
              post' = IF Lookup(e.seq) /\ Validate(e, Receipt(decisions, e.seq), decisions[e.seq])
                        THEN [post EXCEPT ![p] = [step |-> "store", ex |-> e]]
                        ELSE post
  BY DEF StartPost
<1>3. PICK e \in {NewExample(i, mode, a, b)} \cup WrongExamples(NewExample(i, mode, a, b)) :
        post' = IF Lookup(e.seq) /\ Validate(e, Receipt(decisions, e.seq), decisions[e.seq])
                  THEN [post EXCEPT ![p] = [step |-> "store", ex |-> e]]
                  ELSE post
  BY <1>2
<1>4. DOMAIN post = Posters
  BY DEF DatasetInv, PostsInv
<1>5. PostsInv'
  <2>1. CASE Lookup(e.seq) /\ Validate(e, Receipt(decisions, e.seq), decisions[e.seq])
    <3>1. Binds(e, decisions)
      BY <2>1, RequestBinds DEF Lookup
    <3>2. post' = [post EXCEPT ![p] = [step |-> "store", ex |-> e]]
      BY <1>3, <2>1
    <3>3. /\ DOMAIN post' = Posters /\ post'[p].ex = e
          /\ \A q \in Posters : q # p => post'[q] = post[q]
      BY <1>4, <3>2
    <3>4. \A q \in Posters : post'[q].step = "store" => Binds(post'[q].ex, decisions)
      BY <3>1, <3>3 DEF DatasetInv, PostsInv
    <3> QED BY <1>1, <3>3, <3>4 DEF PostsInv
  <2>2. CASE ~(Lookup(e.seq) /\ Validate(e, Receipt(decisions, e.seq), decisions[e.seq]))
    <3>1. post' = post
      BY <1>3, <2>2
    <3> QED BY <1>1, <3>1 DEF DatasetInv, PostsInv
  <2> QED BY <2>1, <2>2
<1>6. StoreInv' /\ StoredInv' /\ PulledInv'
  BY <1>1 DEF DatasetInv, StoreInv, StoredInv, PulledInv
<1> QED BY <1>1, <1>5, <1>6 DEF DatasetInv

(* A request that ends leaves the others.                                  *)
LEMMA EndKeepsPosts ==
  ASSUME DatasetInv, NEW p \in Posters, EndPost(p), decisions' = decisions
  PROVE  PostsInv'
<1>1. /\ DOMAIN post' = Posters /\ post'[p].step = "idle"
      /\ \A q \in Posters : q # p => post'[q] = post[q]
  BY DEF DatasetInv, PostsInv, EndPost, IdlePost
<1> QED BY <1>1 DEF DatasetInv, PostsInv

LEMMA RefuseKeeps ==
  ASSUME DatasetInv, NEW p \in Posters, RefuseBroken(p) \/ RefuseDuplicate(p)
  PROVE  DatasetInv'
<1>1. /\ EndPost(p) /\ UNCHANGED <<decisions, approvals, torn, synced, store, stored, pulled>>
  BY DEF RefuseBroken, RefuseDuplicate
<1>2. PostsInv'
  BY <1>1, EndKeepsPosts
<1>3. StoreInv' /\ StoredInv' /\ PulledInv'
  BY <1>1 DEF DatasetInv, StoreInv, StoredInv, PulledInv
<1> QED BY <1>1, <1>2, <1>3 DEF DatasetInv

(* The line a request adds under the lock.                                 *)
LEMMA NewLine ==
  ASSUME DatasetInv, NEW p \in Posters, post[p].step = "store", ~store.broken, ~known(post[p].ex)
  PROVE  /\ LinesOK(Append(approvals, post[p].ex), decisions)
         /\ Len(approvals) \in Nat /\ DOMAIN approvals = 1 .. Len(approvals)
         /\ Len(Append(approvals, post[p].ex)) = Len(approvals) + 1
         /\ DOMAIN Append(approvals, post[p].ex) = 1 .. Len(approvals) + 1
         /\ Append(approvals, post[p].ex)[Len(approvals) + 1] = post[p].ex
         /\ \A i \in 1 .. Len(approvals) : Append(approvals, post[p].ex)[i] = approvals[i]
<1>1. LinesOK(approvals, decisions) /\ IsSeq(approvals) /\ Binds(post[p].ex, decisions)
  BY DEF DatasetInv, LinesOK, PostsInv
<1>2. \A i \in DOMAIN approvals :
        approvals[i].seq # post[p].ex.seq /\ approvals[i].id # post[p].ex.id
  BY DEF DatasetInv, StoreInv, known
<1>3. LinesOK(Append(approvals, post[p].ex), decisions)
  BY <1>1, <1>2, LineAdded
<1>4. Len(approvals) \in Nat /\ DOMAIN approvals = 1 .. Len(approvals)
  BY <1>1, SeqShape
<1>5. /\ IsSeq(Append(approvals, post[p].ex))
      /\ Len(Append(approvals, post[p].ex)) = Len(approvals) + 1
      /\ Append(approvals, post[p].ex)[Len(approvals) + 1] = post[p].ex
      /\ \A i \in 1 .. Len(approvals) : Append(approvals, post[p].ex)[i] = approvals[i]
  BY <1>1, AppendShape
<1>6. DOMAIN Append(approvals, post[p].ex) = 1 .. Len(approvals) + 1
  BY <1>5, SeqShape
<1> QED BY <1>3, <1>4, <1>5, <1>6

LEMMA StoreKeeps ==
  ASSUME DatasetInv, NEW p \in Posters, StoreExample(p)
  PROVE  DatasetInv'
<1> DEFINE ex == post[p].ex
           n == Len(approvals) + 1
<1>1. /\ post[p].step = "store" /\ ~store.broken /\ ~known(ex)
      /\ approvals' = Append(approvals, ex) /\ synced' = n
      /\ store' = [store EXCEPT !.seqs = @ \cup {ex.seq}, !.ids = @ \cup {ex.id}]
      /\ stored' = stored \cup {ex} /\ EndPost(p) /\ UNCHANGED <<decisions, torn, pulled>>
  BY DEF StoreExample
<1>2. /\ LinesOK(approvals', decisions) /\ Len(approvals) \in Nat
      /\ Len(approvals') = n /\ DOMAIN approvals' = 1 .. n /\ approvals'[n] = ex
      /\ DOMAIN approvals = 1 .. Len(approvals)
      /\ \A i \in DOMAIN approvals : approvals'[i] = approvals[i]
  BY <1>1, NewLine
<1> HIDE DEF ex
<1>3. /\ DOMAIN store' = {"seqs", "ids", "broken"} /\ store'.broken = store.broken
      /\ store'.seqs = store.seqs \cup {ex.seq} /\ store'.ids = store.ids \cup {ex.id}
  BY <1>1 DEF DatasetInv, StoreInv
<1>4. ASSUME NEW i \in DOMAIN approvals' PROVE i \in DOMAIN approvals \/ i = n
  BY <1>2
<1>5. StoreInv'
  BY <1>1, <1>2, <1>3, <1>4 DEF DatasetInv, StoreInv
<1>6. StoredInv'
  <2>1. n \in Nat /\ n <= n /\ n \in 1 .. n
    BY <1>2
  <2>2. ASSUME NEW x \in stored PROVE \E i \in 1 .. n : approvals'[i] = x
    <3>1. PICK i \in 1 .. synced : approvals[i] = x
      BY DEF DatasetInv, StoredInv
    <3>2. i \in DOMAIN approvals /\ i \in 1 .. n
      BY <1>2, <3>1 DEF DatasetInv, StoredInv
    <3> QED BY <1>2, <3>1, <3>2
  <2> QED BY <1>1, <1>2, <2>1, <2>2 DEF StoredInv
<1>7. PostsInv'
  BY <1>1, EndKeepsPosts
<1>8. PulledInv'
  BY <1>1 DEF DatasetInv, PulledInv
<1> QED BY <1>1, <1>2, <1>5, <1>6, <1>7, <1>8 DEF DatasetInv

LEMMA FailKeeps ==
  ASSUME DatasetInv, NEW p \in Posters, FailStore(p)
  PROVE  DatasetInv'
<1>1. /\ post[p].step = "store" /\ ~store.broken /\ ~known(post[p].ex)
      /\ approvals' = approvals \/ approvals' = Append(approvals, post[p].ex)
      /\ store' = [store EXCEPT !.broken = TRUE]
      /\ EndPost(p) /\ UNCHANGED <<decisions, synced, stored, pulled>>
  BY DEF FailStore
<1>2. StoreInv'
  BY <1>1 DEF DatasetInv, StoreInv
<1>3. PostsInv'
  BY <1>1, EndKeepsPosts
<1>4. PulledInv'
  BY <1>1 DEF DatasetInv, PulledInv
<1>5. CASE approvals' = approvals
  BY <1>1, <1>2, <1>3, <1>4, <1>5 DEF DatasetInv, StoredInv
<1>6. CASE approvals' = Append(approvals, post[p].ex)
  <2>1. /\ LinesOK(approvals', decisions) /\ Len(approvals) \in Nat
        /\ Len(approvals') = Len(approvals) + 1
        /\ \A i \in 1 .. Len(approvals) : approvals'[i] = approvals[i]
    BY <1>1, <1>6, NewLine
  <2>2. synced \in Nat /\ synced <= Len(approvals)
    BY DEF DatasetInv, StoredInv
  <2>3. synced <= Len(approvals') /\ \A i \in 1 .. synced : i \in 1 .. Len(approvals)
    BY <2>1, <2>2
  <2>4. StoredInv'
    BY <1>1, <2>1, <2>2, <2>3 DEF DatasetInv, StoredInv
  <2> QED BY <1>1, <1>2, <1>3, <1>4, <2>1, <2>4 DEF DatasetInv
<1> QED BY <1>1, <1>5, <1>6

(* A restart forgets the requests.                                         *)
LEMMA RestartForgets ==
  ASSUME post' = [p \in Posters |-> IdlePost]
  PROVE  PostsInv'
  BY DEF PostsInv, IdlePost

LEMMA ReopenKeeps ==
  ASSUME DatasetInv, ReopenDataset
  PROVE  DatasetInv'
<1>1. /\ store' = Opened(approvals) /\ post' = [p \in Posters |-> IdlePost]
      /\ UNCHANGED <<decisions, approvals, synced, stored, pulled>>
  BY DEF ReopenDataset
<1>2. StoreInv'
  BY <1>1, OpenedKnows DEF StoreInv
<1>3. StoredInv' /\ PulledInv'
  BY <1>1 DEF DatasetInv, StoredInv, PulledInv
<1> QED BY <1>1, <1>2, <1>3, RestartForgets DEF DatasetInv

LEMMA PowerLossKeeps ==
  ASSUME DatasetInv, LosePower
  PROVE  DatasetInv'
<1>1. PICK n \in synced .. Len(approvals) :
        /\ approvals' = SubSeq(approvals, 1, n) /\ synced' = n
        /\ store' = Opened(SubSeq(approvals, 1, n))
  BY DEF LosePower
<1>2. post' = [p \in Posters |-> IdlePost] /\ UNCHANGED <<decisions, stored, pulled>>
  BY DEF LosePower
<1>3. /\ synced \in Nat /\ synced <= Len(approvals) /\ IsSeq(approvals) /\ Len(approvals) \in Nat
      /\ LinesOK(approvals, decisions)
  BY SeqShape DEF DatasetInv, StoredInv, LinesOK
<1>4. n \in 0 .. Len(approvals) /\ n \in Nat /\ n <= n /\ \A i \in 1 .. synced : i \in 1 .. n
  BY <1>1, <1>3
<1>5. Len(approvals') = n /\ \A i \in 1 .. n : approvals'[i] = approvals[i]
  BY <1>1, <1>3, <1>4, PrefixShape
<1>6. LinesOK(approvals', decisions)
  BY <1>1, <1>3, <1>4, LinesCut
<1>7. StoreInv'
  BY <1>1, OpenedKnows DEF StoreInv
<1>8. StoredInv'
  BY <1>1, <1>2, <1>4, <1>5 DEF DatasetInv, StoredInv
<1>9. PulledInv'
  BY <1>2 DEF DatasetInv, PulledInv
<1> QED BY <1>2, <1>6, <1>7, <1>8, <1>9, RestartForgets DEF DatasetInv

LEMMA PullKeeps ==
  ASSUME DatasetInv, PullFirst \/ PullSecond
  PROVE  DatasetInv'
<1>1. UNCHANGED <<decisions, approvals, torn, synced, store, post, stored>>
  BY DEF PullFirst, PullSecond
<1>2. StoreInv' /\ PostsInv' /\ StoredInv'
  BY <1>1 DEF DatasetInv, StoreInv, PostsInv, StoredInv
<1>3. CASE PullFirst
  <2>1. pulled' = [step |-> "half", first |-> [lines |-> approvals, torn |-> torn]]
    BY <1>3 DEF PullFirst
  <2>2. /\ pulled'.step = "half" /\ "lines" \in DOMAIN pulled'.first
        /\ pulled'.first.lines = approvals
    BY <2>1
  <2>3. PulledInv'
    BY <1>1, <2>2 DEF DatasetInv, PulledInv
  <2> QED BY <1>1, <1>2, <2>3 DEF DatasetInv
<1>4. CASE PullSecond
  <2>1. "lines" \in DOMAIN pulled.first /\ LinesOK(pulled.first.lines, decisions)
    BY <1>4 DEF PullSecond, DatasetInv, PulledInv
  <2>2. pulled' = [step |-> "done", approvals |-> pulled.first, chain |-> Export(decisions)]
    BY <1>4, <2>1 DEF PullSecond
  <2>3. /\ pulled'.step = "done" /\ pulled'.chain = Export(decisions)
        /\ pulled'.approvals.lines = pulled.first.lines
    BY <2>2
  <2>4. \E D : /\ IsSeq(D) /\ pulled'.chain = Export(D)
               /\ LinesOK(pulled'.approvals.lines, D)
    BY <2>1, <2>3 DEF DatasetInv
  <2>5. PulledInv'
    BY <2>3, <2>4 DEF PulledInv
  <2> QED BY <1>1, <1>2, <2>5 DEF DatasetInv
<1> QED BY <1>3, <1>4

LEMMA DatasetStep ==
  ASSUME DatasetInv, [DatasetNext]_datasetVars
  PROVE  DatasetInv'
<1>1. CASE UNCHANGED datasetVars
  BY <1>1 DEF datasetVars, DatasetInv, StoreInv, PostsInv, StoredInv, PulledInv
<1> QED BY <1>1, AppendRecordKeeps, StartPostKeeps, RefuseKeeps, StoreKeeps, FailKeeps,
           ReopenKeeps, PowerLossKeeps, PullKeeps DEF DatasetNext

(* What the invariant says of an export that is done.                      *)
LEMMA PulledBinds ==
  ASSUME DatasetInv, pulled.step = "done", ~pulled.approvals.torn
  PROVE  datasetVerdict(pulled.approvals, pulled.chain)
<1>1. PICK D : IsSeq(D) /\ pulled.chain = Export(D) /\ LinesOK(pulled.approvals.lines, D)
  BY DEF DatasetInv, PulledInv
<1> DEFINE lines == pulled.approvals.lines
           e == pulled.chain
<1>2. /\ DOMAIN e.receipts = DOMAIN D
      /\ \A i \in DOMAIN D : e.receipts[i] = Receipt(D, i) /\ e.records[i] = RecordLine(D, i)
      /\ PrefixOK(e) /\ Complete(e)
  BY <1>1, ExportVerifies
<1> HIDE DEF e
<1>3. ASSUME NEW i \in DOMAIN lines
      PROVE  /\ lines[i].seq \in DOMAIN e.receipts
             /\ Validate(lines[i], e.receipts[lines[i].seq], e.records[lines[i].seq].record)
  <2> DEFINE s == lines[i].seq
  <2>1. s \in DOMAIN D /\ Validate(lines[i], Receipt(D, s), D[s])
    BY <1>1 DEF LinesOK, Binds
  <2>2. RecordLine(D, s).record = D[s]
    BY DEF RecordLine
  <2>3. e.receipts[s] = Receipt(D, s) /\ e.records[s].record = D[s]
    BY <1>2, <2>1, <2>2
  <2> QED BY <1>2, <2>1, <2>3
<1>4. \A i, j \in DOMAIN lines : lines[i].seq = lines[j].seq => i = j
  BY <1>1 DEF LinesOK
<1>5. Bound(lines, e)
  BY <1>3, <1>4 DEF Bound
<1> QED BY <1>2, <1>5 DEF datasetVerdict, completenessVerdict, e

(* For every chain, any number of racing POST /v1/approvals requests, and  *)
(* whatever writes fail, restarts or power losses come between: the file   *)
(* has one example per decision, an example answered 200 stays, and a      *)
(* dataset export taken in the middle verifies.                            *)
THEOREM DatasetSound == DatasetSpec => []DatasetIsSound
<1>1. ASSUME DatasetInv PROVE OneExamplePerDecision
  <2>1. ASSUME NEW i \in DOMAIN approvals
        PROVE  /\ approvals[i].seq \in DOMAIN decisions
               /\ decisions[approvals[i].seq].approval.id = approvals[i].id
               /\ \A c \in {approvals[i].content} \cup {d.edited : d \in approvals[i].editDiff} :
                    c.shown \in Sensitive => approvals[i].mode = "full"
    <3>1. Binds(approvals[i], decisions)
      BY <1>1 DEF DatasetInv, LinesOK
    <3> QED BY <3>1 DEF Binds, Validate
  <2>2. \A i, j \in DOMAIN approvals :
          approvals[i].seq = approvals[j].seq \/ approvals[i].id = approvals[j].id => i = j
    BY <1>1 DEF DatasetInv, LinesOK
  <2> QED BY <2>1, <2>2 DEF OneExamplePerDecision
<1>2. ASSUME DatasetInv PROVE StoredSurvives
  <2>1. DOMAIN approvals = 1 .. Len(approvals) /\ Len(approvals) \in Nat
    BY <1>2, SeqShape DEF DatasetInv, LinesOK
  <2>2. synced \in Nat /\ synced <= Len(approvals)
    BY <1>2 DEF DatasetInv, StoredInv
  <2>3. ASSUME NEW ex \in stored PROVE \E i \in DOMAIN approvals : approvals[i] = ex
    <3>1. PICK i \in 1 .. synced : approvals[i] = ex
      BY <1>2 DEF DatasetInv, StoredInv
    <3>2. i \in DOMAIN approvals
      BY <2>1, <2>2
    <3> QED BY <3>1, <3>2
  <2> QED BY <2>3 DEF StoredSurvives, Range
<1>3. ASSUME DatasetInv PROVE ExportBinds
  BY <1>3, PulledBinds DEF ExportBinds
<1>4. DatasetInv => DatasetIsSound
  BY <1>1, <1>2, <1>3 DEF DatasetIsSound
<1> QED BY <1>4, DatasetInitially, DatasetStep, PTL DEF DatasetSpec

(* A manifest pins the whole chain: an export that verifies against the    *)
(* manifest of chain D holds the receipts of D and one record for each.    *)
LEMMA WholeExport ==
  ASSUME NEW D, IsSeq(D), NEW e, IsSeq(e.receipts), IsSeq(e.records), PrefixOK(e),
         e.manifest = Export(D).manifest
  PROVE  /\ e.receipts = Export(D).receipts
         /\ ToSet(e.records) = ToSet(Export(D).records)
         /\ Len(e.records) = Len(e.receipts)
<1> DEFINE n == Len(D)
           m == Len(e.records)
           x == Export(D)
<1>0. /\ n \in Nat /\ DOMAIN D = 1 .. n
      /\ m \in Nat /\ DOMAIN e.records = 1 .. m /\ DOMAIN e.receipts = 1 .. Len(e.receipts)
  BY SeqShape
<1>1. /\ x.receipts = [i \in DOMAIN D |-> Receipt(D, i)]
      /\ x.records = [i \in DOMAIN D |-> RecordLine(D, i)]
      /\ e.manifest = {[head |-> n, hash |-> D]}
  BY DEF Export
<1> HIDE DEF x
<1>2. n = Len(e.receipts) /\ D = chainOf(e.receipts)
  <2>1. {[head |-> n, hash |-> D]} \subseteq
          {[head |-> Len(e.receipts), hash |-> chainOf(e.receipts)]}
    BY <1>1 DEF PrefixOK, VerifyBundle
  <2>2. [head |-> n, hash |-> D] = [head |-> Len(e.receipts), hash |-> chainOf(e.receipts)]
    BY <2>1
  <2> QED BY <2>2
<1>3. DOMAIN e.receipts = 1 .. n /\ \A i \in 1 .. n : e.receipts[i] = Receipt(D, i)
  BY <1>0, <1>2 DEF PrefixOK, VerifyBundle
<1>4. e.receipts = x.receipts
  <2>1. PICK S : e.receipts \in Seq(S)
    BY DEF IsSeq
  <2>2. e.receipts = [i \in 1 .. n |-> e.receipts[i]]
    BY <1>3, <2>1
  <2> QED BY <1>0, <1>1, <1>3, <2>2
<1>5. \A i \in 1 .. n : e.receipts[i].seq = i /\ e.receipts[i].fields.params = D[i]
  <2>1. ASSUME NEW i PROVE Receipt(D, i).seq = i /\ Receipt(D, i).fields.params = D[i]
    BY DEF Receipt, Fields
  <2> QED BY <1>3, <2>1
<1>6. ASSUME NEW i \in 1 .. n
      PROVE  \E j \in 1 .. m : e.records[j] = RecordLine(D, i) /\ e.records[j].seq = i
  <2>1. PICK j \in DOMAIN e.records :
          e.records[j] = [seq |-> e.receipts[i].seq, record |-> e.receipts[i].fields.params]
    BY <1>3 DEF PrefixOK, VerifyRecords
  <2>2. e.records[j] = [seq |-> i, record |-> D[i]]
    BY <1>5, <2>1
  <2> QED BY <1>0, <2>2 DEF RecordLine
<1>7. ASSUME NEW j \in 1 .. m
      PROVE  \E i \in 1 .. n : e.records[j] = RecordLine(D, i) /\ e.records[j].seq = i
  <2>1. PICK i \in 1 .. n : e.receipts[i].seq = e.records[j].seq
    BY <1>0, <1>3 DEF PrefixOK, VerifyRecords
  <2>2. PICK k \in 1 .. m : e.records[k] = RecordLine(D, i) /\ e.records[k].seq = i
    BY <1>6
  <2>3. e.records[j].seq = e.records[k].seq
    BY <1>5, <2>1, <2>2
  <2>4. j = k
    BY <1>0, <2>3 DEF PrefixOK, VerifyRecords
  <2> QED BY <2>2, <2>4
<1>8. ToSet(e.records) = ToSet(x.records)
  <2>1. ToSet(e.records) = {e.records[j] : j \in 1 .. m}
    BY <1>0 DEF ToSet
  <2>2. ToSet(x.records) = {RecordLine(D, i) : i \in 1 .. n}
    BY <1>0, <1>1 DEF ToSet
  <2>3. ASSUME NEW r \in ToSet(e.records) PROVE r \in ToSet(x.records)
    <3>1. PICK j \in 1 .. m : r = e.records[j]
      BY <2>1
    <3>2. PICK i \in 1 .. n : r = RecordLine(D, i)
      BY <1>7, <3>1
    <3> QED BY <2>2, <3>2
  <2>4. ASSUME NEW r \in ToSet(x.records) PROVE r \in ToSet(e.records)
    <3>1. PICK i \in 1 .. n : r = RecordLine(D, i)
      BY <2>2
    <3>2. PICK j \in 1 .. m : r = e.records[j]
      BY <1>6, <3>1
    <3> QED BY <2>1, <3>2
  <2> QED BY <2>3, <2>4
<1>9. m = n
  <2> DEFINE f == [j \in 1 .. m |-> e.records[j].seq]
  <2>1. f \in [1 .. m -> 1 .. n]
    BY <1>7
  <2>2. \A a, b \in DOMAIN f : f[a] = f[b] => a = b
    BY <1>0 DEF PrefixOK, VerifyRecords
  <2>3. \A i \in 1 .. n : \E j \in DOMAIN f : f[j] = i
    BY <1>6
  <2> HIDE DEF f
  <2>4. f \in Injection(1 .. m, 1 .. n) /\ f \in Surjection(1 .. m, 1 .. n)
    BY <2>1, <2>2, <2>3 DEF Injection, IsInjective, Surjection
  <2>5. /\ IsFiniteSet(1 .. m) /\ Cardinality(1 .. m) = m
        /\ IsFiniteSet(1 .. n) /\ Cardinality(1 .. n) = n
    <3>1. ASSUME NEW k \in Nat PROVE IsFiniteSet(1 .. k) /\ Cardinality(1 .. k) = k
      BY FS_Interval
    <3> QED BY <1>0, <3>1
  <2>6. Cardinality(1 .. n) = Cardinality(1 .. m)
    BY <2>4, <2>5, FS_Surjection
  <2> QED BY <2>5, <2>6
<1> QED BY <1>2, <1>4, <1>8, <1>9 DEF x

(* What a presented export is made of.                                     *)
IsExport(e, manifests) ==
  IsSeq(e.receipts) /\ IsSeq(e.records) /\ e.manifest \in manifests

LEMMA PresentedShape ==
  ASSUME NEW D, IsSeq(D), NEW q \in Presented(Export(D))
  PROVE  IsExport(q, {{}, Export(D).manifest})
<1> DEFINE e == Export(D)
           M == {{}, e.manifest}
           R == Range(e.records)
           C == {StripToPrefix(e, n) : n \in 0 .. Len(e.receipts)}
           withManifest == {[c EXCEPT !.manifest = e.manifest] : c \in C}
           fewer == {[e EXCEPT !.records = SubSeq(@, 1, n)] : n \in 0 .. Len(e.records)}
           repeated == {[e EXCEPT !.records = Append(@, l)] : l \in R}
           added == {[e EXCEPT !.records = Append(@, [l EXCEPT !.seq = Len(e.records) + 1])] : l \in R}
           replaced == {[e EXCEPT !.records[i].record = l.record] : i \in DOMAIN e.records, l \in R}
           headless == {[e EXCEPT !.receipts = SubSeq(@, 2, Len(@)), !.records = SubSeq(@, 2, Len(@))]}
<1>1. /\ DOMAIN e = {"receipts", "records", "manifest"}
  BY DEF Export
<1>2. /\ IsSeq(e.receipts) /\ IsSeq(e.records) /\ Len(D) \in Nat
      /\ Len(e.receipts) = Len(D) /\ Len(e.records) = Len(D)
  BY ExportVerifies, SeqShape
<1> HIDE DEF e
<1>3. q \in C \cup withManifest \cup fewer \cup repeated \cup added \cup replaced \cup headless
  <2>1. q \in Presented(e)
    BY DEF e
  <2>2. Presented(e) =
          C \cup withManifest \cup fewer \cup repeated \cup added \cup replaced \cup headless
    BY SMT DEF Presented
  <2> HIDE DEF C, R, withManifest, fewer, repeated, added, replaced, headless
  <2> QED BY <2>1, <2>2
<1>4. ASSUME NEW c \in C
      PROVE  /\ DOMAIN c = {"receipts", "records", "manifest"} /\ c.manifest = {}
             /\ IsSeq(c.receipts) /\ IsSeq(c.records)
  <2>1. PICK n \in 0 .. Len(e.receipts) : c = StripToPrefix(e, n)
    OBVIOUS
  <2>2. Len(e.receipts) - n \in 0 .. Len(e.receipts) /\ Len(e.records) - n \in 0 .. Len(e.records)
    BY <1>2
  <2>3. /\ c.receipts = SubSeq(e.receipts, 1, Len(e.receipts) - n) /\ c.manifest = {}
        /\ c.records = SubSeq(e.records, 1, Len(e.records) - n)
        /\ DOMAIN c = {"receipts", "records", "manifest"}
    BY <2>1 DEF StripToPrefix
  <2> QED BY <1>2, <2>2, <2>3, PrefixShape
<1>5. CASE q \in C
  BY <1>4, <1>5 DEF IsExport, e
<1>6. CASE q \in withManifest
  <2>1. PICK c \in C : q = [c EXCEPT !.manifest = e.manifest]
    BY <1>6
  <2>2. q.receipts = c.receipts /\ q.records = c.records /\ q.manifest = e.manifest
    BY <1>4, <2>1
  <2> QED BY <1>4, <2>2 DEF IsExport, e
(* The other cases keep the manifest.                                      *)
<1>7. ASSUME NEW s, IsSeq(s), q = [e EXCEPT !.records = s]
      PROVE  IsExport(q, M)
  <2>1. q.receipts = e.receipts /\ q.records = s /\ q.manifest = e.manifest
    BY <1>1, <1>7
  <2> QED BY <1>2, <1>7, <2>1 DEF IsExport
<1>8. CASE q \in fewer
  <2>1. PICK n \in 0 .. Len(e.records) : q = [e EXCEPT !.records = SubSeq(e.records, 1, n)]
    BY <1>8
  <2>2. IsSeq(SubSeq(e.records, 1, n))
    BY <1>2, PrefixShape
  <2> QED BY <1>7, <2>1, <2>2 DEF e
<1>9. CASE q \in repeated \cup added
  <2>1. PICK y : q = [e EXCEPT !.records = Append(e.records, y)]
    BY <1>9
  <2>2. IsSeq(Append(e.records, y))
    BY <1>2, AppendShape
  <2> QED BY <1>7, <2>1, <2>2 DEF e
<1>10. CASE q \in replaced
  <2>1. PICK i \in DOMAIN e.records, l \in R : q = [e EXCEPT !.records[i].record = l.record]
    BY <1>10
  <2> DEFINE y == [e.records[i] EXCEPT !.record = l.record]
  <2>2. q = [e EXCEPT !.records = [e.records EXCEPT ![i] = y]]
    BY <2>1
  <2> HIDE DEF y
  <2>3. IsSeq([e.records EXCEPT ![i] = y])
    BY <1>2, ReplaceShape
  <2> QED BY <1>7, <2>2, <2>3 DEF e
<1>11. CASE q \in headless
  <2>1. /\ q.receipts = SubSeq(e.receipts, 2, Len(e.receipts)) /\ q.manifest = e.manifest
        /\ q.records = SubSeq(e.records, 2, Len(e.records))
    BY <1>1, <1>11
  <2> QED BY <1>2, <2>1, TailShape DEF IsExport, e
<1> HIDE DEF C, R, withManifest, fewer, repeated, added, replaced, headless
<1> QED BY <1>3, <1>5, <1>6, <1>8, <1>9, <1>10, <1>11

(* For every chain and however an export of it is cut short, or a record   *)
(* of it dropped, repeated or replaced: agentctl receipts verify passes    *)
(* without --allow-prefix only for the whole chain, a record per receipt.  *)
THEOREM VerdictWhole == DatasetSpec => []VerdictMeansWhole
<1>1. ASSUME DatasetInv PROVE VerdictMeansWhole
  <2> SUFFICES ASSUME pulled.step = "done", NEW e \in Presented(pulled.chain),
                      completenessVerdict(PrefixOK(e), Complete(e), FALSE)
               PROVE  /\ e.receipts = pulled.chain.receipts
                      /\ ToSet(e.records) = ToSet(pulled.chain.records)
                      /\ Len(e.records) = Len(e.receipts)
    BY DEF VerdictMeansWhole
  <2>1. PICK D : IsSeq(D) /\ pulled.chain = Export(D)
    BY <1>1 DEF DatasetInv, PulledInv
  <2>2. PrefixOK(e) /\ e.manifest # {}
    BY DEF completenessVerdict, Complete
  <2>3. IsExport(e, {{}, Export(D).manifest})
    BY <2>1, PresentedShape
  <2>4. IsSeq(e.receipts) /\ IsSeq(e.records) /\ e.manifest = Export(D).manifest
    BY <2>2, <2>3 DEF IsExport
  <2> QED BY <2>1, <2>2, <2>4, WholeExport
<1> QED BY <1>1, DatasetInitially, DatasetStep, PTL DEF DatasetSpec

-----------------------------------------------------------------------------
(*                           SandboxAdmission                              *)
(*                                                                         *)
(* What a request has read was true at some moment after it began, and     *)
(* what the cache holds at most a timeout before it was stored, whichever  *)
(* of two overlapping checks stores last.  A moment at which something was *)
(* true only moves forward.                                                *)

(* The behaviours of the sandbox webhook.                                  *)
SandboxSpec == SandboxInit /\ [][SandboxNext]_sandboxVars

(* The last moments of h, all up to t.                                     *)
Moments(h, t) ==
  /\ h.class \in Int /\ h.node \in Int /\ h.lack \in Int
  /\ h.class <= t /\ h.node <= t /\ h.lack <= t

(* The result ready was right at some moment from s on.                    *)
Since(ready, h, s) ==
  IF ready THEN h.class >= s /\ h.node >= s ELSE h.lack >= s

(* What request q has found so far, at time t.                             *)
Found(q, h, t) ==
  /\ DOMAIN q = {"step", "own", "ready", "began", "answer"}
  /\ q.began \in Nat /\ q.began <= t /\ q.ready \in BOOLEAN
  /\ q.step \in {"handle", "nodes"} => ~q.ready
  /\ q.step = "nodes" => h.class >= q.began
  /\ q.step = "store" => Since(q.ready, h, q.began)

CacheFound(r, h) ==
  r.ready \in BOOLEAN /\ r.at \in Nat /\ (r.valid => Since(r.ready, h, r.at - WebhookTimeout))

SandboxInv ==
  /\ sandboxClock \in Nat /\ evidence \in [class : BOOLEAN, node : BOOLEAN]
  /\ Moments(heldLast, sandboxClock)
  /\ DOMAIN admit = Admissions
  /\ \A p \in Admissions : Found(admit[p], heldUntilNow, sandboxClock)
  /\ CacheFound(readiness, heldUntilNow)

(* What held is now.                                                       *)
LEMMA HeldNow ==
  ASSUME SandboxInv
  PROVE  /\ heldUntilNow.class = IF evidence.class THEN sandboxClock ELSE heldLast.class
         /\ heldUntilNow.node = IF evidence.node THEN sandboxClock ELSE heldLast.node
         /\ heldUntilNow.lack = IF evidence.class /\ evidence.node THEN heldLast.lack
                                                                  ELSE sandboxClock
         /\ Moments(heldUntilNow, sandboxClock)
<1>1. /\ DOMAIN held = {"class", "node", "lack"} /\ held["class"] = evidence.class
      /\ held["node"] = evidence.node /\ held["lack"] = (~evidence.class \/ ~evidence.node)
  BY DEF held
<1>2. /\ heldUntilNow.class = IF evidence.class THEN sandboxClock ELSE heldLast.class
      /\ heldUntilNow.node = IF evidence.node THEN sandboxClock ELSE heldLast.node
      /\ heldUntilNow.lack = IF ~evidence.class \/ ~evidence.node THEN sandboxClock
                                                                  ELSE heldLast.lack
  BY <1>1 DEF heldUntilNow
<1>3. evidence.class \in BOOLEAN /\ evidence.node \in BOOLEAN /\ sandboxClock \in Nat
  BY DEF SandboxInv
<1> QED BY <1>2, <1>3 DEF SandboxInv, Moments

LEMMA FoundLater ==
  ASSUME NEW q, NEW g, NEW h, NEW t \in Nat, NEW u \in Nat, Found(q, g, t), t <= u,
         Moments(g, t), Moments(h, u),
         g.class <= h.class, g.node <= h.node, g.lack <= h.lack
  PROVE  Found(q, h, u)
  BY DEF Found, Since, Moments

LEMMA CacheLater ==
  ASSUME NEW r, NEW g, NEW h, NEW t \in Nat, NEW u \in Nat, CacheFound(r, g),
         Moments(g, t), Moments(h, u),
         g.class <= h.class, g.node <= h.node, g.lack <= h.lack
  PROVE  CacheFound(r, h)
<1>1. WebhookTimeout \in Nat
  BY SandboxAssumption
<1> QED BY <1>1 DEF CacheFound, Since, Moments

LEMMA SandboxInitially == SandboxInit => SandboxInv
<1> SUFFICES ASSUME SandboxInit PROVE SandboxInv
  OBVIOUS
<1>1. sandboxClock = 0 /\ evidence \in [class : BOOLEAN, node : BOOLEAN]
  BY DEF SandboxInit
<1>2. Window \in Nat
  BY SandboxAssumption DEF Window
<1>3. Moments(heldLast, sandboxClock)
  <2>1. /\ heldLast.class = 0 - Window /\ heldLast.node = 0 - Window
        /\ heldLast.lack = 0 - Window
    BY DEF SandboxInit
  <2> QED BY <1>1, <1>2, <2>1 DEF Moments
<1>4. ASSUME NEW p \in Admissions PROVE Found(admit[p], heldUntilNow, sandboxClock)
  <2>1. admit[p] = NoAdmission
    BY DEF SandboxInit
  <2>2. /\ DOMAIN NoAdmission = {"step", "own", "ready", "began", "answer"}
        /\ NoAdmission.step = "idle" /\ NoAdmission.ready \in BOOLEAN /\ NoAdmission.began = 0
    BY DEF NoAdmission
  <2>3. NoAdmission.step \notin {"handle", "nodes", "store"}
    BY <2>2
  <2> QED BY <1>1, <2>1, <2>2, <2>3 DEF Found
<1>5. CacheFound(readiness, heldUntilNow)
  BY DEF SandboxInit, NotChecked, CacheFound
<1> QED BY <1>1, <1>3, <1>4, <1>5 DEF SandboxInit, SandboxInv

(* A step of request p that leaves the cluster and the clock alone.        *)
LEMMA AdmitStep ==
  ASSUME SandboxInv, NEW p \in Admissions, NEW q, admit' = [admit EXCEPT ![p] = q],
         UNCHANGED <<evidence, heldLast, sandboxClock>>,
         Found(q, heldUntilNow, sandboxClock), CacheFound(readiness', heldUntilNow)
  PROVE  SandboxInv'
<1>1. heldUntilNow' = heldUntilNow
  BY DEF heldUntilNow, held
<1>2. \A r \in Admissions : admit'[r] = IF r = p THEN q ELSE admit[r]
  BY DEF SandboxInv
<1>3. \A r \in Admissions : Found(admit'[r], heldUntilNow, sandboxClock)
  BY <1>2 DEF SandboxInv
<1> QED BY <1>1, <1>3 DEF SandboxInv

(* An answered request has found nothing yet.                              *)
LEMMA AnswerStep ==
  ASSUME SandboxInv, NEW p \in Admissions, NEW a, AnswerAdmission(p, a),
         UNCHANGED <<evidence, heldLast, sandboxClock>>, CacheFound(readiness', heldUntilNow)
  PROVE  SandboxInv'
<1> DEFINE q == [NoAdmission EXCEPT !.answer = a]
<1>1. /\ DOMAIN q = {"step", "own", "ready", "began", "answer"} /\ q.step = "idle"
      /\ q.ready \in BOOLEAN /\ q.began = 0
  BY DEF NoAdmission
<1>2. admit' = [admit EXCEPT ![p] = q]
  BY DEF AnswerAdmission
<1> HIDE DEF q
<1>3. Found(q, heldUntilNow, sandboxClock)
  <2>1. q.step \notin {"handle", "nodes", "store"}
    BY <1>1
  <2>2. 0 \in Nat /\ 0 <= sandboxClock
    BY DEF SandboxInv
  <2> QED BY <1>1, <2>1, <2>2 DEF Found
<1> QED BY <1>2, <1>3, AdmitStep

(* A step of the cluster or the clock, with every moment kept.             *)
LEMMA ClusterMoves ==
  ASSUME SandboxInv, NodesChange \/ SandboxTick
  PROVE  SandboxInv'
<1> DEFINE g == heldUntilNow
<1>1. /\ heldLast' = g /\ UNCHANGED <<readiness, admit>>
      /\ evidence' \in [class : BOOLEAN, node : BOOLEAN]
      /\ sandboxClock' \in Nat /\ sandboxClock <= sandboxClock' /\ sandboxClock \in Nat
  BY DEF SandboxInv, NodesChange, SandboxTick
<1>2. Moments(g, sandboxClock)
  BY HeldNow
<1>3. /\ held'["class"] = evidence'.class /\ held'["node"] = evidence'.node
      /\ held'["lack"] = (~evidence'.class \/ ~evidence'.node)
      /\ DOMAIN held' = {"class", "node", "lack"}
  BY DEF held
<1> DEFINE h == heldUntilNow'
<1>4. h = [k \in DOMAIN held' |-> IF held'[k] THEN sandboxClock' ELSE heldLast'[k]]
  BY DEF heldUntilNow
<1> HIDE DEF g, h
<1>5. /\ h.class = IF evidence'.class THEN sandboxClock' ELSE g.class
      /\ h.node = IF evidence'.node THEN sandboxClock' ELSE g.node
      /\ h.lack = IF ~evidence'.class \/ ~evidence'.node THEN sandboxClock' ELSE g.lack
  BY <1>1, <1>3, <1>4
<1>6. evidence'.class \in BOOLEAN /\ evidence'.node \in BOOLEAN
  BY <1>1
<1>7. /\ Moments(g, sandboxClock') /\ Moments(h, sandboxClock')
      /\ g.class <= h.class /\ g.node <= h.node /\ g.lack <= h.lack
  BY <1>1, <1>2, <1>5, <1>6 DEF Moments
<1>8. \A p \in Admissions : Found(admit[p], h, sandboxClock')
  BY <1>1, <1>2, <1>7, FoundLater DEF SandboxInv, g
<1>9. CacheFound(readiness, h)
  BY <1>1, <1>2, <1>7, CacheLater DEF SandboxInv, g
<1> QED BY <1>1, <1>7, <1>8, <1>9 DEF SandboxInv, h

LEMMA SandboxStep ==
  ASSUME SandboxInv, [SandboxNext]_sandboxVars
  PROVE  SandboxInv'
<1>0. /\ sandboxClock \in Nat /\ WebhookTimeout \in Nat /\ CacheFound(readiness, heldUntilNow)
      /\ Moments(heldUntilNow, sandboxClock)
      /\ evidence.class \in BOOLEAN /\ evidence.node \in BOOLEAN
  BY SandboxAssumption, HeldNow DEF SandboxInv
<1>1. ASSUME NEW p \in Admissions, AdmitPod(p) PROVE SandboxInv'
  <2>1. PICK own \in BOOLEAN : admit' = [admit EXCEPT ![p] =
          [NoAdmission EXCEPT !.step = "handle", !.own = own, !.began = sandboxClock]]
    BY <1>1 DEF AdmitPod
  <2> DEFINE q == [NoAdmission EXCEPT !.step = "handle", !.own = own, !.began = sandboxClock]
  <2>2. /\ DOMAIN q = {"step", "own", "ready", "began", "answer"} /\ q.step = "handle"
        /\ ~q.ready /\ q.ready \in BOOLEAN /\ q.began = sandboxClock
    BY DEF NoAdmission
  <2> HIDE DEF q
  <2>3. Found(q, heldUntilNow, sandboxClock)
    <3>1. sandboxClock <= sandboxClock /\ q.step \notin {"nodes", "store"}
      BY <1>0, <2>2
    <3> QED BY <1>0, <2>2, <3>1 DEF Found
  <2>4. admit' = [admit EXCEPT ![p] = q]
    BY <2>1 DEF q
  <2> QED BY <1>0, <1>1, <2>3, <2>4, AdmitStep DEF AdmitPod
<1>2. ASSUME NEW p \in Admissions,
             SkipInjection(p) \/ UseCached(p) \/ CheckFails(p) \/ AdmissionTimesOut(p)
      PROVE  SandboxInv'
  <2>1. PICK a : AnswerAdmission(p, a)
    BY <1>2 DEF SkipInjection, UseCached, CheckFails, AdmissionTimesOut, respond
  <2>2. UNCHANGED <<evidence, heldLast, sandboxClock, readiness>>
    BY <1>2 DEF SkipInjection, UseCached, CheckFails, AdmissionTimesOut
  <2> QED BY <1>0, <2>1, <2>2, AnswerStep
<1>3. ASSUME NEW p \in Admissions, ReadRuntimeClass(p) PROVE SandboxInv'
  <2> DEFINE q == [admit[p] EXCEPT !.step = IF evidence.class THEN "nodes" ELSE "store"]
  <2>1. Found(admit[p], heldUntilNow, sandboxClock) /\ admit[p].step = "handle"
    BY <1>3 DEF SandboxInv, ReadRuntimeClass
  <2>2. /\ DOMAIN q = {"step", "own", "ready", "began", "answer"}
        /\ q.step = IF evidence.class THEN "nodes" ELSE "store"
        /\ q.ready = admit[p].ready /\ q.began = admit[p].began
    BY <2>1 DEF Found
  <2>3. admit' = [admit EXCEPT ![p] = q]
    BY <1>3 DEF ReadRuntimeClass
  <2> HIDE DEF q
  <2>4. /\ q.began \in Nat /\ q.began <= sandboxClock /\ q.ready \in BOOLEAN /\ ~q.ready
        /\ q.step = "nodes" => heldUntilNow.class >= q.began
        /\ q.step = "store" => heldUntilNow.lack >= q.began
    BY <1>0, <2>1, <2>2, HeldNow DEF Found, Moments
  <2>5. Found(q, heldUntilNow, sandboxClock)
    BY <2>2, <2>4 DEF Found, Since
  <2> QED BY <1>0, <1>3, <2>3, <2>5, AdmitStep DEF ReadRuntimeClass
<1>4. ASSUME NEW p \in Admissions, ReadNodes(p) PROVE SandboxInv'
  <2> DEFINE q == [admit[p] EXCEPT !.step = "store", !.ready = evidence.node]
  <2>1. Found(admit[p], heldUntilNow, sandboxClock) /\ admit[p].step = "nodes"
    BY <1>4 DEF SandboxInv, ReadNodes
  <2>2. /\ DOMAIN q = {"step", "own", "ready", "began", "answer"} /\ q.step = "store"
        /\ q.ready = evidence.node /\ q.began = admit[p].began
    BY <2>1 DEF Found
  <2>3. admit' = [admit EXCEPT ![p] = q]
    BY <1>4 DEF ReadNodes, SandboxInv
  <2> HIDE DEF q
  <2>4. /\ q.began \in Nat /\ q.began <= sandboxClock /\ q.ready \in BOOLEAN
        /\ heldUntilNow.class >= q.began
        /\ q.ready => heldUntilNow.node >= q.began
        /\ ~q.ready => heldUntilNow.lack >= q.began
    BY <1>0, <2>1, <2>2, HeldNow DEF Found, Moments
  <2>5. Found(q, heldUntilNow, sandboxClock)
    BY <2>2, <2>4 DEF Found, Since
  <2> QED BY <1>0, <1>4, <2>3, <2>5, AdmitStep DEF ReadNodes
<1>5. ASSUME NEW p \in Admissions, StoreReadiness(p) PROVE SandboxInv'
  <2>1. /\ admit[p].step = "store" /\ sandboxClock - admit[p].began <= WebhookTimeout
        /\ Found(admit[p], heldUntilNow, sandboxClock)
    BY <1>5 DEF StoreReadiness, SandboxInv, inTime
  <2>2. /\ readiness'.ready = admit[p].ready /\ readiness'.at = sandboxClock
        /\ UNCHANGED <<evidence, heldLast, sandboxClock>>
    BY <1>5 DEF StoreReadiness
  <2>3. Since(admit[p].ready, heldUntilNow, sandboxClock - WebhookTimeout)
    BY <1>0, <2>1 DEF Found, Since, Moments
  <2>4. CacheFound(readiness', heldUntilNow)
    BY <1>0, <2>1, <2>2, <2>3 DEF CacheFound, Found
  <2>5. PICK a : AnswerAdmission(p, a)
    BY <1>5 DEF StoreReadiness, respond
  <2> QED BY <2>2, <2>4, <2>5, AnswerStep
<1>6. CASE UNCHANGED sandboxVars
  <2>1. heldUntilNow' = heldUntilNow
    BY <1>6 DEF sandboxVars, heldUntilNow, held
  <2> QED BY <1>6, <2>1 DEF sandboxVars, SandboxInv
<1> QED BY <1>1, <1>2, <1>3, <1>4, <1>5, <1>6, ClusterMoves DEF SandboxNext

(* The answer of a step.                                                   *)
LEMMA Answered ==
  ASSUME SandboxInv, NEW p \in Admissions, NEW a, AnswerAdmission(p, a)
  PROVE  admit'[p].answer = a /\ \A r \in Admissions \ {p} : admit'[r] = admit[r]
<1>1. [NoAdmission EXCEPT !.answer = a].answer = a
  BY DEF NoAdmission
<1> QED BY <1>1 DEF AnswerAdmission, SandboxInv

(* For every cache lifetime and webhook timeout, any number of overlapping *)
(* admissions and however the cluster changes, Handle injects the sandbox  *)
(* only if class and node were there, and answers that they were not only  *)
(* if they were not, within that lifetime and timeout.                     *)
THEOREM ReadinessRecent == SandboxSpec => ReadinessIsRecent
<1> DEFINE Recent(k) == heldUntilNow[k] > sandboxClock - Window
           Honest(p) == admit[p].step # "idle" /\ admit'[p].step = "idle" =>
             /\ admit'[p].answer.why = "injected" => Recent("class") /\ Recent("node")
             /\ admit'[p].answer.why = "unready" => Recent("lack")
<1>1. ASSUME SandboxInv, [SandboxNext]_sandboxVars, NEW p \in Admissions PROVE Honest(p)
  <2>0. /\ sandboxClock \in Nat /\ WebhookTimeout \in Nat /\ Moments(heldUntilNow, sandboxClock)
        /\ ReadinessTTL \in Nat /\ ReadinessTTL # 0 /\ Window = ReadinessTTL + WebhookTimeout
    BY <1>1, SandboxAssumption, HeldNow DEF SandboxInv, Window
  <2>1. ASSUME NEW s \in Int, NEW ready \in BOOLEAN, s > sandboxClock - Window,
               Since(ready, heldUntilNow, s), NEW r \in Admissions, respond(r, ready)
        PROVE  Honest(p)
    <3> DEFINE a == IF ready THEN [allowed |-> TRUE, why |-> "injected"]
                             ELSE readinessFailureResponse("unready")
    <3>1. a.why = IF ready THEN "injected" ELSE "unready"
      BY DEF readinessFailureResponse
    <3>2. AnswerAdmission(r, a)
      BY <2>1 DEF respond
    <3> HIDE DEF a
    <3>3. admit'[r].answer = a /\ \A x \in Admissions \ {r} : admit'[x] = admit[x]
      BY <1>1, <3>2, Answered
    <3>4. ready => heldUntilNow.class >= s /\ heldUntilNow.node >= s
      BY <2>1 DEF Since
    <3>5. ~ready => heldUntilNow.lack >= s
      BY <2>1 DEF Since
    <3>6. (ready => Recent("class") /\ Recent("node")) /\ (~ready => Recent("lack"))
      BY <2>0, <2>1, <3>4, <3>5 DEF Moments
    <3> QED BY <3>1, <3>3, <3>6
  <2>2. ASSUME NEW r \in Admissions, NEW a, AnswerAdmission(r, a), a.why \notin {"injected", "unready"}
        PROVE  Honest(p)
    <3>1. admit'[r].answer = a /\ \A x \in Admissions \ {r} : admit'[x] = admit[x]
      BY <1>1, <2>2, Answered
    <3> QED BY <2>2, <3>1
  <2>3. ASSUME NEW r \in Admissions, UseCached(r) PROVE Honest(p)
    <3>1. /\ readiness.valid /\ sandboxClock - readiness.at < ReadinessTTL
          /\ respond(r, readiness.ready)
      BY <2>3 DEF UseCached, cacheHit
    <3>2. /\ readiness.at \in Nat /\ readiness.ready \in BOOLEAN
          /\ Since(readiness.ready, heldUntilNow, readiness.at - WebhookTimeout)
      BY <1>1, <3>1 DEF SandboxInv, CacheFound
    <3>3. /\ readiness.at - WebhookTimeout \in Int
          /\ readiness.at - WebhookTimeout > sandboxClock - Window
      BY <2>0, <3>1, <3>2
    <3> QED BY <2>1, <3>1, <3>2, <3>3
  <2>4. ASSUME NEW r \in Admissions, StoreReadiness(r) PROVE Honest(p)
    <3>1. /\ admit[r].step = "store" /\ sandboxClock - admit[r].began <= WebhookTimeout
          /\ respond(r, admit[r].ready)
      BY <2>4 DEF StoreReadiness, inTime
    <3>2. /\ admit[r].began \in Nat /\ admit[r].ready \in BOOLEAN
          /\ Since(admit[r].ready, heldUntilNow, admit[r].began)
      BY <1>1, <3>1 DEF SandboxInv, Found
    <3>3. admit[r].began \in Int /\ admit[r].began > sandboxClock - Window
      BY <2>0, <3>1, <3>2
    <3> QED BY <2>1, <3>1, <3>2, <3>3
  <2>5. ASSUME NEW r \in Admissions, SkipInjection(r) PROVE Honest(p)
    BY <2>2, <2>5 DEF SkipInjection
  <2>6. ASSUME NEW r \in Admissions, CheckFails(r) PROVE Honest(p)
    BY <2>2, <2>6 DEF CheckFails, readinessFailureResponse
  <2>7. ASSUME NEW r \in Admissions, AdmissionTimesOut(r) PROVE Honest(p)
    BY <2>2, <2>7 DEF AdmissionTimesOut
  <2>8. ASSUME NEW r \in Admissions, AdmitPod(r) \/ ReadRuntimeClass(r) \/ ReadNodes(r)
        PROVE  Honest(p)
    <3>1. Found(admit[r], heldUntilNow, sandboxClock) /\ DOMAIN admit = Admissions
      BY <1>1 DEF SandboxInv
    <3>2. /\ admit'[r].step # "idle" /\ \A x \in Admissions \ {r} : admit'[x] = admit[x]
      BY <2>8, <3>1 DEF AdmitPod, ReadRuntimeClass, ReadNodes, Found, NoAdmission
    <3> QED BY <3>2
  <2>9. CASE NodesChange \/ SandboxTick \/ UNCHANGED sandboxVars
    BY <2>9 DEF NodesChange, SandboxTick, sandboxVars
  <2> HIDE DEF Honest
  <2> QED BY <1>1, <2>3, <2>4, <2>5, <2>6, <2>7, <2>8, <2>9 DEF SandboxNext
<1>2. SandboxInv /\ [SandboxNext]_sandboxVars =>
        [\A p \in Admissions :
           LET recent(k) == heldUntilNow[k] > sandboxClock - Window
               why == admit'[p].answer.why
           IN  admit[p].step # "idle" /\ admit'[p].step = "idle" =>
                 /\ why = "injected" => recent("class") /\ recent("node")
                 /\ why = "unready" => recent("lack")]_sandboxVars
  BY <1>1
<1> QED BY <1>2, SandboxInitially, SandboxStep, PTL DEF SandboxSpec, ReadinessIsRecent

-----------------------------------------------------------------------------
(*                              AuditLedger                                *)
(*                                                                         *)
(* Every entry of the ledger is the one its recorder signed for its place  *)
(* and chains to the one before; every head a recorder holds or published  *)
(* is one of them.  An entry that verifies is then one of the ledger's, in *)
(* its place, as the signature covers the hash and the hash the content,   *)
(* the sequence number and the predecessor.                                *)

(* The behaviours of the recorders.                                        *)
LedgerSpec == LedgerInit /\ [][LedgerNext]_ledgerVars

EntryFields == {"seq", "payload", "prev", "kid", "hash", "sig"}

(* x has these fields and nothing else.                                    *)
IsEntry(x) == DOMAIN x = EntryFields /\ x = [f \in EntryFields |-> x[f]]

prevHash(l, i) == IF i = 1 THEN ZeroHash ELSE l[i - 1].hash

Signed(e, i, prev) ==
  /\ IsEntry(e) /\ e.seq = i /\ e.kid \in KIDs /\ e.prev = prev
  /\ e.hash = <<e.seq, e.payload, e.prev>> /\ e.sig = <<e.kid, e.hash>>

Written(l) == IsSeq(l) /\ \A i \in DOMAIN l : Signed(l[i], i, prevHash(l, i))

(* Head c is that of an entry of l.                                        *)
HeadIn(c, l) == c.seq \in DOMAIN l /\ c.hash = l[c.seq].hash

LedgerInv ==
  /\ Written(ledger)
  /\ DOMAIN recorder = Recorders
  /\ \A r \in Recorders :
       /\ DOMAIN recorder[r] = {"kid", "head"} /\ recorder[r].kid \in KIDs
       /\ \/ recorder[r].head.seq = 0 /\ recorder[r].head.hash = ZeroHash
          \/ HeadIn(recorder[r].head, ledger)
  /\ \A c \in published : HeadIn(c, ledger)

(* The head of a ledger.                                                   *)
LEMMA HeadOfLedger ==
  ASSUME NEW l, IsSeq(l)
  PROVE  \/ LedgerHead(l).seq = 0 /\ LedgerHead(l).hash = ZeroHash
         \/ LedgerHead(l).seq = l[Len(l)].seq /\ LedgerHead(l).hash = l[Len(l)].hash
            /\ Len(l) \in DOMAIN l
<1>1. Len(l) \in Nat /\ DOMAIN l = 1 .. Len(l)
  BY SeqShape
<1>2. CASE l = <<>>
  BY <1>2 DEF LedgerHead
<1>3. CASE l # <<>>
  <2>1. PICK S : l \in Seq(S)
    BY DEF IsSeq
  <2>2. Len(l) # 0
    BY <1>3, <2>1
  <2>3. Len(l) \in DOMAIN l
    BY <1>1, <2>2
  <2> QED BY <1>3, <2>3 DEF LedgerHead, Last
<1> QED BY <1>2, <1>3

LEMMA LedgerInitially == LedgerInit => LedgerInv
<1> SUFFICES ASSUME LedgerInit PROVE LedgerInv
  OBVIOUS
<1>1. ledger = <<>> /\ published = {}
  BY DEF LedgerInit
<1>2. IsSeq(<<>>) /\ DOMAIN <<>> = {}
  <2>1. <<>> \in Seq({}) /\ DOMAIN <<>> = {}
    OBVIOUS
  <2> QED BY <2>1 DEF IsSeq
<1>3. Written(ledger)
  BY <1>1, <1>2 DEF Written
<1>4. (CHOOSE k \in KIDs : TRUE) \in KIDs
  BY LedgerAssumption
<1>5. ASSUME NEW r \in Recorders
      PROVE  /\ DOMAIN recorder[r] = {"kid", "head"} /\ recorder[r].kid \in KIDs
             /\ recorder[r].head.seq = 0 /\ recorder[r].head.hash = ZeroHash
  <2>1. recorder[r] = [kid |-> CHOOSE k \in KIDs : TRUE, head |-> LedgerHead(<<>>)]
    BY DEF LedgerInit
  <2>2. LedgerHead(<<>>).seq = 0 /\ LedgerHead(<<>>).hash = ZeroHash
    BY DEF LedgerHead
  <2> QED BY <1>4, <2>1, <2>2
<1> QED BY <1>1, <1>3, <1>5 DEF LedgerInv, LedgerInit

(* A recorder that holds a head of the ledger appends to it.               *)
LEMMA EntryAppended ==
  ASSUME NEW l, Written(l), NEW e, NEW head, NEW kid \in KIDs, NEW p,
         (head.seq = 0 /\ head.hash = ZeroHash) \/ HeadIn(head, l),
         e = Hash([seq |-> head.seq + 1, payload |-> p, prev |-> head.hash], kid),
         e.seq = Len(l) + 1
  PROVE  /\ Written(Append(l, e)) /\ HeadIn([seq |-> e.seq, hash |-> e.hash], Append(l, e))
         /\ \A c : HeadIn(c, l) => HeadIn(c, Append(l, e))
<1> DEFINE n == Len(l)
           m == Append(l, e)
<1>1. IsSeq(l) /\ n \in Nat /\ DOMAIN l = 1 .. n
  BY SeqShape DEF Written
<1>2. /\ IsSeq(m) /\ Len(m) = n + 1 /\ DOMAIN m = 1 .. (n + 1)
      /\ \A i \in 1 .. n : m[i] = l[i]
      /\ m[n + 1] = e
  BY <1>1, AppendShape, SeqShape
<1> HIDE DEF m
<1>3. /\ e.seq = head.seq + 1 /\ e.payload = p /\ e.prev = head.hash /\ e.kid = kid
      /\ e.hash = <<e.seq, e.payload, e.prev>> /\ e.sig = <<e.kid, e.hash>>
  BY DEF Hash, computeEntryHash
<1>4. IsEntry(e)
  BY DEF Hash, IsEntry, EntryFields
<1>5. head.seq = n
  <2>1. head.seq \in Nat
    BY <1>1 DEF HeadIn
  <2> QED BY <1>1, <1>3, <2>1
<1>6. e.prev = prevHash(m, n + 1)
  <2>1. CASE n = 0
    BY <1>1, <1>3, <1>5, <2>1 DEF prevHash, HeadIn
  <2>2. CASE n # 0
    <3>1. HeadIn(head, l) /\ n \in 1 .. n /\ n + 1 # 1 /\ n + 1 - 1 = n
      BY <1>1, <1>5, <2>2
    <3>2. head.hash = l[n].hash
      BY <1>5, <3>1 DEF HeadIn
    <3>3. m[n] = l[n]
      BY <1>2, <3>1
    <3> QED BY <1>3, <3>1, <3>2, <3>3 DEF prevHash
  <2> QED BY <2>1, <2>2
<1>7. Signed(m[n + 1], n + 1, prevHash(m, n + 1))
  BY <1>2, <1>3, <1>4, <1>6 DEF Signed
<1>8. ASSUME NEW i \in 1 .. n PROVE Signed(m[i], i, prevHash(m, i))
  <2>1. m[i] = l[i] /\ Signed(l[i], i, prevHash(l, i))
    BY <1>1, <1>2 DEF Written
  <2>2. i # 1 => i - 1 \in 1 .. n
    BY <1>1
  <2>3. prevHash(m, i) = prevHash(l, i)
    BY <1>2, <2>2 DEF prevHash
  <2> QED BY <2>1, <2>3
<1>9. \A i \in DOMAIN m : i \in 1 .. n \/ i = n + 1
  BY <1>1, <1>2
<1>10. Written(m)
  BY <1>2, <1>7, <1>8, <1>9 DEF Written
<1>11. HeadIn([seq |-> e.seq, hash |-> e.hash], m)
  BY <1>1, <1>2 DEF HeadIn
<1>12. ASSUME NEW c, HeadIn(c, l) PROVE HeadIn(c, m)
  BY <1>1, <1>2, <1>12 DEF HeadIn
<1> QED BY <1>10, <1>11, <1>12 DEF m

LEMMA LedgerStep ==
  ASSUME LedgerInv, [LedgerNext]_ledgerVars
  PROVE  LedgerInv'
<1>0. IsSeq(ledger) /\ Len(ledger) \in Nat /\ DOMAIN ledger = 1 .. Len(ledger)
  BY SeqShape DEF LedgerInv, Written
<1>1. ASSUME NEW r \in Recorders, NewRecorder(r) PROVE LedgerInv'
  <2>1. PICK kid \in KIDs :
          recorder' = [recorder EXCEPT ![r] = [kid |-> kid, head |-> LedgerHead(ledger)]]
    BY <1>1 DEF NewRecorder
  <2>2. UNCHANGED <<ledger, published>>
    BY <1>1 DEF NewRecorder
  <2> DEFINE h == LedgerHead(ledger)
             q == [kid |-> kid, head |-> h]
  <2>3. (h.seq = 0 /\ h.hash = ZeroHash) \/ HeadIn(h, ledger)
    <3>1. Len(ledger) \in DOMAIN ledger => ledger[Len(ledger)].seq = Len(ledger)
      BY DEF LedgerInv, Written, Signed
    <3> QED BY <1>0, <3>1, HeadOfLedger DEF HeadIn
  <2> HIDE DEF h
  <2>4. DOMAIN q = {"kid", "head"} /\ q.kid = kid /\ q.head = h
    OBVIOUS
  <2>5. recorder' = [recorder EXCEPT ![r] = q]
    BY <2>1 DEF h
  <2> HIDE DEF q
  <2>6. DOMAIN recorder' = Recorders /\ \A x \in Recorders : recorder'[x] = IF x = r THEN q ELSE recorder[x]
    BY <2>5 DEF LedgerInv
  <2> QED BY <2>2, <2>3, <2>4, <2>6 DEF LedgerInv
<1>2. ASSUME NEW r \in Recorders, PublishHead(r) PROVE LedgerInv'
  <2>1. /\ recorder[r].head.seq > 0 /\ published' = published \cup {recorder[r].head}
        /\ UNCHANGED <<ledger, recorder>>
    BY <1>2 DEF PublishHead
  <2>2. HeadIn(recorder[r].head, ledger)
    BY <2>1 DEF LedgerInv
  <2> QED BY <2>1, <2>2 DEF LedgerInv
<1>3. ASSUME NEW r \in Recorders, NEW p \in Payloads, AppendEntry(r, p) PROVE LedgerInv'
  <2> DEFINE head == recorder[r].head
             e == Hash([seq |-> head.seq + 1, payload |-> p, prev |-> head.hash], recorder[r].kid)
             h == [seq |-> e.seq, hash |-> e.hash]
  <2>1. \/ /\ e.seq = Len(ledger) + 1 /\ ledger' = Append(ledger, e)
           /\ recorder' = [recorder EXCEPT ![r].head = h] \/ UNCHANGED recorder
        \/ UNCHANGED <<ledger, recorder>>
    BY <1>3 DEF AppendEntry, inOrder
  <2>2. UNCHANGED published
    BY <1>3 DEF AppendEntry
  <2>3. CASE UNCHANGED <<ledger, recorder>>
    BY <2>2, <2>3 DEF LedgerInv
  <2>4. CASE e.seq = Len(ledger) + 1 /\ ledger' = Append(ledger, e)
    <3>1. /\ Written(ledger) /\ recorder[r].kid \in KIDs
          /\ (head.seq = 0 /\ head.hash = ZeroHash) \/ HeadIn(head, ledger)
      BY DEF LedgerInv
    <3>2. /\ Written(ledger') /\ HeadIn(h, ledger')
          /\ \A c : HeadIn(c, ledger) => HeadIn(c, ledger')
      BY <2>4, <3>1, EntryAppended
    <3> HIDE DEF e, h, head
    <3>3. CASE UNCHANGED recorder
      BY <2>2, <3>2, <3>3 DEF LedgerInv
    <3>4. CASE recorder' = [recorder EXCEPT ![r].head = h]
      <4> DEFINE q == [recorder[r] EXCEPT !.head = h]
      <4>1. DOMAIN q = {"kid", "head"} /\ q.kid = recorder[r].kid /\ q.head = h
        BY DEF LedgerInv
      <4>2. recorder' = [recorder EXCEPT ![r] = q]
        BY <3>4
      <4> HIDE DEF q
      <4>3. DOMAIN recorder' = Recorders /\ \A x \in Recorders : recorder'[x] = IF x = r THEN q ELSE recorder[x]
        BY <4>2 DEF LedgerInv
      <4> QED BY <2>2, <3>2, <4>1, <4>3 DEF LedgerInv
    <3> QED BY <2>1, <2>3, <3>3, <3>4
  <2> QED BY <2>1, <2>3, <2>4
<1>4. CASE UNCHANGED ledgerVars
  BY <1>4 DEF ledgerVars, LedgerInv
<1> QED BY <1>1, <1>2, <1>3, <1>4 DEF LedgerNext

(* readJSONL of n lines: one entry per line that is no comment, in order.  *)
LEMMA LinesRead ==
  ASSUME NEW lines, NEW n \in Nat, DOMAIN lines = 1 .. n
  PROVE  \E m \in Nat :
           /\ DOMAIN readJSONL(lines) = 1 .. m
           /\ readJSONL(lines) = [k \in 1 .. m |-> readJSONL(lines)[k]]
           /\ \A k \in 1 .. m : \E i \in 1 .. n :
                lines[i].line # "comment" /\ readJSONL(lines)[k] = lines[i].entry
<1> DEFINE kept == {i \in DOMAIN lines : lines[i].line # "comment"}
           upTo(i) == {j \in kept : j <= i}
           m == Cardinality(kept)
           rank == [i \in kept |-> Cardinality(upTo(i))]
           at(k) == CHOOSE i \in kept : Cardinality(upTo(i)) = k
<1>1. readJSONL(lines) = [k \in 1 .. m |-> lines[at(k)].entry]
  BY DEF readJSONL
<1>2. IsFiniteSet(kept) /\ m \in Nat /\ kept \subseteq Nat
  <2>1. IsFiniteSet(1 .. n)
    BY FS_Interval
  <2>2. kept \in SUBSET (1 .. n)
    OBVIOUS
  <2> QED BY <2>1, <2>2, FS_Subset, FS_CardinalityType
<1>3. ASSUME NEW i \in kept
      PROVE  /\ IsFiniteSet(upTo(i)) /\ Cardinality(upTo(i)) \in 1 .. m
  <2>1. upTo(i) \in SUBSET kept /\ i \in upTo(i)
    BY <1>2
  <2> HIDE DEF kept
  <2>2. IsFiniteSet(upTo(i)) /\ Cardinality(upTo(i)) <= m /\ Cardinality(upTo(i)) \in Nat
    BY <1>2, <2>1, FS_Subset, FS_CardinalityType
  <2>3. Cardinality(upTo(i)) # 0
    BY <2>1, <2>2, FS_EmptySet
  <2> QED BY <1>2, <2>2, <2>3
<1>4. ASSUME NEW i \in kept, NEW j \in kept, i < j
      PROVE  Cardinality(upTo(i)) # Cardinality(upTo(j))
  <2>1. upTo(i) \in SUBSET upTo(j) /\ j \in upTo(j) /\ j \notin upTo(i)
    BY <1>2, <1>4
  <2>2. IsFiniteSet(upTo(j))
    BY <1>3
  <2> QED BY <2>1, <2>2, FS_Subset
<1>5. rank \in Injection(kept, 1 .. m)
  <2>1. rank \in [kept -> 1 .. m]
    BY <1>3
  <2>2. ASSUME NEW i \in kept, NEW j \in kept, rank[i] = rank[j] PROVE i = j
    <3>1. i \in Nat /\ j \in Nat
      BY <1>2
    <3>2. ~(i < j) /\ ~(j < i)
      BY <1>4, <2>2
    <3> QED BY <3>1, <3>2
  <2>3. DOMAIN rank = kept
    OBVIOUS
  <2> HIDE DEF rank, kept
  <2> QED BY <2>1, <2>2, <2>3 DEF Injection, IsInjective
<1>6. rank \in Surjection(kept, 1 .. m)
  <2>1. IsFiniteSet(1 .. m) /\ Cardinality(1 .. m) = m
    <3>1. ASSUME NEW k \in Nat PROVE IsFiniteSet(1 .. k) /\ Cardinality(1 .. k) = k
      BY FS_Interval
    <3> QED BY <1>2, <3>1
  <2>2. ASSUME NEW S, NEW T, NEW f \in Injection(S, T), IsFiniteSet(T),
               Cardinality(S) = Cardinality(T)
        PROVE  f \in Surjection(S, T)
    BY <2>2, FS_Injection
  <2> HIDE DEF rank, kept
  <2> QED BY <1>5, <2>1, <2>2
<1>7. ASSUME NEW k \in 1 .. m PROVE at(k) \in kept
  <2>1. PICK i \in kept : rank[i] = k
    BY <1>6 DEF Surjection
  <2>2. Cardinality(upTo(i)) = k
    BY <2>1
  <2> HIDE DEF kept, upTo
  <2> QED BY <2>2
<1>8. ASSUME NEW k \in 1 .. m
      PROVE  \E i \in 1 .. n : lines[i].line # "comment" /\ readJSONL(lines)[k] = lines[i].entry
  <2>1. at(k) \in 1 .. n /\ lines[at(k)].line # "comment"
    BY <1>7
  <2>2. readJSONL(lines)[k] = lines[at(k)].entry
    BY <1>1
  <2> HIDE DEF at
  <2> QED BY <2>1, <2>2
<1>9. DOMAIN readJSONL(lines) = 1 .. m /\ readJSONL(lines) = [k \in 1 .. m |-> readJSONL(lines)[k]]
  <2> HIDE DEF at, m
  <2> QED BY <1>1
<1> HIDE DEF m
<1> QED BY <1>2, <1>8, <1>9

(* A dump of a ledger reads as the ledger.                                 *)
LEMMA DumpReads ==
  ASSUME NEW l, IsSeq(l)
  PROVE  readJSONL(Dump(l)) = l
<1> DEFINE d == Dump(l)
           n == Len(l)
           kept == {i \in DOMAIN d : d[i].line # "comment"}
           upTo(i) == {j \in kept : j <= i}
           at(k) == CHOOSE i \in kept : Cardinality(upTo(i)) = k
<1>1. n \in Nat /\ DOMAIN l = 1 .. n
  BY SeqShape
<1>2. DOMAIN d = 1 .. n /\ \A i \in 1 .. n : d[i].line = "entry" /\ d[i].entry = l[i]
  BY <1>1 DEF Dump, Line
<1>3. readJSONL(d) = [k \in 1 .. Cardinality(kept) |-> d[at(k)].entry]
  BY DEF readJSONL
<1> HIDE DEF d
<1>4. kept = 1 .. n
  BY <1>2
<1>5. ASSUME NEW k \in Nat PROVE Cardinality(1 .. k) = k
  BY FS_Interval
<1>6. Cardinality(kept) = n
  BY <1>1, <1>4, <1>5
<1>7. ASSUME NEW i \in 1 .. n PROVE Cardinality(upTo(i)) = i
  <2>1. upTo(i) = 1 .. i /\ i \in Nat
    BY <1>1, <1>4
  <2> QED BY <1>5, <2>1
<1>8. ASSUME NEW k \in 1 .. n PROVE at(k) = k
  <2>1. k \in kept /\ Cardinality(upTo(k)) = k
    BY <1>4, <1>7
  <2>2. \A i \in kept : Cardinality(upTo(i)) = i
    BY <1>4, <1>7
  <2> HIDE DEF kept, upTo
  <2>3. at(k) \in kept /\ Cardinality(upTo(at(k))) = k
    BY <2>1
  <2> QED BY <2>2, <2>3
<1>9. readJSONL(d) = [k \in 1 .. n |-> l[k]]
  <2> HIDE DEF kept, at
  <2> QED BY <1>2, <1>3, <1>6, <1>8
<1>10. l = [k \in 1 .. n |-> l[k]]
  <2>1. PICK S : l \in Seq(S)
    BY DEF IsSeq
  <2> QED BY <1>1, <2>1
<1> QED BY <1>9, <1>10 DEF d

(* The signature pins the entry: one that verifies under the key and the   *)
(* signature of a signed entry is that entry.                              *)
LEMMA SignaturePins ==
  ASSUME NEW e, NEW i, NEW prev, Signed(e, i, prev),
         NEW x, IsEntry(x), x.kid = e.kid, x.sig = e.sig, NEW q, Verify(x, q)
  PROVE  x = e
<1>1. /\ x.hash = <<x.seq, x.payload, x.prev>> /\ x.sig = <<x.kid, x.hash>>
      /\ e.hash = <<e.seq, e.payload, e.prev>> /\ e.sig = <<e.kid, e.hash>>
  BY DEF Verify, computeEntryHash, Signed
<1>2. x.hash = e.hash
  <2>1. <<x.kid, x.hash>> = <<e.kid, e.hash>>
    BY <1>1
  <2> QED BY <2>1
<1>3. x.seq = e.seq /\ x.payload = e.payload /\ x.prev = e.prev
  BY <1>1, <1>2
<1>4. \A f \in EntryFields : x[f] = e[f]
  BY <1>2, <1>3 DEF EntryFields
<1>5. x = [f \in EntryFields |-> x[f]] /\ e = [f \in EntryFields |-> e[f]]
  BY DEF IsEntry, Signed
<1> HIDE DEF EntryFields
<1> QED BY <1>4, <1>5

(* Changing what the signature covers leaves the key and the signature.    *)
LEMMA EditedEntry ==
  ASSUME NEW e, IsEntry(e), NEW f \in {"payload", "prev", "seq", "hash"}, NEW v
  PROVE  /\ IsEntry([e EXCEPT ![f] = v])
         /\ [e EXCEPT ![f] = v].kid = e.kid /\ [e EXCEPT ![f] = v].sig = e.sig
<1> DEFINE x == [e EXCEPT ![f] = v]
<1>0. f # "kid" /\ f # "sig" /\ "kid" \in EntryFields /\ "sig" \in EntryFields
  BY DEF EntryFields
<1> HIDE DEF EntryFields
<1>1. DOMAIN x = EntryFields /\ x = [g \in EntryFields |-> IF g = f THEN v ELSE e[g]]
  BY DEF IsEntry
<1>2. \A g \in EntryFields : x[g] = IF g = f THEN v ELSE e[g]
  BY <1>1
<1> HIDE DEF x
<1>3. x = [g \in EntryFields |-> x[g]]
  BY <1>1, <1>2
<1>4. x.kid = e.kid /\ x.sig = e.sig
  BY <1>0, <1>2
<1> QED BY <1>1, <1>3, <1>4 DEF IsEntry, x

(* What a line of a dump holds that verifies is an entry of the ledger.    *)
LEMMA PresentedEntry ==
  ASSUME LedgerInv, NEW l \in Presentable, l.line # "comment", l.line # "malformed",
         NEW q, Verify(l.entry, q)
  PROVE  \E i \in DOMAIN ledger : l.entry = ledger[i]
<1> DEFINE own == Range(ledger)
           edited == {[e EXCEPT !.payload = Altered] : e \in own}
                       \cup {[e EXCEPT !.prev = ZeroHash, !.seq = 1] : e \in own}
           rehashed == {[e EXCEPT !.hash = computeEntryHash(e)] : e \in edited}
<1>1. l \in {Line(e) : e \in own \cup edited \cup rehashed}
  <2>1. l # Comment /\ l # Malformed
    BY DEF Comment, Malformed
  <2> QED BY <2>1 DEF Presentable
<1> DEFINE x == l.entry
<1>2. x \in own \cup edited \cup rehashed
  <2> HIDE DEF own, edited, rehashed
  <2> QED BY <1>1 DEF Line
<1> HIDE DEF x
<1>3. ASSUME NEW e \in own PROVE \E i \in DOMAIN ledger : e = ledger[i]
  BY DEF Range
<1>4. ASSUME NEW e \in own PROVE IsEntry(e)
  BY <1>3 DEF LedgerInv, Written, Signed
<1>5. ASSUME NEW y \in edited
      PROVE  \E e \in own : IsEntry(y) /\ y.kid = e.kid /\ y.sig = e.sig
  <2>1. CASE y \in {[e EXCEPT !.payload = Altered] : e \in own}
    <3>1. PICK e \in own : y = [e EXCEPT !["payload"] = Altered]
      BY <2>1
    <3>2. IsEntry(y) /\ y.kid = e.kid /\ y.sig = e.sig
      BY <1>4, <3>1, EditedEntry
    <3> QED BY <3>2
  <2>2. CASE y \in {[e EXCEPT !.prev = ZeroHash, !.seq = 1] : e \in own}
    <3>1. PICK e \in own : y = [[e EXCEPT !["prev"] = ZeroHash] EXCEPT !["seq"] = 1]
      BY <2>2
    <3> DEFINE z == [e EXCEPT !["prev"] = ZeroHash]
    <3>2. IsEntry(z) /\ z.kid = e.kid /\ z.sig = e.sig
      BY <1>4, EditedEntry
    <3>3. y = [z EXCEPT !["seq"] = 1]
      BY <3>1
    <3> HIDE DEF z
    <3>4. IsEntry(y) /\ y.kid = z.kid /\ y.sig = z.sig
      BY <3>2, <3>3, EditedEntry
    <3> QED BY <3>2, <3>4
  <2> QED BY <2>1, <2>2
<1>6. ASSUME NEW y \in rehashed
      PROVE  \E e \in own : IsEntry(y) /\ y.kid = e.kid /\ y.sig = e.sig
  <2>1. PICK z \in edited : y = [z EXCEPT !["hash"] = computeEntryHash(z)]
    OBVIOUS
  <2>2. PICK e \in own : IsEntry(z) /\ z.kid = e.kid /\ z.sig = e.sig
    BY <1>5
  <2>3. IsEntry(y) /\ y.kid = z.kid /\ y.sig = z.sig
    BY <2>1, <2>2, EditedEntry
  <2> QED BY <2>2, <2>3
<1> HIDE DEF own, edited, rehashed
<1>7. \E e \in own : IsEntry(x) /\ x.kid = e.kid /\ x.sig = e.sig
  BY <1>2, <1>4, <1>5, <1>6
<1>8. PICK e \in own : IsEntry(x) /\ x.kid = e.kid /\ x.sig = e.sig
  BY <1>7
<1>9. PICK i \in DOMAIN ledger : e = ledger[i]
  BY <1>3
<1>10. Signed(e, i, prevHash(ledger, i))
  BY <1>9 DEF LedgerInv, Written
<1>11. Verify(x, q)
  BY DEF x
<1>12. x = e
  BY <1>8, <1>10, <1>11, SignaturePins
<1> QED BY <1>9, <1>12 DEF x

(* For any number of recorders, key rotations, restarts and unanswered     *)
(* appends: audit-verify accepts the ledger with every published           *)
(* checkpoint, and whatever dump it accepts is a prefix of the ledger that *)
(* reaches all of them.                                                    *)
THEOREM LedgerSound == LedgerSpec => []LedgerIsSound
<1>1. ASSUME LedgerInv PROVE LedgerVerifies
  <2>1. readJSONL(Dump(ledger)) = ledger
    BY <1>1, DumpReads DEF LedgerInv, Written
  <2>2. KIDs # {} /\ \A i \in DOMAIN Dump(ledger) : Dump(ledger)[i].line # "malformed"
    BY LedgerAssumption DEF Dump, Line
  <2>3. Walk(KIDs, ledger)
    BY <1>1 DEF Walk, Verify, computeEntryHash, LedgerInv, Written, Signed, prevHash
  <2>4. VerifyCheckpoints(ledger, published)
    BY <1>1 DEF VerifyCheckpoints, LedgerInv, HeadIn, Written, Signed
  <2> QED BY <2>1, <2>2, <2>3, <2>4 DEF LedgerVerifies, exitCode
<1>2. ASSUME LedgerInv PROVE VerifiedIsPrefix
  <2> SUFFICES ASSUME NEW d \in SeqOf(Presentable, Len(ledger)),
                      exitCode(d, KIDs, published) = 0
               PROVE  /\ IsPrefix(readJSONL(d), ledger)
                      /\ \A c \in published : c.seq <= Len(readJSONL(d))
    BY DEF VerifiedIsPrefix
  <2> DEFINE es == readJSONL(d)
             n == Len(ledger)
  <2>0. n \in Nat /\ DOMAIN ledger = 1 .. n /\ IsSeq(ledger)
    BY <1>2, SeqShape DEF LedgerInv, Written
  <2>1. PICK s \in 0 .. n : d \in [1 .. s -> Presentable]
    BY DEF SeqOf
  <2>2. PICK m \in Nat :
          /\ DOMAIN es = 1 .. m /\ es = [k \in 1 .. m |-> es[k]]
          /\ \A k \in 1 .. m : \E i \in 1 .. s : d[i].line # "comment" /\ es[k] = d[i].entry
    <3>1. s \in Nat /\ DOMAIN d = 1 .. s
      BY <2>0, <2>1
    <3> QED BY <3>1, LinesRead
  <2>3. /\ \A i \in DOMAIN d : d[i].line # "malformed"
        /\ Walk(KIDs, es) /\ VerifyCheckpoints(es, published)
    BY DEF exitCode
  <2> HIDE DEF es
  <2>4. ASSUME NEW k \in 1 .. m PROVE k \in 1 .. n /\ es[k] = ledger[k]
    <3>1. PICK i \in 1 .. s : d[i].line # "comment" /\ es[k] = d[i].entry
      BY <2>2
    <3>2. d[i] \in Presentable /\ d[i].line # "malformed"
      BY <2>1, <2>3
    <3>3. es[k].seq = k /\ Verify(es[k], IF k = 1 THEN ZeroHash ELSE es[k - 1].hash)
      BY <2>2, <2>3 DEF Walk
    <3>4. PICK j \in DOMAIN ledger : es[k] = ledger[j]
      BY <1>2, <3>1, <3>2, <3>3, PresentedEntry
    <3>5. ledger[j].seq = j
      BY <1>2 DEF LedgerInv, Written, Signed
    <3> QED BY <2>0, <3>3, <3>4, <3>5
  <2>5. m <= n
    <3>1. CASE m = 0
      BY <2>0, <3>1
    <3>2. CASE m # 0
      <4>1. m \in 1 .. m
        BY <2>2, <3>2
      <4> QED BY <2>0, <2>2, <2>4, <4>1
    <3> QED BY <3>1, <3>2
  <2>6. IsSeq(es) /\ Len(es) = m
    <3>1. es \in Seq({es[k] : k \in 1 .. m})
      BY <2>2
    <3>2. Len(es) = m
      BY <2>2, <3>1
    <3> QED BY <3>1, <3>2 DEF IsSeq
  <2>7. SubSeq(es, 1, m) = SubSeq(ledger, 1, m)
    <3> DEFINE a == SubSeq(es, 1, m)
               b == SubSeq(ledger, 1, m)
    <3>1. m \in 0 .. Len(es) /\ m \in 0 .. n
      BY <2>0, <2>2, <2>5, <2>6
    <3>2. /\ IsSeq(a) /\ Len(a) = m /\ \A i \in 1 .. m : a[i] = es[i]
      BY <2>6, <3>1, PrefixShape
    <3>3. /\ IsSeq(b) /\ Len(b) = m /\ \A i \in 1 .. m : b[i] = ledger[i]
      BY <2>0, <3>1, PrefixShape
    <3> HIDE DEF a, b
    <3>4. PICK S : a \in Seq(S)
      BY <3>2 DEF IsSeq
    <3>5. PICK T : b \in Seq(T)
      BY <3>3 DEF IsSeq
    <3>6. a = [i \in 1 .. m |-> a[i]] /\ b = [i \in 1 .. m |-> b[i]]
      BY <3>2, <3>3, <3>4, <3>5
    <3>7. \A i \in 1 .. m : a[i] = b[i]
      BY <2>4, <3>2, <3>3
    <3>8. a = b
      BY <3>6, <3>7
    <3> QED BY <3>8 DEF a, b
  <2>8. IsPrefix(es, ledger)
    BY <2>5, <2>6, <2>7 DEF IsPrefix
  <2>9. ASSUME NEW c \in published PROVE c.seq <= m
    <3>1. PICK i \in 1 .. m : es[i].seq = c.seq
      BY <2>2, <2>3 DEF VerifyCheckpoints
    <3>2. es[i].seq = i
      BY <2>2, <2>3 DEF Walk
    <3> QED BY <2>2, <3>1, <3>2
  <2> QED BY <2>6, <2>8, <2>9 DEF es
<1>3. LedgerInv => LedgerIsSound
  BY <1>1, <1>2 DEF LedgerIsSound
<1> QED BY <1>3, LedgerInitially, LedgerStep, PTL DEF LedgerSpec

=============================================================================
