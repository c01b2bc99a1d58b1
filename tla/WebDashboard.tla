---------------------------- MODULE WebDashboard ----------------------------
(***************************************************************************)
(* agentctl-web: requests through RequestID, Audit, Auth and CSRF to the   *)
(* login, logout, approve and reject handlers, while cookies, tokens and   *)
(* permissions change, calls to the API server fail and responses are      *)
(* lost.                                                                   *)
(***************************************************************************)
EXTENDS Naturals, FiniteSets

CONSTANTS
  Requests,      \* requests in flight
  WebUsers,      \* users, each with one token
  MaxWebEvents   \* bound: requests sent, changes of access, browser restarts

ASSUME WebAssumption == MaxWebEvents \in Nat

VARIABLES
  browser,      \* the token and csrf cookies; Nobody and 0 when there is none
  forms,        \* the csrf tokens of the pages the browser shows
  accepted,     \* users whose token TokenReview accepts
  permitted,    \* users whose update SubjectAccessReview allows
  request,      \* request[r]
  decided,      \* approve and reject calls that took effect
  csrfIds, webEvents

webVars == <<browser, forms, accepted, permitted, request, decided, csrfIds, webEvents>>

Nobody == "nobody"
Kept == "kept"
(* "decide" stands for the approve and reject routes, which differ only in *)
(* the client call they make, and "workloads" for every page.              *)
Paths == {"login", "logout", "workloads", "decide"}
Posted == {"login", "logout", "decide"}

(* A request: its id, what it carries, the user found, and the answer with *)
(* the cookies it sets.  could and may are history: the users accepted and *)
(* permitted at some time since it was sent.                               *)
IdleRequest == [id |-> 0, step |-> "idle", path |-> "workloads", token |-> Nobody, csrf |-> 0,
                form |-> 0, given |-> Nobody, user |-> Nobody, status |-> 0,
                setToken |-> Kept, setCsrf |-> 0, could |-> {}, may |-> {}]

(* The dashboard keeps no session: a browser may come with cookies and     *)
(* pages of an earlier run.                                                *)
WebInit ==
  /\ browser \in [token : WebUsers \cup {Nobody}, csrf : {1}]
  /\ forms = {1} /\ csrfIds = 1
  /\ accepted = WebUsers /\ permitted = WebUsers
  /\ request = [r \in Requests |-> IdleRequest]
  /\ decided = {} /\ webEvents = 0

WebEvent == webEvents < MaxWebEvents /\ webEvents' = webEvents + 1

-----------------------------------------------------------------------------
(* A bearer token in the Authorization header goes before the cookie.      *)
extractBearerToken(header, cookie) == IF header # Nobody THEN header ELSE cookie

(* RequestIDMiddleware gives it an id of its own.                          *)
newRequest(id, path, token, form, given) ==
  [id |-> id, step |-> "auth", path |-> path, token |-> token, csrf |-> browser.csrf,
   form |-> form, given |-> given, user |-> Nobody, status |-> 0,
   setToken |-> Kept, setCsrf |-> 0, could |-> accepted, may |-> permitted]

(* The browser sends the cookies it holds and a form with the csrf token   *)
(* of a page it shows, or none; a login form names the user's token and    *)
(* has no csrf token.  A header comes with calls of the API only.          *)
SendRequest(r) ==
  /\ request[r].step = "idle" /\ WebEvent
  /\ \E path \in Paths, form \in forms \cup {0}, header, user \in WebUsers \cup {Nobody} :
       /\ path # "login" => user = Nobody
       /\ path \notin {"decide", "logout"} => form = 0
       /\ path # "decide" => header = Nobody
       /\ request' = [request EXCEPT ![r] =
            newRequest(webEvents', path, extractBearerToken(header, browser.token), form, user)]
  /\ UNCHANGED <<browser, forms, accepted, permitted, decided, csrfIds>>

(* Login skips authentication, as health and static files do.              *)
skipsAuth(path) == path = "login"

Respond(r, status) == request' = [request EXCEPT ![r].step = "audit", ![r].status = status]

RespondToken(r, status, token) ==
  request' = [request EXCEPT ![r].step = "audit", ![r].status = status, ![r].setToken = token]

(* TokenReview of the request's token.  When it refuses the token, or the  *)
(* call fails, the cookie is cleared too.                                  *)
AuthMiddleware(r) ==
  LET q == request[r]
  IN  /\ q.step = "auth"
      /\ \/ skipsAuth(q.path) /\ request' = [request EXCEPT ![r].step = "csrf"]
         \/ ~skipsAuth(q.path) /\ q.token = Nobody /\ Respond(r, 303)
         \/ ~skipsAuth(q.path) /\ q.token # Nobody /\ RespondToken(r, 303, Nobody)
         \/ /\ ~skipsAuth(q.path) /\ q.token \in accepted
            /\ request' = [request EXCEPT ![r].step = "csrf", ![r].user = q.token]
      /\ UNCHANGED <<browser, forms, accepted, permitted, decided, csrfIds, webEvents>>

(* Mutant: a request without a csrf cookie is let through.                 *)
csrfMismatch_NoCookie(q, cookie) == q.csrf # 0 /\ (q.form = 0 \/ q.form # cookie)

csrfMismatch(q, cookie) == q.form = 0 \/ q.form # cookie

(* A missing csrf cookie is made; a mutating request needs its copy.       *)
CSRFMiddleware(r) ==
  LET q == request[r]
      made == IF q.csrf = 0 THEN csrfIds + 1 ELSE 0
      cookie == IF q.csrf = 0 THEN made ELSE q.csrf
      mismatch == q.path \in Posted \ {"login"} /\ csrfMismatch(q, cookie)
  IN  /\ q.step = "csrf"
      /\ csrfIds' = IF q.csrf = 0 THEN csrfIds + 1 ELSE csrfIds
      /\ request' = [request EXCEPT ![r].setCsrf = made,
                       ![r].step = IF mismatch THEN "audit" ELSE "handle",
                       ![r].status = IF mismatch THEN 403 ELSE 0]
      /\ UNCHANGED <<browser, forms, accepted, permitted, decided, webEvents>>

(* handleLogin keeps whatever token it is given; handleLogout clears it.   *)
(* handleApprove and handleReject ask SubjectAccessReview first; their     *)
(* call may fail, with or without effect, and so may the list of the page  *)
(* that answers.                                                           *)
Handle(r) ==
  LET q == request[r]
      decision == [id |-> q.id, by |-> q.user, csrf |-> q.csrf, form |-> q.form,
                   could |-> q.could, may |-> q.may]
  IN  /\ q.step = "handle"
      /\ \/ /\ q.path = "login" /\ UNCHANGED decided
            /\ RespondToken(r, 303, IF q.given = Nobody THEN Kept ELSE q.given)
         \/ q.path = "logout" /\ RespondToken(r, 303, Nobody) /\ UNCHANGED decided
         \/ /\ q.path = "workloads" /\ UNCHANGED decided
            /\ \E status \in {200, 500} : Respond(r, status)
         \/ q.path = "decide" /\ Respond(r, 403) /\ UNCHANGED decided
         \/ /\ q.path = "decide" /\ q.user \in permitted
            /\ \/ /\ decided' = decided \cup {decision}
                  /\ \E status \in {200, 400, 500} : Respond(r, status)
               \/ Respond(r, 400) /\ UNCHANGED decided
      /\ UNCHANGED <<browser, forms, accepted, permitted, csrfIds, webEvents>>

(* The cookie the page is rendered with.                                   *)
pageToken(q) == IF q.setCsrf # 0 THEN q.setCsrf ELSE q.csrf

(* The handler is done and AuditMiddleware has logged it (the log is left  *)
(* out): the response, with the cookies it sets and, when it is a page,    *)
(* that page's form, reaches the browser or is lost.                       *)
AuditMiddleware(r) ==
  LET q == request[r]
  IN  /\ q.step = "audit"
      /\ request' = [request EXCEPT ![r] = IdleRequest]
      /\ \/ /\ browser' = [token |-> IF q.setToken = Kept THEN browser.token ELSE q.setToken,
                           csrf |-> IF q.setCsrf = 0 THEN browser.csrf ELSE q.setCsrf]
            /\ forms' = IF q.status = 200 THEN forms \cup {pageToken(q)} ELSE forms
         \/ UNCHANGED <<browser, forms>>
      /\ UNCHANGED <<accepted, permitted, decided, csrfIds, webEvents>>

-----------------------------------------------------------------------------
toggled(S, u) == IF u \in S THEN S \ {u} ELSE S \cup {u}

(* The history of a request under way.                                     *)
relying(q, acc, per) ==
  IF q.step = "idle" THEN q
  ELSE [q EXCEPT !.could = q.could \cup acc, !.may = q.may \cup per]

(* A token or a permission is revoked or granted.                          *)
ChangeAccess ==
  /\ WebEvent
  /\ \E u \in WebUsers :
       \/ accepted' = toggled(accepted, u) /\ UNCHANGED permitted
       \/ permitted' = toggled(permitted, u) /\ UNCHANGED accepted
  /\ request' = [r \in Requests |-> relying(request[r], accepted', permitted')]
  /\ UNCHANGED <<browser, forms, decided, csrfIds>>

(* The browser restarts: the csrf cookie goes with the session, the token  *)
(* cookie has an age of its own, and the pages are shown again.            *)
BrowserRestarts ==
  /\ WebEvent
  /\ browser' = [browser EXCEPT !.csrf = 0]
  /\ UNCHANGED <<forms, accepted, permitted, request, decided, csrfIds>>

RequestStep(r) ==
  \/ SendRequest(r) \/ AuthMiddleware(r) \/ CSRFMiddleware(r) \/ Handle(r) \/ AuditMiddleware(r)

WebNext == ChangeAccess \/ BrowserRestarts \/ \E r \in Requests : RequestStep(r)

-----------------------------------------------------------------------------
(* An approval or rejection through the dashboard is made by a user whose  *)
(* token was accepted and who was permitted at some time since the request *)
(* was sent, with a form of a page that had been answered and copies the   *)
(* cookie the request came with, never one made for this very request:     *)
(* what was revoked before, and pages of before a restart, do not decide.  *)
(* And the answer is true: a redirect or a 403 means that nothing was      *)
(* decided, a 200 that the request's user did, whatever other tabs, logins *)
(* and logouts do in between.                                              *)
DecidedByItsUser ==
  /\ \A d \in decided :
       d.by \in d.could \cap d.may /\ d.form \in forms /\ d.form = d.csrf
  /\ \A r \in Requests :
       LET made == {d \in decided : d.id = request[r].id}
       IN  request[r].step = "audit" =>
             /\ request[r].status \in {303, 403} => made = {}
             /\ request[r].path = "decide" /\ request[r].status = 200 =>
                  \E d \in made : d.by = request[r].user
=============================================================================
