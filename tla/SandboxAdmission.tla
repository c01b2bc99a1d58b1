-------------------------- MODULE SandboxAdmission --------------------------
(***************************************************************************)
(* The runtime sandbox webhook: labelled pods get the sandbox RuntimeClass *)
(* when the readiness checker finds the class and a ready node.  Requests  *)
(* overlap; they share the checker's cache and check outside its lock,     *)
(* with two reads, while the cluster changes.                              *)
(***************************************************************************)
EXTENDS Integers, FiniteSets

CONSTANTS
  Admissions,        \* admission requests in flight
  EnforcementMode,   \* "strict" or "best-effort"
  ReadinessTTL,      \* how long the checker keeps a result
  WebhookTimeout,    \* how long the API server waits for an answer
  MaxSandboxTime,    \* bound: clock
  MaxSandboxEvents   \* bound: cluster changes and API errors

ASSUME SandboxAssumption ==
  /\ EnforcementMode \in {"strict", "best-effort"}
  /\ ReadinessTTL \in Nat \ {0} /\ WebhookTimeout \in Nat
  /\ MaxSandboxTime \in Nat /\ MaxSandboxEvents \in Nat

VARIABLES
  evidence,      \* the RuntimeClass exists; a matching node is Ready
  readiness,     \* the checker's cached result
  admit,         \* admit[p]: a request
  heldLast,      \* history: when class, node and their lack were last true
  sandboxClock, sandboxEvents

sandboxVars == <<evidence, readiness, admit, heldLast, sandboxClock, sandboxEvents>>

NotChecked == [ready |-> FALSE, at |-> 0, valid |-> FALSE]
NoAdmission == [step |-> "idle", own |-> FALSE, ready |-> FALSE, began |-> 0, answer |-> "none"]

Window == ReadinessTTL + WebhookTimeout

SandboxInit ==
  /\ evidence \in [class : BOOLEAN, node : BOOLEAN]
  /\ readiness = NotChecked
  /\ admit = [p \in Admissions |-> NoAdmission]
  /\ heldLast = [class |-> 0 - Window, node |-> 0 - Window, lack |-> 0 - Window]
  /\ sandboxClock = 0 /\ sandboxEvents = 0

SandboxEvent == sandboxEvents < MaxSandboxEvents /\ sandboxEvents' = sandboxEvents + 1

-----------------------------------------------------------------------------
(* RuntimeClassInjector.Handle.                                            *)

(* own: the pod names a class itself or has no sandbox label, and is left  *)
(* alone.                                                                  *)
AdmitPod(p) ==
  /\ admit[p].step = "idle"
  /\ \E own \in BOOLEAN :
       admit' = [admit EXCEPT ![p] =
         [NoAdmission EXCEPT !.step = "handle", !.own = own, !.began = sandboxClock]]
  /\ UNCHANGED <<evidence, readiness, heldLast, sandboxClock, sandboxEvents>>

shouldInjectRuntimeClass(p) == ~admit[p].own

inTime(p) == sandboxClock - admit[p].began <= WebhookTimeout

AnswerAdmission(p, answer) ==
  admit' = [admit EXCEPT ![p] = [NoAdmission EXCEPT !.answer = answer]]

(* Denied in strict mode, otherwise allowed without the sandbox.           *)
readinessFailureResponse(why) ==
  IF EnforcementMode = "best-effort" THEN [allowed |-> TRUE, why |-> why]
                                     ELSE [allowed |-> FALSE, why |-> why]

respond(p, ready) ==
  AnswerAdmission(p, IF ready THEN [allowed |-> TRUE, why |-> "injected"]
                              ELSE readinessFailureResponse("unready"))

SkipInjection(p) ==
  /\ admit[p].step = "handle" /\ ~shouldInjectRuntimeClass(p) /\ inTime(p)
  /\ AnswerAdmission(p, [allowed |-> TRUE, why |-> "skipped"])
  /\ UNCHANGED <<evidence, readiness, heldLast, sandboxClock, sandboxEvents>>

-----------------------------------------------------------------------------
(* KubernetesSandboxReadinessChecker.IsReady.                              *)

cacheHit == readiness.valid /\ sandboxClock - readiness.at < ReadinessTTL

(* Mutant: a hit renews the cached result.                                 *)
UseCached_Sliding(p) ==
  /\ admit[p].step = "handle" /\ shouldInjectRuntimeClass(p) /\ cacheHit /\ inTime(p)
  /\ respond(p, readiness.ready)
  /\ readiness' = [readiness EXCEPT !.at = sandboxClock]
  /\ UNCHANGED <<evidence, heldLast, sandboxClock, sandboxEvents>>

UseCached(p) ==
  /\ admit[p].step = "handle" /\ shouldInjectRuntimeClass(p) /\ cacheHit /\ inTime(p)
  /\ respond(p, readiness.ready)
  /\ UNCHANGED <<evidence, readiness, heldLast, sandboxClock, sandboxEvents>>

(* check: the RuntimeClass first, then, if there is one, the nodes.        *)
ReadRuntimeClass(p) ==
  /\ admit[p].step = "handle" /\ shouldInjectRuntimeClass(p) /\ ~cacheHit
  /\ admit' = [admit EXCEPT ![p].step = IF evidence.class THEN "nodes" ELSE "store"]
  /\ UNCHANGED <<evidence, readiness, heldLast, sandboxClock, sandboxEvents>>

ReadNodes(p) ==
  /\ admit[p].step = "nodes"
  /\ admit' = [admit EXCEPT ![p].step = "store", ![p].ready = evidence.node]
  /\ UNCHANGED <<evidence, readiness, heldLast, sandboxClock, sandboxEvents>>

(* A result is stored unless the request's context is over; a slow check   *)
(* may store over a later one.                                             *)
StoreReadiness(p) ==
  /\ admit[p].step = "store" /\ inTime(p)
  /\ readiness' = [ready |-> admit[p].ready, at |-> sandboxClock, valid |-> TRUE]
  /\ respond(p, admit[p].ready)
  /\ UNCHANGED <<evidence, heldLast, sandboxClock, sandboxEvents>>

(* An API error: the request's own answer, and nothing is stored.          *)
CheckFails(p) ==
  /\ \/ admit[p].step = "handle" /\ shouldInjectRuntimeClass(p) /\ ~cacheHit
     \/ admit[p].step = "nodes"
  /\ inTime(p) /\ SandboxEvent
  /\ AnswerAdmission(p, readinessFailureResponse("error"))
  /\ UNCHANGED <<evidence, readiness, heldLast, sandboxClock>>

(* The API server gave up (failurePolicy Fail): the context is over.       *)
AdmissionTimesOut(p) ==
  /\ admit[p].step # "idle" /\ ~inTime(p)
  /\ AnswerAdmission(p, [allowed |-> FALSE, why |-> "timeout"])
  /\ UNCHANGED <<evidence, readiness, heldLast, sandboxClock, sandboxEvents>>

-----------------------------------------------------------------------------
(* The cluster.                                                            *)

held == [class |-> evidence.class, node |-> evidence.node,
         lack |-> ~evidence.class \/ ~evidence.node]

heldUntilNow == [k \in DOMAIN held |-> IF held[k] THEN sandboxClock ELSE heldLast[k]]

NodesChange ==
  /\ SandboxEvent
  /\ evidence' \in [class : BOOLEAN, node : BOOLEAN] \ {evidence}
  /\ heldLast' = heldUntilNow
  /\ UNCHANGED <<readiness, admit, sandboxClock>>

SandboxTick ==
  /\ sandboxClock < MaxSandboxTime /\ sandboxClock' = sandboxClock + 1
  /\ heldLast' = heldUntilNow
  /\ UNCHANGED <<evidence, readiness, admit, sandboxEvents>>

SandboxNext ==
  \/ \E p \in Admissions :
       \/ AdmitPod(p) \/ SkipInjection(p) \/ UseCached(p) \/ ReadRuntimeClass(p) \/ ReadNodes(p)
       \/ StoreReadiness(p) \/ CheckFails(p) \/ AdmissionTimesOut(p)
  \/ NodesChange \/ SandboxTick

-----------------------------------------------------------------------------
(* A pod is given the sandbox only if the class and a ready node were      *)
(* there, and told they were not only if they were not, within the cache's *)
(* lifetime and the webhook's timeout before the answer: whatever requests *)
(* overlap, whichever check stores last and whatever API errors others met. *)
ReadinessIsRecent ==
  [][\A p \in Admissions :
       LET recent(k) == heldUntilNow[k] > sandboxClock - Window
           why == admit'[p].answer.why
       IN  admit[p].step # "idle" /\ admit'[p].step = "idle" =>
             /\ why = "injected" => recent("class") /\ recent("node")
             /\ why = "unready" => recent("lack")]_sandboxVars
=============================================================================
