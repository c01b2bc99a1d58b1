------------------------- MODULE WorkloadController -------------------------
(***************************************************************************)
(* The direct action path of the AgentWorkload controller and its human    *)
(* approval path: one AgentWorkload object in the API server, the operator *)
(* processes that reconcile it from a lagging informer cache, the          *)
(* admission webhook, the humans who decide and the editors who change the *)
(* spec, the MCP server that proposes and executes, and the receipt log.   *)
(*                                                                         *)
(* Every write of the object is an optimistic one: the API server refuses  *)
(* it when the resourceVersion it was computed from is not the stored one, *)
(* and a write that changes nothing keeps the resourceVersion.             *)
(***************************************************************************)
EXTENDS ApprovalProtocol, Decision, Sequences

CONSTANTS
  Operators,        \* operator processes: more than one without leader election,
                    \* as during a rolling update of the plain manifest
  Policies,         \* values of the spec fields that shape a decision: declaredIntent,
                    \* policyPacks, opaPolicy, decisionModel, approvalCapture
  Strict,           \* the policies whose opaPolicy is set to "strict"
  Escalating,       \* the policies whose decision model mode is "escalate"
  LayersOf,         \* findings of the layers per policy and action, INV-05 aside
  ReceiptsEnabled, ReceiptsRequired,
  Webhooks,         \* is the AgentWorkload webhook registered: the cases to consider
  Gates,            \* may a gate before the direct path fail
  Restores,         \* may a status write from outside restore a decided action
  MaxConsumed,      \* maxConsumedApprovalIDs
  MaxDecisions,     \* bound: decisions taken on the direct path
  MaxEdits,         \* bound: spec and annotation writes by clients
  MaxFaults         \* bound: crashes, failed calls, restored statuses

ASSUME ControllerAssumption ==
  /\ Policies # {}
  /\ Strict \subseteq Policies /\ Escalating \subseteq Policies
  /\ LayersOf \in [Policies -> [Actions -> Layers]]
  /\ ReceiptsEnabled \in BOOLEAN /\ ReceiptsRequired \in BOOLEAN
  /\ Webhooks \subseteq BOOLEAN /\ Gates \in BOOLEAN /\ Restores \in BOOLEAN
  /\ MaxConsumed \in Nat \ {0}
  /\ MaxDecisions \in Nat /\ MaxEdits \in Nat /\ MaxFaults \in Nat

VARIABLES
  obj,      \* the stored AgentWorkload
  cache,    \* per operator: its informer's copy, possibly old
  pc,       \* per operator: where its reconcile is
  wl,       \* per operator: the object its reconcile works on
  job,      \* per operator: the decision its reconcile carries
  log,      \* the decisions taken on the direct path, in order
  human,    \* the human decision receipts stored
  view,     \* per user: what its agentctl last read, resourceVersion and pending id
  decided,  \* the decisions the webhook stamped
  execs,    \* the execute_action calls made to the MCP server, in order
  webhook,  \* is the AgentWorkload webhook registered in this cluster
  edits, faults

vars == <<obj, cache, pc, wl, job, log, human, view, decided, execs, webhook, edits, faults>>
opVars == <<cache, pc, wl, job>>
clientVars == <<view, decided, webhook, edits>>

-----------------------------------------------------------------------------
(* State.                                                                  *)

Phases == {"", "PendingApproval", "PolicyDenied", "Completed", "Failed", "Rejected"}
States == {"", "Recording", "Executing"}

(* ApprovalDecision condition reasons that hold a decision.                *)
Holds == {"", "ApprovalReplay", "MissingApprovalStamp", "ApprovalStampKeyMissing",
          "ApprovalStampInvalid", "InvalidDecision", "ReceiptFailed", "Decided"}

(* status.pendingApproval.  policy stands for the decision record it       *)
(* carries: the packs and mode the reviewer is shown.                      *)
Pendings == [id : Nat, action : Actions \cup {NoAction}, policy : Policies,
             state : States, decision : Labels \cup {""}]

(* The AgentWorkload: resourceVersion, spec, annotations, status.          *)
Objects == [rv : Nat, policy : Policies, ann : Annotations, phase : Phases,
            pending : Pendings, last : Nat, consumed : Seq(Nat), hold : Holds]

(* Fields of absent records hold these.                                    *)
AnyPolicy == CHOOSE p \in Policies : TRUE
NoPending == [id |-> 0, action |-> NoAction, policy |-> AnyPolicy, state |-> "", decision |-> ""]
NoObject == [rv |-> 0, policy |-> AnyPolicy, ann |-> NoAnnotations, phase |-> "",
             pending |-> NoPending, last |-> 0, consumed |-> <<>>, hold |-> ""]

(* The decision one reconcile carries: its id (receipt entry hash or input *)
(* hash and time: unique), the action it would execute, the human label,   *)
(* whether findings block it, whether a receipt was returned for it, and   *)
(* the policy stored when the API server accepted the reservation.         *)
Jobs == [id : Nat, action : Actions \cup {NoAction}, label : Labels \cup {""},
         blocked : BOOLEAN, receipted : BOOLEAN, granted : Policies]

NoJob == [id |-> 0, action |-> NoAction, label |-> "", blocked |-> FALSE,
          receipted |-> FALSE, granted |-> AnyPolicy]

Steps == {"idle", "reserve", "execute", "receipt", "mark", "run", "commit"}

TypeOK ==
  /\ obj \in Objects
  /\ cache \in [Operators -> Objects]
  /\ pc \in [Operators -> Steps]
  /\ wl \in [Operators -> Objects]
  /\ job \in [Operators -> Jobs]
  /\ log \in Seq([action : Actions, policy : Policies, outcome : Outcomes, stored : BOOLEAN])
  /\ human \subseteq [id : Nat, label : Labels, action : Actions]
  /\ view \in [Users -> [rv : Nat, id : Nat]]
  /\ decided \subseteq [id : Nat, seen : Nat, label : Labels, edit : Actions \cup {NoAction}]
  /\ execs \in Seq([id : Nat, label : Labels \cup {""}, action : Actions,
                    granted : Policies, policy : Policies])
  /\ webhook \in Webhooks
  /\ edits \in 0 .. MaxEdits
  /\ faults \in 0 .. MaxFaults

Init ==
  /\ \E p \in Policies : obj = [NoObject EXCEPT !.rv = 1, !.policy = p]
  /\ cache = [o \in Operators |-> obj]
  /\ wl = [o \in Operators |-> NoObject]
  /\ job = [o \in Operators |-> NoJob]
  /\ pc = [o \in Operators |-> "idle"]
  /\ log = <<>> /\ human = {} /\ execs = <<>>
  /\ view = [u \in Users |-> [rv |-> 0, id |-> 0]] /\ decided = {}
  /\ webhook \in Webhooks
  /\ edits = 0 /\ faults = 0

-----------------------------------------------------------------------------
(* The API server.                                                         *)

(* The object after an accepted write of new: a no-op write keeps the      *)
(* resourceVersion, any other gets the next one.                           *)
Stored(new) == IF [new EXCEPT !.rv = obj.rv] = obj THEN obj ELSE [new EXCEPT !.rv = obj.rv + 1]

Fresh(new) == new.rv = obj.rv

(* r.Status().Update of new, whose error only ends the reconcile.  Touch   *)
(* is one that also writes the time, so that it always changes something.  *)
Update(new) == obj' = IF Fresh(new) THEN Stored(new) ELSE obj
Touch(new) == obj' = IF Fresh(new) THEN [new EXCEPT !.rv = obj.rv + 1] ELSE obj

(* A fault: a crash, or a call that fails.                                 *)
Fault == faults < MaxFaults /\ faults' = faults + 1
NoFault == UNCHANGED faults

(* Calls that may fail: each outcome but the good one is a fault.          *)
Outcome(res, good) == IF res = good THEN NoFault ELSE Fault

EndReconcile(o) ==
  /\ pc' = [pc EXCEPT ![o] = "idle"]
  /\ job' = [job EXCEPT ![o] = NoJob]
  /\ wl' = [wl EXCEPT ![o] = NoObject]

-----------------------------------------------------------------------------
(* Reconcile, up to the direct path.                                       *)

(* Mutants: a rejected, or a held, workload is proposed to again.          *)
OnDirectPath_Rejected(w) == ~(w.phase = "PendingApproval" /\ w.pending.id # 0)
OnDirectPath_Held(w) == w.phase # "Rejected"

OnDirectPath(w) ==
  /\ w.phase # "Rejected"
  /\ ~(w.phase = "PendingApproval" /\ w.pending.id # 0)

OnApprovalPath(w) == w.phase = "PendingApproval" /\ w.pending.id # 0

(* A gate before the direct path fails: a template annotation, an invalid  *)
(* policy pack, the licence, the quota.  Each sets phase Failed and        *)
(* returns, whatever the phase was.                                        *)
GateFails(o) ==
  /\ Gates
  /\ pc[o] = "idle"
  /\ Update([cache[o] EXCEPT !.phase = "Failed"])
  /\ UNCHANGED <<opVars, log, human, execs, clientVars, faults>>

(* The MCP server fails or proposes nonsense: phase Failed.                *)
ProposeFails(o) ==
  /\ pc[o] = "idle"
  /\ OnDirectPath(cache[o])
  /\ Update([cache[o] EXCEPT !.phase = "Failed"])
  /\ UNCHANGED <<opVars, log, human, execs, clientVars, faults>>

(* Is the receipt writer ready: it matters only where it is required.      *)
Readiness == IF ReceiptsEnabled /\ ReceiptsRequired THEN BOOLEAN ELSE {TRUE}

(* The layers of an action under a policy, INV-05 included.                *)
evaluateLayers(policy, action, ready) ==
  LET l == LayersOf[policy][action]
  IN  [l EXCEPT !.inv = l.inv \/ receiptsInvariant(ReceiptsEnabled, ReceiptsRequired, ready)]

(* The receipt of the decision: "off" when receipts are disabled, "lost"   *)
(* when it was stored but the reply was not.                               *)
Appends == IF ReceiptsEnabled THEN {"ok", "lost", "failed"} ELSE {"off"}
Good == IF ReceiptsEnabled THEN "ok" ELSE "off"

(* Decide, the model, then recordDecision with append outcome app.  escal: *)
(* the model scored at or above its threshold, or failed.                  *)
decideAction(policy, action, ready, escal, app) ==
  LET l == evaluateLayers(policy, action, ready)
      base == Decide(l)
      r == IF policy \in Escalating /\ escal
           THEN ApplyModel(base, 1, 1, FALSE, "escalate", 1) ELSE base
  IN  IF ReceiptsRequired /\ app \in {"lost", "failed"} THEN failClosed(l) ELSE r

(* Where a decision that does not allow leaves the workload.               *)
notAllowed(w, id, action, outcome) ==
  IF outcome = "deny" /\ w.policy \in Strict
  THEN [w EXCEPT !.phase = "PolicyDenied", !.pending = NoPending]
  ELSE [w EXCEPT !.phase = "PendingApproval",
                 !.pending = [id |-> id, action |-> action, policy |-> w.policy,
                              state |-> "", decision |-> ""]]

(* Propose, evaluate, write the decision receipt.  An allowed action goes  *)
(* on to its reservation, any other to the final status update.            *)
ProposeAndDecide(o) ==
  /\ pc[o] = "idle"
  /\ OnDirectPath(cache[o])
  /\ Len(log) < MaxDecisions
  /\ \E a \in Actions, ready \in Readiness, escal \in BOOLEAN, app \in Appends :
       LET w == cache[o]
           id == Len(log) + 1
           r == decideAction(w.policy, a, ready, escal, app)
       IN  /\ Outcome(<<ready, app>>, <<TRUE, Good>>)
           /\ log' = Append(log, [action |-> a, policy |-> w.policy, outcome |-> r.outcome,
                                  stored |-> app \in {"ok", "lost"}])
           /\ IF r.outcome = "allow"
              THEN /\ pc' = [pc EXCEPT ![o] = "reserve"]
                   /\ wl' = [wl EXCEPT ![o] = w]
                   /\ job' = [job EXCEPT ![o] = [id |-> id, action |-> a, label |-> "",
                                                 blocked |-> FALSE, receipted |-> app = "ok",
                                                 granted |-> w.policy]]
              ELSE /\ pc' = [pc EXCEPT ![o] = "commit"]
                   /\ wl' = [wl EXCEPT ![o] = notAllowed(w, id, a, r.outcome)]
                   /\ job' = [job EXCEPT ![o] = NoJob]
  /\ UNCHANGED <<obj, cache, human, execs, clientVars>>

(* Mutant: the reservation takes whatever version is stored.               *)
ReserveExecution_Unchecked(o) ==
  /\ pc[o] = "reserve"
  /\ obj' = [obj EXCEPT !.rv = @ + 1]
  /\ pc' = [pc EXCEPT ![o] = "execute"]
  /\ wl' = [wl EXCEPT ![o] = obj']
  /\ job' = [job EXCEPT ![o].granted = obj.policy]
  /\ UNCHANGED <<cache, log, human, execs, clientVars, faults>>

(* reserveExecution: a status write on the version the decision read.  Its *)
(* condition names the receipt, so it changes the object; without one the  *)
(* same condition may be there already, from the same second.  A conflict  *)
(* ends the reconcile before any side effect.                              *)
ReserveExecution(o) ==
  /\ pc[o] = "reserve"
  /\ IF Fresh(wl[o])
     THEN /\ \/ obj' = [wl[o] EXCEPT !.rv = obj.rv + 1]
             \/ ~job[o].receipted /\ obj' = obj
          /\ pc' = [pc EXCEPT ![o] = "execute"]
          /\ wl' = [wl EXCEPT ![o] = obj']
          /\ job' = [job EXCEPT ![o].granted = obj.policy]
     ELSE /\ obj' = obj
          /\ EndReconcile(o)
  /\ UNCHANGED <<cache, log, human, execs, clientVars, faults>>

(* The MCP call: it ran and answered, ran and the answer was lost, or did  *)
(* not run.                                                                *)
Calls == {"ok", "lost", "failed"}

Ran(o, res) ==
  execs' = IF res = "failed" THEN execs
           ELSE Append(execs, [id |-> job[o].id, label |-> job[o].label, action |-> job[o].action,
                               granted |-> job[o].granted, policy |-> obj.policy])

(* execute_action of an allowed action, then the status to commit.         *)
ExecuteAllowed(o) ==
  /\ pc[o] = "execute"
  /\ \E res \in Calls :
       /\ Outcome(res, "ok")
       /\ Ran(o, res)
       /\ wl' = [wl EXCEPT ![o].phase = IF res = "ok" THEN "Completed" ELSE "Failed",
                           ![o].pending = NoPending]
  /\ pc' = [pc EXCEPT ![o] = "commit"]
  /\ job' = [job EXCEPT ![o] = NoJob]
  /\ UNCHANGED <<obj, cache, log, human, clientVars>>

(* The last status update of a reconcile.  A conflict loses it.            *)
Commit(o) ==
  /\ pc[o] = "commit"
  /\ Touch(wl[o])
  /\ EndReconcile(o)
  /\ UNCHANGED <<cache, log, human, execs, clientVars, faults>>

-----------------------------------------------------------------------------
(* reconcileApproval.                                                      *)

approvalConsumed(w, id) == w.last = id \/ \E i \in 1 .. Len(w.consumed) : w.consumed[i] = id

(* finishApproval: the id is consumed, the oldest ones are forgotten.      *)
consume(s, id) ==
  LET t == Append(s, id)
  IN  IF Len(t) > MaxConsumed THEN SubSeq(t, Len(t) - MaxConsumed + 1, Len(t)) ELSE t

finishApproval(w, phase) ==
  [w EXCEPT !.last = w.pending.id, !.consumed = consume(w.consumed, w.pending.id),
            !.pending = NoPending, !.phase = phase, !.hold = "Decided"]

(* holdApproval: nothing is written when the same reason is already shown  *)
(* and w holds no state, whatever the stored object holds.                 *)
holdApproval(w, reason) ==
  IF w.hold = reason /\ w.pending.state = "" THEN obj' = obj
  ELSE Touch([w EXCEPT !.hold = reason])

(* A pending action whose id was already decided.                          *)
HoldReplay(o) ==
  /\ pc[o] = "idle"
  /\ OnApprovalPath(cache[o])
  /\ approvalConsumed(cache[o], cache[o].pending.id)
  /\ holdApproval(cache[o], "ApprovalReplay")
  /\ UNCHANGED <<opVars, log, human, execs, clientVars, faults>>

(* Mutant: a workload left Executing is left alone.                        *)
FinishUnknown_Never(o) == FALSE /\ UNCHANGED vars

(* The previous reconcile may have executed: never run it again.           *)
FinishUnknown(o) ==
  /\ pc[o] = "idle"
  /\ OnApprovalPath(cache[o])
  /\ ~approvalConsumed(cache[o], cache[o].pending.id)
  /\ cache[o].pending.state = "Executing"
  /\ Touch(finishApproval(cache[o], "Failed"))
  /\ UNCHANGED <<opVars, log, human, execs, clientVars, faults>>

(* Mutant: an action left Executing is decided again.                      *)
Undecided_Executing(w) == OnApprovalPath(w) /\ ~approvalConsumed(w, w.pending.id)

(* A pending action that is neither consumed nor executing: Read it.       *)
Reads(w) == Read(w.ann, w.pending.id, w.pending.action)

Undecided(w) ==
  /\ OnApprovalPath(w)
  /\ ~approvalConsumed(w, w.pending.id)
  /\ w.pending.state # "Executing"

(* A decision that is unstamped or does not verify is not acted on.        *)
HoldUnverified(o) ==
  /\ pc[o] = "idle"
  /\ Undecided(cache[o])
  /\ Reads(cache[o]) \notin {"wait", "ok"}
  /\ holdApproval(cache[o], Reads(cache[o]))
  /\ UNCHANGED <<opVars, log, human, execs, clientVars, faults>>

(* Mutant: an edit runs the action as it was proposed.                     *)
target_Proposed(w) == w.pending.action

(* The action a human decision applies to.                                 *)
target(w) == IF w.ann.label = "edit" THEN w.ann.edit ELSE w.pending.action

(* A verified decision: evaluate the action again (not for a reject), then *)
(* persist the intent.  A stale read fails here, before any side effect.   *)
RecordIntent(o) ==
  /\ pc[o] = "idle"
  /\ Undecided(cache[o])
  /\ Reads(cache[o]) = "ok"
  /\ \E ready \in Readiness :
       LET w == cache[o]
           label == w.ann.label
           new == [w EXCEPT !.pending.state = "Recording", !.pending.decision = label]
       IN  /\ Outcome(ready, TRUE)
           /\ Fresh(w)
           /\ obj' = Stored(new)
           /\ pc' = [pc EXCEPT ![o] = "receipt"]
           /\ wl' = [wl EXCEPT ![o] = obj']
           /\ job' = [job EXCEPT ![o] =
                [id |-> w.pending.id, action |-> target(w), label |-> label,
                 blocked |-> label # "reject" /\ humanBlocked(evaluateLayers(w.policy, target(w), ready)),
                 receipted |-> FALSE, granted |-> w.policy]]
  /\ UNCHANGED <<cache, log, human, execs, clientVars>>

(* The human receipt, and what follows it without a further write: a       *)
(* required receipt that was not written holds the decision; a reject      *)
(* finishes; a blocked action gets its deny receipt and finishes; anything *)
(* else goes on to execute.                                                *)
ReceiptRefused_Never(app) == FALSE
ReceiptRefused(app) == ReceiptsRequired /\ app \in {"lost", "failed"}

withReceipt(o, app) ==
  IF app \in {"ok", "lost"}
  THEN human \cup {[id |-> job[o].id, label |-> job[o].label, action |-> job[o].action]}
  ELSE human

HoldReceiptFailed(o) ==
  /\ pc[o] = "receipt"
  /\ Fault
  /\ \E app \in Appends :
       /\ ReceiptRefused(app)
       /\ human' = withReceipt(o, app)
  /\ holdApproval([wl[o] EXCEPT !.pending.state = "", !.pending.decision = ""], "ReceiptFailed")
  /\ EndReconcile(o)
  /\ UNCHANGED <<cache, log, execs, clientVars>>

HumanReceipt(o) ==
  /\ pc[o] = "receipt"
  /\ \E app \in Appends :
       /\ ~ReceiptRefused(app)
       /\ Outcome(app, Good)
       /\ human' = withReceipt(o, app)
  /\ \/ /\ job[o].label = "reject"
        /\ wl' = [wl EXCEPT ![o] = finishApproval(wl[o], "Rejected")]
        /\ pc' = [pc EXCEPT ![o] = "commit"]
        /\ UNCHANGED log
     \/ /\ job[o].label # "reject" /\ job[o].blocked
        /\ wl' = [wl EXCEPT ![o] = finishApproval(wl[o], "PolicyDenied")]
        /\ pc' = [pc EXCEPT ![o] = "commit"]
        /\ \E stored \in {ReceiptsEnabled, FALSE} :
             log' = Append(log, [action |-> job[o].action, policy |-> wl[o].policy,
                                 outcome |-> "deny", stored |-> stored])
     \/ /\ job[o].label # "reject" /\ ~job[o].blocked
        /\ pc' = [pc EXCEPT ![o] = "mark"]
        /\ UNCHANGED <<wl, log>>
  /\ UNCHANGED <<obj, cache, job, execs, clientVars>>

(* State Executing is stored before the call.                              *)
MarkExecuting(o) ==
  /\ pc[o] = "mark"
  /\ IF Fresh(wl[o])
     THEN /\ obj' = Stored([wl[o] EXCEPT !.pending.state = "Executing"])
          /\ pc' = [pc EXCEPT ![o] = "run"]
          /\ wl' = [wl EXCEPT ![o] = obj']
          /\ job' = [job EXCEPT ![o].granted = obj.policy]
     ELSE /\ obj' = obj
          /\ EndReconcile(o)
  /\ UNCHANGED <<cache, log, human, execs, clientVars, faults>>

(* execute_action of the approved action, then finishApproval.             *)
RunApproved(o) ==
  /\ pc[o] = "run"
  /\ \E res \in Calls :
       /\ Outcome(res, "ok")
       /\ Ran(o, res)
       /\ wl' = [wl EXCEPT ![o] = finishApproval(wl[o], IF res = "ok" THEN "Completed" ELSE "Failed")]
  /\ pc' = [pc EXCEPT ![o] = "commit"]
  /\ UNCHANGED <<obj, cache, job, log, human, clientVars>>

-----------------------------------------------------------------------------
(* Around the controller.                                                  *)

(* The informer catches up.                                                *)
Sync(o) ==
  /\ cache[o] # obj
  /\ cache' = [cache EXCEPT ![o] = obj]
  /\ UNCHANGED <<obj, pc, wl, job, log, human, execs, clientVars, faults>>

(* The process stops: what its reconcile held in memory is gone.           *)
Crash(o) ==
  /\ pc[o] # "idle"
  /\ Fault
  /\ obj' = obj
  /\ EndReconcile(o)
  /\ UNCHANGED <<cache, log, human, execs, clientVars>>

Edit == edits < MaxEdits /\ edits' = edits + 1

(* The pending action the webhook sees: none unless the phase holds one.   *)
webhookPending == IF obj.phase = "PendingApproval" THEN obj.pending.id ELSE 0

(* agentctl approve, reject and edit-approve read the workload ...         *)
ReadPending(u) ==
  /\ obj.phase = "PendingApproval" /\ obj.pending.id # 0
  /\ view[u].rv # obj.rv
  /\ view' = [view EXCEPT ![u] = [rv |-> obj.rv, id |-> obj.pending.id]]
  /\ UNCHANGED <<obj, opVars, log, human, decided, execs, webhook, edits, faults>>

(* Mutant: the patch carries no resourceVersion.                           *)
PatchDecision_Unconditional(u, label, edit) ==
  LET new == [NoAnnotations EXCEPT !.label = label, !.edit = edit]
      id == webhookPending
  IN  /\ webhook
      /\ Edit
      /\ view[u].rv # 0
      /\ Admits(obj.ann, new, id)
      /\ obj' = [obj EXCEPT !.ann = Stamped(obj.ann, new, id, obj.pending.action, u), !.rv = @ + 1]
      /\ decided' = decided \cup {[id |-> id, seen |-> view[u].id, label |-> label, edit |-> edit]}
      /\ UNCHANGED <<opVars, log, human, view, execs, webhook, faults>>

(* ... and patch the decision with the resourceVersion they read, stamps   *)
(* cleared; the webhook admits and stamps it.                              *)
PatchDecision(u, label, edit) ==
  LET new == [NoAnnotations EXCEPT !.label = label, !.edit = edit]
      id == webhookPending
  IN  /\ webhook
      /\ Edit
      /\ view[u].rv = obj.rv
      /\ Admits(obj.ann, new, id)
      /\ obj' = [obj EXCEPT !.ann = Stamped(obj.ann, new, id, obj.pending.action, u), !.rv = @ + 1]
      /\ decided' = decided \cup {[id |-> id, seen |-> view[u].id, label |-> label, edit |-> edit]}
      /\ UNCHANGED <<opVars, log, human, view, execs, webhook, faults>>

(* A client clears a decision.                                             *)
ClearDecision ==
  /\ webhook
  /\ Edit
  /\ obj.ann # NoAnnotations
  /\ Admits(obj.ann, NoAnnotations, webhookPending)
  /\ obj' = [obj EXCEPT !.ann = NoAnnotations, !.rv = @ + 1]
  /\ UNCHANGED <<opVars, log, human, view, decided, execs, webhook, faults>>

(* With the webhook off, nothing stamps: a client may write any label and  *)
(* any approver, but no MAC that verifies.                                 *)
AnnotateUnadmitted(by, label) ==
  /\ ~webhook
  /\ Edit
  /\ obj' = [obj EXCEPT !.ann = [NoAnnotations EXCEPT !.label = label, !.by = by,
                                                      !.for = obj.pending.id], !.rv = @ + 1]
  /\ UNCHANGED <<opVars, log, human, view, decided, execs, webhook, faults>>

(* Mutant: nothing is frozen.                                              *)
frozen_Never == FALSE

(* validateApprovalFreeze: the deciding fields are frozen while an action  *)
(* is held or a decision is being recorded.                                *)
frozen == obj.pending.id # 0 /\ (obj.phase = "PendingApproval" \/ obj.pending.state # "")

EditPolicy(policy) ==
  /\ Edit
  /\ webhook => ~frozen
  /\ policy # obj.policy
  /\ obj' = [obj EXCEPT !.policy = policy, !.rv = @ + 1]
  /\ UNCHANGED <<opVars, log, human, view, decided, execs, webhook, faults>>

(* A status write from outside (a restored backup) puts a decided action   *)
(* back as pending.                                                        *)
RestorePending ==
  /\ Restores
  /\ Fault
  /\ \E i \in 1 .. Len(obj.consumed) :
       LET id == obj.consumed[i]
       IN  obj' = [obj EXCEPT !.phase = "PendingApproval", !.rv = @ + 1,
                              !.pending = [id |-> id, action |-> log[id].action,
                                           policy |-> log[id].policy, state |-> "", decision |-> ""]]
  /\ UNCHANGED <<opVars, log, human, execs, clientVars>>

Reconcile(o) ==
  \/ GateFails(o) \/ ProposeFails(o)
  \/ ProposeAndDecide(o) \/ ReserveExecution(o) \/ ExecuteAllowed(o) \/ Commit(o)
  \/ HoldReplay(o) \/ FinishUnknown(o) \/ HoldUnverified(o)
  \/ RecordIntent(o) \/ HoldReceiptFailed(o) \/ HumanReceipt(o)
  \/ MarkExecuting(o) \/ RunApproved(o)

Client ==
  \/ \E u \in Users : ReadPending(u)
  \/ \E u \in Users, l \in Labels, e \in Actions \cup {NoAction} : PatchDecision(u, l, e)
  \/ ClearDecision
  \/ \E by \in Users \cup {NoUser}, l \in Labels : AnnotateUnadmitted(by, l)
  \/ \E p \in Policies : EditPolicy(p)
  \/ RestorePending

Next == Client \/ \E o \in Operators : Reconcile(o) \/ Sync(o) \/ Crash(o)

Spec == Init /\ [][Next]_vars

(* The work queue keeps the workload: a watch event enqueues it, and every *)
(* reconcile ends in an error (retried) or a RequeueAfter.  The informer   *)
(* eventually delivers.  Nothing is assumed of clients.                    *)
Fairness == \A o \in Operators : WF_vars(Reconcile(o)) /\ WF_vars(Sync(o))

FairSpec == Spec /\ Fairness

-----------------------------------------------------------------------------
(* Properties.                                                             *)

Executions == DOMAIN execs
ByHuman(e) == e.label # ""

(* "It cannot execute twice": whatever crashes, replays, restored statuses *)
(* and concurrent operators do, the controller makes at most one CallTool  *)
(* of execute_action per decision id.  (What the retries inside one call   *)
(* do is McpTools'.)                                                       *)
AtMostOncePerDecision ==
  \A i, j \in Executions : execs[i].id = execs[j].id => i = j

(* Write-ahead: with receipts enabled and required, the receipt of every   *)
(* executed action was stored, the allow decision of a direct execution    *)
(* and the human decision (same label, same action) of an approved one.    *)
ReceiptBeforeExecution ==
  (ReceiptsEnabled /\ ReceiptsRequired) =>
    \A i \in Executions :
      LET e == execs[i]
      IN  IF ByHuman(e) THEN [id |-> e.id, label |-> e.label, action |-> e.action] \in human
          ELSE log[e.id].stored

(* An action runs on the direct path only when it was allowed by the       *)
(* policy stored when its execution was reserved; an approved action only  *)
(* when that policy does not deny it outright: a stale decision never      *)
(* executes, and a human resolves approval and threshold findings only.    *)
ExecutedUnderStoredPolicy ==
  \A i \in Executions :
    LET e == execs[i]
        l == LayersOf[e.granted][e.action]
    IN  IF ByHuman(e) THEN ~humanBlocked(l) ELSE Decide(l).outcome = "allow"

(* An approved action is executed only on a decision that the webhook      *)
(* stamped for this very pending action: the proposed action for approve,  *)
(* the edited one for edit, and never after a reject.  Without the webhook *)
(* nothing is ever stamped: approvals fail closed.                         *)
HumanExecutionWasDecided ==
  \A i \in Executions :
    LET e == execs[i]
    IN  ByHuman(e) =>
          \E d \in decided :
            /\ d.id = e.id /\ d.label = e.label /\ d.label # "reject"
            /\ e.action = IF d.label = "edit" THEN d.edit ELSE log[e.id].action

(* The freeze: an approved action runs under the policy its reviewer was   *)
(* shown, still stored when the call is made.  (Without the webhook there  *)
(* is no freeze, and nothing to run either.)  It takes a single operator:  *)
(* a second one mistakes the Executing it finds for a crash, consumes the  *)
(* decision, and with it ends the freeze before the first has called.      *)
ExecutedUnderReviewedPolicy ==
  \A i \in Executions :
    ByHuman(execs[i]) => execs[i].policy = log[execs[i].id].policy

(* A decision recorded with agentctl applies to the pending action that    *)
(* was read, never to one that replaced it in between.                     *)
DecidedWhatWasRead == \A d \in decided : d.id = d.seen

(* Every execution is authorised: by the policy stored when it was         *)
(* reserved and, on the human path, by a stamped decision on the pending   *)
(* action its reader saw and, with one operator, under the policy the      *)
(* reviewer was shown.                                                     *)
ExecutionIsAuthorised ==
  /\ ExecutedUnderStoredPolicy /\ HumanExecutionWasDecided /\ DecidedWhatWasRead
  /\ (\A o, p \in Operators : o = p) => ExecutedUnderReviewedPolicy

(* No action that was executed has a human receipt of a rejection, and the *)
(* receipts of one id never disagree.                                      *)
HumanReceiptsAgree ==
  \A r1, r2 \in human : r1.id = r2.id => r1 = r2

(* "Rejected is terminal on the direct path."                              *)
RejectedIsTerminal == [][obj.phase = "Rejected" => obj'.phase = "Rejected"]_vars

(* "A held action is resolved by a human decision, not re-proposed": a     *)
(* pending action leaves the status only by its id being consumed.         *)
HeldUntilDecided ==
  [][(obj.pending.id # 0 /\ obj'.pending.id # obj.pending.id)
       => approvalConsumed(obj', obj.pending.id)]_vars

(* A stamped decision does not stay pending: once the stored object holds  *)
(* one for its pending action, that action is eventually resolved, through *)
(* conflicts, failed receipts and crashes at any step.                     *)
DecisionResolved ==
  \A id \in 1 .. MaxDecisions :
    (obj.phase = "PendingApproval" /\ obj.pending.id = id /\ Reads(obj) = "ok")
      ~> obj.pending.id # id

=============================================================================
