-------------------------- MODULE RuntimeExecution --------------------------
(***************************************************************************)
(* The orchestrated path of the AgentWorkload controller: one workload     *)
(* object, the operator that reconciles it from a lagging informer cache,  *)
(* the runtime adapters (argo, pod, kagent) with the execution each may    *)
(* create for the workload, and the finalizer that cleans them up.         *)
(*                                                                         *)
(* The reference to the execution is stored in status.argoWorkflow by a    *)
(* write of its own, after the execution was created: between the two the  *)
(* operator may crash, and the write is refused when the object changed.   *)
(*                                                                         *)
(* Two gates come before the stored reference is looked at and end the     *)
(* reconcile as Failed with no requeue: an unrendered showcase template,   *)
(* and policy packs, which no runtime enforces.                            *)
(***************************************************************************)
EXTENDS Naturals

CONSTANTS
  Types,      \* values of spec.orchestration.type: adapters and unknown names
  MaxEdits,   \* bound: edits of the type, the annotation and the packs
  MaxFaults   \* bound: crashes, failed calls, refusals of licence or quota

Runtimes == {"argo", "pod", "kagent"}

ASSUME RuntimeAssumption ==
  /\ Runtimes \subseteq Types /\ "none" \notin Types
  /\ MaxEdits \in Nat /\ MaxFaults \in Nat

VARIABLES
  obj,        \* the stored AgentWorkload
  cache,      \* the operator's informer copy
  pc,         \* where the operator's reconcile is
  wl,         \* the object the reconcile works on
  exec,       \* per runtime: the phase of the workload's execution there
  succeeded,  \* history: the runtimes whose execution reached Succeeded
  edits, faults

vars == <<obj, cache, pc, wl, exec, succeeded, edits, faults>>
bounds == <<edits, faults>>

-----------------------------------------------------------------------------
(* State.                                                                  *)

(* Where the code has the empty string the model has "none".               *)
Phases == {"none", "Running", "Completed", "Failed"}

(* Execution phases.  "none" is an Argo Workflow the Argo controller has   *)
(* not looked at yet, Running stands for Pending and Suspended too and     *)
(* Failed for Error, which the controller treats alike.                    *)
ExecPhases == {"none", "Running", "Succeeded", "Failed"}
Absent == "absent"

(* The AgentWorkload.  exists is FALSE once the API server has removed it, *)
(* the other fields then keep the last values it had.  ref is the runtime  *)
(* recorded in status.argoWorkflow, "none" when there is no reference.     *)
(* gates holds what a client may set that a gate refuses: the template     *)
(* annotation and a non-empty spec.policyPacks.  rejected is the condition *)
(* TemplateRejected.                                                       *)
Gates == {"template", "packs"}

Objects == [rv : Nat, exists : BOOLEAN, deleting : BOOLEAN, finalizer : BOOLEAN,
            type : Types, gates : SUBSET Gates, rejected : BOOLEAN,
            ref : Runtimes \cup {"none"}, phase : Phases]

NoWorkload ==
  [rv |-> 0, exists |-> FALSE, deleting |-> FALSE, finalizer |-> FALSE,
   type |-> "argo", gates |-> {}, rejected |-> FALSE, ref |-> "none", phase |-> "none"]

Steps == {"idle", "finalize", "dispatch", "commit", "unfinalize"}

TypeOK ==
  /\ obj \in Objects /\ cache \in Objects /\ wl \in Objects
  /\ pc \in Steps
  /\ exec \in [Runtimes -> ExecPhases \cup {Absent}]
  /\ succeeded \subseteq Runtimes
  /\ edits \in 0 .. MaxEdits /\ faults \in 0 .. MaxFaults

Init ==
  /\ \E t \in Types :
       obj = [NoWorkload EXCEPT !.rv = 1, !.exists = TRUE, !.type = t]
  /\ cache = obj /\ wl = NoWorkload
  /\ pc = "idle"
  /\ exec = [r \in Runtimes |-> Absent]
  /\ succeeded = {}
  /\ edits = 0 /\ faults = 0

-----------------------------------------------------------------------------
(* The API server: a write computed from an old version is refused, one    *)
(* that changes nothing keeps the version.                                 *)

Fresh(new) == obj.exists /\ new.rv = obj.rv
Stored(new) == IF [new EXCEPT !.rv = obj.rv] = obj THEN obj ELSE [new EXCEPT !.rv = obj.rv + 1]

EndReconcile == pc' = "idle" /\ wl' = NoWorkload

Fault == faults < MaxFaults /\ faults' = faults + 1

-----------------------------------------------------------------------------
(* Adapter selection.                                                      *)

(* Mutant: the reference is followed through the mutable spec.             *)
runtimeType_Spec(w) == w.type

(* The recorded runtime of a persisted reference, else the spec's type.    *)
runtimeType(w) == IF w.ref # "none" THEN w.ref ELSE w.type

(* Mutant: cleanup resolves the adapter from the spec.                     *)
cleanupType_Spec(w) == IF w.ref # "none" /\ w.type \in Runtimes THEN w.type ELSE w.ref

(* cleanupViaRuntime: nothing without a reference, else its runtime.       *)
cleanupType(w) == w.ref

-----------------------------------------------------------------------------
(* Reconcile of a live workload, as far as the gates and the finalizer.    *)

errored(w) == [w EXCEPT !.phase = "Failed"]

Live(w) == w.exists /\ ~w.deleting

(* An unrendered template is Failed before it gets a finalizer, and is not *)
(* looked at again until a client changes it.                              *)
TemplateGate ==
  /\ pc = "idle"
  /\ Live(cache) /\ "template" \in cache.gates
  /\ obj' = IF Fresh(cache) THEN Stored([errored(cache) EXCEPT !.rejected = TRUE]) ELSE obj
  /\ UNCHANGED <<cache, pc, wl, exec, succeeded, bounds>>

(* Once rendered, the condition is withdrawn by a write of its own.        *)
ClearRejection ==
  /\ pc = "idle"
  /\ Live(cache) /\ "template" \notin cache.gates /\ cache.rejected
  /\ IF Fresh(cache)
     THEN /\ obj' = Stored([cache EXCEPT !.rejected = FALSE])
          /\ wl' = obj' /\ pc' = "finalize"
     ELSE UNCHANGED <<obj, wl, pc>>
  /\ UNCHANGED <<cache, exec, succeeded, bounds>>

(* Writes the finalizer into w unless it is there.  A refused write ends   *)
(* the reconcile.                                                          *)
AddFinalizer(w) ==
  IF w.finalizer
  THEN obj' = obj /\ wl' = w /\ pc' = "dispatch"
  ELSE IF Fresh(w)
       THEN /\ obj' = Stored([w EXCEPT !.finalizer = TRUE])
            /\ wl' = obj' /\ pc' = "dispatch"
       ELSE obj' = obj /\ EndReconcile

FetchAndFinalize ==
  /\ \/ /\ pc = "idle"
        /\ Live(cache) /\ "template" \notin cache.gates /\ ~cache.rejected
        /\ AddFinalizer(cache)
     \/ pc = "finalize" /\ AddFinalizer(wl)
  /\ UNCHANGED <<cache, exec, succeeded, bounds>>

(* policyPackProblem: an orchestrated workload may not name packs.  The    *)
(* condition PolicyPackInvalid, which nothing reads, is left out.          *)
PackGate ==
  /\ pc = "dispatch"
  /\ "packs" \in wl.gates
  /\ wl' = errored(wl)
  /\ pc' = "commit"
  /\ UNCHANGED <<obj, cache, exec, succeeded, bounds>>

(* Past the gates: the stored reference, or the type, decides.             *)
passed(w) == "packs" \notin w.gates

(* Licence and quota are asked of workloads without a reference only.      *)
LicenceGate ==
  /\ pc = "dispatch" /\ passed(wl)
  /\ wl.ref = "none" /\ Fault
  /\ wl' = errored(wl)
  /\ pc' = "commit"
  /\ UNCHANGED <<obj, cache, exec, succeeded, edits>>

-----------------------------------------------------------------------------
(* The finalizer's removal.                                                *)

(* Mutant: an execution that is already gone is an error.                  *)
deletable_Strict(r) == exec[r] # Absent

(* Cleanup of every adapter takes NotFound for success.                    *)
deletable(r) == TRUE

(* Reconcile of a workload being deleted: delete the execution its         *)
(* reference names, through the recorded adapter.  A failed call requeues. *)
Cleanup ==
  /\ pc = "idle"
  /\ cache.exists /\ cache.deleting /\ cache.finalizer
  /\ LET r == cleanupType(cache)
     IN  \/ /\ r = "none"
            /\ UNCHANGED exec
         \/ /\ r # "none" /\ deletable(r)
            /\ exec' = [exec EXCEPT ![r] = Absent]
  /\ pc' = "unfinalize" /\ wl' = cache
  /\ UNCHANGED <<obj, cache, succeeded, bounds>>

CleanupFails ==
  /\ pc = "idle"
  /\ cache.exists /\ cache.deleting /\ cache.finalizer /\ cleanupType(cache) # "none"
  /\ Fault
  /\ UNCHANGED <<obj, cache, pc, wl, exec, succeeded, edits>>

(* Removing the last finalizer of an object being deleted removes it.      *)
RemoveFinalizer ==
  /\ pc = "unfinalize"
  /\ obj' = IF Fresh(wl) THEN [wl EXCEPT !.rv = @ + 1, !.exists = FALSE, !.finalizer = FALSE]
            ELSE obj
  /\ EndReconcile
  /\ UNCHANGED <<cache, exec, succeeded, bounds>>

-----------------------------------------------------------------------------
(* reconcileViaRuntime.                                                    *)

(* Mutant: the final phase of an execution is not mapped.                  *)
observed_NoSuccess(w, p) ==
  [w EXCEPT !.phase = IF p = "Failed" THEN "Failed"
                      ELSE IF p = "Running" THEN "Running" ELSE @]

(* Mutant: the runtime's phase is written as it is.                        *)
observed_Raw(w, p) == [w EXCEPT !.phase = p]

(* The workload after its execution was seen in phase p.  status.argoPhase *)
(* only repeats p and is left out.                                         *)
observed(w, p) ==
  [w EXCEPT !.phase = IF p = "Succeeded" THEN "Completed"
                      ELSE IF p = "Failed" THEN "Failed"
                      ELSE IF p = "Running" THEN "Running" ELSE @]

(* No adapter for the type: Failed, and no requeue.                        *)
NoAdapter ==
  /\ pc = "dispatch" /\ passed(wl)
  /\ runtimeType(wl) \notin Runtimes
  /\ wl' = errored(wl)
  /\ pc' = "commit"
  /\ UNCHANGED <<obj, cache, exec, succeeded, bounds>>

(* adapter.Status of a referenced execution.  A missing one is an error    *)
(* for argo and pod, Pending for kagent.                                   *)
PollStatus ==
  /\ pc = "dispatch" /\ passed(wl)
  /\ wl.ref # "none" /\ runtimeType(wl) \in Runtimes
  /\ LET r == runtimeType(wl)
     IN  \/ /\ wl' = IF exec[r] # Absent THEN observed(wl, exec[r])
                     ELSE IF r = "kagent" THEN observed(wl, "Running") ELSE errored(wl)
            /\ UNCHANGED faults
         \/ Fault /\ wl' = errored(wl)
  /\ pc' = "commit"
  /\ UNCHANGED <<obj, cache, exec, succeeded, edits>>

created(r) == IF r = "argo" THEN "none" ELSE "Running"

referencing(w, r) ==
  [w EXCEPT !.phase = "Running", !.ref = r]

(* adapter.Execute without a reference.  pod and kagent take an execution  *)
(* that already exists for their own, argo reports it as an error.  A call *)
(* that fails may have created the execution all the same; one that did    *)
(* not stands for a refusal of the licence, quota and routing checks too,  *)
(* which only a workload without a reference passes through.               *)
Execute ==
  /\ pc = "dispatch" /\ passed(wl)
  /\ wl.ref = "none" /\ runtimeType(wl) \in Runtimes
  /\ LET r == runtimeType(wl)
         run == [exec EXCEPT ![r] = IF @ = Absent THEN created(r) ELSE @]
     IN  \/ /\ exec' = run
            /\ wl' = IF r = "argo" /\ exec[r] # Absent THEN errored(wl) ELSE referencing(wl, r)
            /\ UNCHANGED faults
         \/ /\ Fault
            /\ exec' \in {exec, run}
            /\ wl' = errored(wl)
  /\ pc' = "commit"
  /\ UNCHANGED <<obj, cache, succeeded, edits>>

(* Mutant: the status is written over whatever is stored.                  *)
CommitStatus_Unconditional ==
  /\ pc = "commit"
  /\ obj' = IF obj.exists THEN Stored([wl EXCEPT !.deleting = obj.deleting, !.type = obj.type,
                                            !.gates = obj.gates])
            ELSE obj
  /\ EndReconcile
  /\ UNCHANGED <<cache, exec, succeeded, bounds>>

(* r.Status().Update ends every reconcile; a conflict loses it.            *)
CommitStatus ==
  /\ pc = "commit"
  /\ obj' = IF Fresh(wl) THEN Stored(wl) ELSE obj
  /\ EndReconcile
  /\ UNCHANGED <<cache, exec, succeeded, bounds>>

-----------------------------------------------------------------------------
(* The operator process and its surroundings.                              *)

Crash ==
  /\ pc # "idle"
  /\ Fault
  /\ EndReconcile
  /\ UNCHANGED <<obj, cache, exec, succeeded, edits>>

SyncCache ==
  /\ cache # obj
  /\ cache' = obj
  /\ UNCHANGED <<obj, pc, wl, exec, succeeded, bounds>>

EditType ==
  /\ obj.exists /\ edits < MaxEdits
  /\ \E t \in Types \ {obj.type} : obj' = [obj EXCEPT !.rv = @ + 1, !.type = t]
  /\ edits' = edits + 1
  /\ UNCHANGED <<cache, pc, wl, exec, succeeded, faults>>

(* A client sets or removes the template annotation or the packs.          *)
EditGates ==
  /\ obj.exists /\ edits < MaxEdits
  /\ \E g \in Gates :
       obj' = [obj EXCEPT !.rv = @ + 1, !.gates = IF g \in @ THEN @ \ {g} ELSE @ \cup {g}]
  /\ edits' = edits + 1
  /\ UNCHANGED <<cache, pc, wl, exec, succeeded, faults>>

(* Without a finalizer a deleted object is gone at once.                   *)
Delete ==
  /\ obj.exists /\ ~obj.deleting
  /\ obj' = [obj EXCEPT !.rv = @ + 1, !.deleting = TRUE, !.exists = obj.finalizer]
  /\ UNCHANGED <<cache, pc, wl, exec, succeeded, bounds>>

(* An execution advances.  A kagent agent is a service: it never succeeds. *)
Progress(r) ==
  /\ \/ exec[r] = "none" /\ exec' = [exec EXCEPT ![r] = "Running"]
     \/ /\ exec[r] = "Running"
        /\ \E p \in {"Succeeded", "Failed"} :
             (r = "kagent" => p = "Failed") /\ exec' = [exec EXCEPT ![r] = p]
  /\ succeeded' = IF exec'[r] = "Succeeded" THEN succeeded \cup {r} ELSE succeeded
  /\ UNCHANGED <<obj, cache, pc, wl, bounds>>

(* The template's ttlSecondsAfterFinished removes a finished Workflow, and *)
(* garbage collection the pod of a workload that is gone: its owner is in  *)
(* the same namespace.                                                     *)
Collect(r) ==
  /\ \/ r = "argo" /\ exec[r] \in {"Succeeded", "Failed"}
     \/ r = "pod" /\ exec[r] # Absent /\ ~obj.exists
  /\ exec' = [exec EXCEPT ![r] = Absent]
  /\ UNCHANGED <<obj, cache, pc, wl, succeeded, bounds>>

Reconcile ==
  \/ TemplateGate \/ ClearRejection \/ FetchAndFinalize \/ PackGate \/ LicenceGate
  \/ Cleanup \/ CleanupFails \/ RemoveFinalizer
  \/ NoAdapter \/ PollStatus \/ Execute \/ CommitStatus

Environment ==
  \/ Crash \/ SyncCache \/ EditType \/ EditGates \/ Delete
  \/ \E r \in Runtimes : Progress(r) \/ Collect(r)

Next == Reconcile \/ Environment

(* The work queue hands the workload to the reconciler again after every   *)
(* pass (a requeue, an error or an event), and the watch delivers.  A gate *)
(* asks for no requeue, but what opens it again is an event: the filter    *)
(* lets changes of the generation and of annotations through.              *)
Spec == Init /\ [][Next]_vars /\ WF_vars(Reconcile) /\ WF_vars(SyncCache)

-----------------------------------------------------------------------------
(* Properties.                                                             *)

(* When the workload is gone, the execution its status referred to was     *)
(* deleted by the finalizer, whatever spec.orchestration.type had become.  *)
ReferencedIsCleaned == ~obj.exists /\ obj.ref # "none" => exec[obj.ref] = Absent

(* A referenced workload is Completed only after the execution its         *)
(* reference names succeeded: never on the word of another runtime.        *)
CompletedMeansSucceeded == obj.phase = "Completed" => obj.ref \in succeeded

(* A persisted execution reference is authoritative: no stale reconcile    *)
(* and no failed call ever drops or replaces it.                           *)
ReferenceIsAuthoritative == [][obj.ref # "none" => obj'.ref = obj.ref]_vars

(* What the status refers to is kept, cleaned up in the end, and completed *)
(* only if it succeeded.                                                   *)
ReferenceIsSound ==
  [](TypeOK /\ ReferencedIsCleaned /\ CompletedMeansSucceeded) /\ ReferenceIsAuthoritative

(* A deleted workload goes away: neither a crash between cleanup and the   *)
(* finalizer's removal nor an execution already gone blocks it.            *)
DeletionCompletes == obj.deleting ~> ~obj.exists

(* A referenced execution that succeeded is reported, unless the workload  *)
(* is deleted, the execution is collected before it was seen, or a client  *)
(* has marked the workload as a template or given it policy packs: then it *)
(* stays Failed until the mark is removed, and is reported after that.     *)
SuccessIsReported ==
  \A r \in Runtimes :
    (obj.ref = r /\ exec[r] = "Succeeded")
      ~> (obj.phase = "Completed" \/ obj.deleting \/ exec[r] = Absent \/ obj.gates # {})

(* The finalizer's purpose, as its comment states it: a deleted workload   *)
(* leaks no Argo Workflow.                                                 *)
NoLeak == ~obj.exists => exec["argo"] = Absent
=============================================================================
