--------------------------- MODULE SandboxStatus ---------------------------
(***************************************************************************)
(* The SandboxEnforced condition of an orchestrated workload: each         *)
(* reconcile lists the workload's pods from the informer and derives the   *)
(* condition from them, from the stored one and from a denial in the       *)
(* execution's message, while pods come and go and updates are refused.    *)
(***************************************************************************)
EXTENDS Naturals, FiniteSets

CONSTANTS
  SandboxPods,       \* pods of the workload, labelled with its UID
  MaxStatusFaults    \* bound: failed lists and updates, lost references

ASSUME SandboxStatusAssumption == MaxStatusFaults \in Nat

VARIABLES
  podClass,      \* podClass[p]: its RuntimeClass, "absent" when there is no pod
  podCache,      \* the informer's copy
  denial,        \* the execution's message holds a sandbox denial
  execution,     \* UID of status.argoWorkflow, 0 for none
  enforced,      \* the stored condition, and sandboxExecutionUID
  sight,         \* history: what the last non-empty list of this execution showed
  statusFaults

statusVars == <<podClass, podCache, denial, execution, enforced, sight, statusFaults>>

StatusInit ==
  /\ podClass = [p \in SandboxPods |-> "absent"] /\ podCache = podClass /\ denial = FALSE
  /\ execution = 0 /\ enforced = [status |-> "none", uid |-> 0] /\ sight = "none"
  /\ statusFaults = 0

StatusFault == statusFaults < MaxStatusFaults /\ statusFaults' = statusFaults + 1

-----------------------------------------------------------------------------
(* sandbox_status.go.  listed: the classes of the pods the list returned.  *)

(* Mutant: a condition outlives the execution it was observed for.         *)
sandboxCondition_Sticky(denied, failed, listed, same) ==
  CASE denied -> "False"
    [] ~denied /\ failed -> "Unknown"
    [] ~denied /\ ~failed /\ listed = {} -> IF enforced.status = "True" THEN "True" ELSE "Unknown"
    [] OTHER -> IF listed = {"gvisor"} THEN "True" ELSE "False"

(* A denial skips the list; with no pods, a True of the same execution is  *)
(* kept.                                                                   *)
sandboxCondition(denied, failed, listed, same) ==
  CASE denied -> "False"
    [] ~denied /\ failed -> "Unknown"
    [] ~denied /\ ~failed /\ listed = {} ->
         IF enforced.status = "True" /\ same THEN "True" ELSE "Unknown"
    [] OTHER -> IF listed = {"gvisor"} THEN "True" ELSE "False"

(* observeSandboxStatus for execution uid with the status update that      *)
(* follows it, which may be refused.                                       *)
observeSandboxStatus(uid, denied, was, stored) ==
  LET listed == {podCache[p] : p \in SandboxPods} \ {"absent"}
  IN  \E failed \in BOOLEAN :
        /\ IF failed \/ ~stored THEN StatusFault ELSE UNCHANGED statusFaults
        /\ enforced' = IF stored
                         THEN [status |-> sandboxCondition(denied, failed, listed, enforced.uid = uid),
                               uid |-> uid]
                         ELSE enforced
        /\ sight' = IF stored /\ ~denied /\ ~failed /\ listed # {}
                      THEN (IF listed = {"gvisor"} THEN "all" ELSE "some")
                      ELSE (IF stored THEN was ELSE sight)

(* A reconcile that finds an execution, with the message of its status.    *)
ObserveExecution ==
  /\ execution > 0
  /\ \E stored \in BOOLEAN : observeSandboxStatus(execution, denial, sight, stored)
  /\ UNCHANGED <<podClass, podCache, denial, execution>>

(* Execute, when there is no reference: the reference and the condition    *)
(* are stored by one update.                                               *)
StartExecution ==
  /\ execution = 0
  /\ \E stored \in BOOLEAN :
       /\ observeSandboxStatus(enforced.uid + 1, FALSE, "none", stored)
       /\ execution' = IF stored THEN enforced.uid + 1 ELSE 0
       /\ denial' = IF stored THEN FALSE ELSE denial
  /\ UNCHANGED <<podClass, podCache>>

(* Execute is refused with a sandbox denial: the condition alone.          *)
ExecuteDenied ==
  /\ execution = 0
  /\ enforced' = [enforced EXCEPT !.status = "False"]
  /\ UNCHANGED <<podClass, podCache, denial, execution, sight, statusFaults>>

-----------------------------------------------------------------------------
(* The cluster.                                                            *)

(* The reference is removed from the status, by hand or by a restore.      *)
LoseReference ==
  /\ execution > 0 /\ StatusFault
  /\ execution' = 0
  /\ UNCHANGED <<podClass, podCache, denial, enforced, sight>>

(* The webhook denies a pod of the execution.                              *)
PodDenied ==
  /\ execution > 0 /\ denial' = TRUE
  /\ UNCHANGED <<podClass, podCache, execution, enforced, sight, statusFaults>>

PodChanges ==
  /\ \E p \in SandboxPods :
       \/ /\ podClass[p] = "absent" /\ execution > 0
          /\ \E c \in {"gvisor", "none"} : podClass' = [podClass EXCEPT ![p] = c]
       \/ podClass[p] # "absent" /\ podClass' = [podClass EXCEPT ![p] = "absent"]
  /\ UNCHANGED <<podCache, denial, execution, enforced, sight, statusFaults>>

SyncPods ==
  /\ podCache # podClass /\ podCache' = podClass
  /\ UNCHANGED <<podClass, denial, execution, enforced, sight, statusFaults>>

StatusNext ==
  \/ ObserveExecution \/ StartExecution \/ ExecuteDenied
  \/ LoseReference \/ PodDenied \/ PodChanges \/ SyncPods

-----------------------------------------------------------------------------
(* SandboxEnforced=True, once written for the current execution, rests on  *)
(* a list of that execution's reconciles in which every pod was sandboxed, *)
(* and no later list contradicted it: pods that are gone, failed lists,    *)
(* denials and a new execution included.                                   *)
EnforcedWasSeen ==
  enforced.status = "True" /\ execution > 0 /\ enforced.uid = execution => sight = "all"
=============================================================================
