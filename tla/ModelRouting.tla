---------------------------- MODULE ModelRouting ----------------------------
(***************************************************************************)
(* Cost-aware model routing of the AgentWorkload controller: the operation *)
(* id persisted before the provider is called, the retried call, the usage *)
(* recorded in the process, the cost annotation patched onto the workload, *)
(* and the status that marks a generation of the spec as routed.           *)
(*                                                                         *)
(* A generation stands for the spec it numbers: the objective, persona,    *)
(* model mapping and providers.  The operation id is derived from the      *)
(* workload's identity and generation, so it is the generation here.       *)
(*                                                                         *)
(* The module begins where routing does.  The template, pack, licence and  *)
(* quota gates before it end a reconcile without routing and are outside   *)
(* of it: what is said of routing is said of workloads that pass them.     *)
(***************************************************************************)
EXTENDS Naturals, FiniteSets

CONSTANTS
  MaxGeneration,  \* bound: generations of the spec
  MaxRetries,     \* RetryConfig.MaxRetries
  MaxFaults       \* bound: crashes, failed calls

ASSUME RoutingAssumption ==
  /\ MaxGeneration \in Nat \ {0} /\ MaxRetries \in Nat /\ MaxFaults \in Nat

VARIABLES
  obj,        \* the stored AgentWorkload
  cache,      \* the operator's informer copy
  routePC,         \* where the operator's reconcile is
  wl,         \* the object the reconcile works on
  op,         \* the operation id its routing was started with
  attempts,   \* calls made by WithRetry so far
  recorded,   \* recordedOperations of the process's cost reporter
  usage,      \* operations the reporter charged to the workload
  delivered,  \* history: the requests the provider received
  faults

routingVars == <<obj, cache, routePC, wl, op, attempts, recorded, usage, delivered, faults>>

-----------------------------------------------------------------------------
(* State.                                                                  *)

Generations == 1 .. MaxGeneration

(* op: status.modelRoutingOperationID.  routed: the generation observed by *)
(* condition ModelRoutingSucceeded.  cost: the cost annotation.  0: unset. *)
(* Where the code has the empty string the model has "none".               *)
Objects == [rv : Nat, generation : 0 .. MaxGeneration, op : 0 .. MaxGeneration,
            routed : 0 .. MaxGeneration, phase : {"none", "Completed", "Failed"}, cost : Nat]

NoWorkload ==
  [rv |-> 0, generation |-> 0, op |-> 0, routed |-> 0, phase |-> "none", cost |-> 0]

RoutingTypeOK ==
  /\ obj \in Objects /\ cache \in Objects /\ wl \in Objects
  /\ routePC \in {"idle", "call", "record", "succeed", "fail"}
  /\ op \in 0 .. MaxGeneration /\ attempts \in 0 .. MaxRetries + 1
  /\ recorded \subseteq Generations /\ usage \in Nat
  /\ delivered \subseteq [key : Generations, prompt : Generations]
  /\ faults \in 0 .. MaxFaults

RoutingInit ==
  /\ obj = [NoWorkload EXCEPT !.rv = 1, !.generation = 1]
  /\ cache = obj /\ wl = NoWorkload
  /\ routePC = "idle" /\ op = 0 /\ attempts = 0
  /\ recorded = {} /\ usage = 0
  /\ delivered = {}
  /\ faults = 0

-----------------------------------------------------------------------------
(* The API server: an update of an old version is refused, one that        *)
(* changes nothing keeps the version.                                      *)

Fresh(new) == new.rv = obj.rv
Stored(new) == IF [new EXCEPT !.rv = obj.rv] = obj THEN obj ELSE [new EXCEPT !.rv = obj.rv + 1]

EndReconcile == routePC' = "idle" /\ wl' = NoWorkload /\ op' = 0 /\ attempts' = 0

Fault == faults < MaxFaults /\ faults' = faults + 1

-----------------------------------------------------------------------------
(* Reconcile.                                                              *)

(* Mutant: a workload that failed once is left alone.                      *)
unrouted_FailedIsFinal(w) == w.routed # w.generation /\ w.phase # "Failed"

(* modelRoutingSucceededForGeneration ends the reconcile.                  *)
unrouted(w) == w.routed # w.generation

(* Mutant: an operation id already in the status is kept.                  *)
modelRoutingOperationID_Kept(w) == IF w.op # 0 THEN w.op ELSE w.generation

modelRoutingOperationID(w) == w.generation

(* Mutant: the call goes ahead when the intent could not be persisted.     *)
PersistIntent_Ignored ==
  /\ routePC = "idle" /\ unrouted(cache)
  /\ wl' = [cache EXCEPT !.op = modelRoutingOperationID(cache)]
  /\ obj' = IF Fresh(cache) THEN Stored(wl') ELSE obj
  /\ op' = wl'.op /\ routePC' = "call" /\ attempts' = 0
  /\ UNCHANGED <<cache, recorded, usage, delivered, faults>>

(* persistModelRoutingIntent: nothing is written when the status already   *)
(* has the id, however old the cached copy.  A refused write requeues.     *)
PersistIntent ==
  /\ routePC = "idle" /\ unrouted(cache)
  /\ LET id == modelRoutingOperationID(cache)
     IN  \/ /\ cache.op = id
            /\ wl' = cache /\ obj' = obj
            /\ op' = id /\ routePC' = "call"
         \/ /\ cache.op # id /\ Fresh(cache)
            /\ obj' = Stored([cache EXCEPT !.op = id]) /\ wl' = obj'
            /\ op' = id /\ routePC' = "call"
         \/ /\ cache.op # id /\ ~Fresh(cache)
            /\ UNCHANGED <<obj, wl, op, routePC>>
  /\ attempts' = 0
  /\ UNCHANGED <<cache, recorded, usage, delivered, faults>>

(* One attempt of routeAndCallModel: the provider answers, receives the    *)
(* request but the answer is lost, or is not reached (budget, routing and  *)
(* provider configuration errors included).  WithRetry tries again.        *)
CallModel ==
  /\ routePC = "call"
  /\ \E res \in {"ok", "lost", "failed"} :
       /\ IF res = "ok" THEN UNCHANGED faults ELSE Fault
       /\ delivered' = IF res = "failed" THEN delivered
                       ELSE delivered \cup {[key |-> wl.op, prompt |-> wl.generation]}
       /\ attempts' = attempts + 1
       /\ routePC' = IF res = "ok" THEN "record"
                ELSE IF attempts' > MaxRetries THEN "fail" ELSE "call"
  /\ UNCHANGED <<obj, cache, wl, op, recorded, usage>>

(* Mutant: every answer is charged.                                        *)
RecordUsage_Always(id) ==
  recorded' = recorded \cup {id} /\ usage' = usage + 1

(* RecordUsage charges an operation id once per process.                   *)
RecordUsage(id) ==
  /\ recorded' = recorded \cup {id}
  /\ usage' = IF id \in recorded THEN usage ELSE usage + 1

(* RecordUsage, then updateWorkloadCostAnnotation: a merge patch without a *)
(* resourceVersion, never refused, whose answer replaces the workload in   *)
(* memory by the stored one.  A failed patch is only logged.               *)
RecordAndAnnotate ==
  /\ routePC = "record"
  /\ RecordUsage(wl.op)
  /\ \/ /\ usage' # wl.cost
        /\ obj' = Stored([obj EXCEPT !.cost = usage'])
        /\ wl' = obj'
        /\ UNCHANGED faults
     \/ /\ usage' = wl.cost
        /\ UNCHANGED <<obj, wl, faults>>
     \/ /\ usage' # wl.cost
        /\ Fault /\ obj' = obj
        /\ wl' = [wl EXCEPT !.cost = usage']
  /\ routePC' = "succeed"
  /\ UNCHANGED <<cache, op, attempts, delivered>>

(* The status update that marks the workload's generation as routed.       *)
MarkSucceeded ==
  /\ routePC = "succeed"
  /\ LET done == [wl EXCEPT !.op = op, !.routed = wl.generation, !.phase = "Completed",
                            !.cost = obj.cost]
     IN  obj' = IF Fresh(wl) THEN Stored(done) ELSE obj
  /\ EndReconcile
  /\ UNCHANGED <<cache, recorded, usage, delivered, faults>>

(* All attempts failed.                                                    *)
MarkFailed ==
  /\ routePC = "fail"
  /\ obj' = IF Fresh(wl) THEN Stored([wl EXCEPT !.phase = "Failed"]) ELSE obj
  /\ EndReconcile
  /\ UNCHANGED <<cache, recorded, usage, delivered, faults>>

-----------------------------------------------------------------------------
(* The process and its surroundings.                                       *)

(* The cost reporter's memory is the process's.                            *)
RoutingCrash ==
  /\ Fault
  /\ EndReconcile
  /\ recorded' = {} /\ usage' = 0
  /\ UNCHANGED <<obj, cache, delivered>>

SyncCache ==
  /\ cache # obj
  /\ cache' = obj
  /\ UNCHANGED <<obj, routePC, wl, op, attempts, recorded, usage, delivered, faults>>

EditSpec ==
  /\ obj.generation < MaxGeneration
  /\ obj' = [obj EXCEPT !.rv = @ + 1, !.generation = @ + 1]
  /\ UNCHANGED <<cache, routePC, wl, op, attempts, recorded, usage, delivered, faults>>

Reconcile ==
  \/ PersistIntent \/ CallModel \/ RecordAndAnnotate \/ MarkSucceeded \/ MarkFailed

RoutingNext == Reconcile \/ RoutingCrash \/ SyncCache \/ EditSpec

(* A failed routing and a refused write requeue after 30 seconds, a new    *)
(* generation is an event, and the watch delivers.                         *)
RoutingFairness == WF_routingVars(Reconcile) /\ WF_routingVars(SyncCache)

RoutingSpec == RoutingInit /\ [][RoutingNext]_routingVars /\ RoutingFairness

-----------------------------------------------------------------------------
(* Properties.                                                             *)

(* An idempotency key never covers two different prompts: a provider that  *)
(* honours it cannot answer a new generation with an old response.         *)
KeyIdentifiesPrompt == \A d, e \in delivered : d.key = e.key => d.prompt = e.prompt

(* A key the provider has seen was persisted first, so that the reconcile  *)
(* after a crash uses the same one, and no later write takes it back.      *)
KeyPersistedBeforeCall == \A d \in delivered : d.key <= obj.op

(* However often an operation is retried or routed again after a lost      *)
(* status write, the process charges the workload for it once.             *)
ChargedOncePerOperation == usage <= Cardinality({d.key : d \in delivered})

(* The operation id does its work through crashes, retries and lost        *)
(* writes: one prompt, persisted before it is sent, charged once.          *)
OperationIsSound == KeyIdentifiesPrompt /\ KeyPersistedBeforeCall /\ ChargedOncePerOperation

(* Once faults and edits end, the last generation is marked routed and     *)
(* stays so: no lost write or failed attempt strands the workload.         *)
RoutingSettles == <>[](obj.routed = obj.generation)

(* The controller's comment, "Provider delivery is at least once": a       *)
(* generation marked as routed was sent to the provider.                   *)
RoutedWasDelivered == obj.routed # 0 => \E d \in delivered : d.prompt = obj.routed
=============================================================================
