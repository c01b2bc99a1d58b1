------------------------- MODULE TenantProvisioning -------------------------
(***************************************************************************)
(* The Tenant controller: four provisioning stages, each remembered by a   *)
(* status flag that is stored only when the reconcile ends, by failing or  *)
(* by completing.  A reconcile works on the informer's copy, which may be  *)
(* old; an API call may fail or the operator crash between any two calls.  *)
(***************************************************************************)
EXTENDS Naturals, FiniteSets, Sequences, SequencesExt

CONSTANTS
  Providers,       \* provider names
  MaxTenantEdits,  \* bound: edits of spec.providers
  MaxTenantFaults  \* bound: failed calls and crashes

ASSUME TenantAssumption ==
  /\ Providers # {} /\ IsFiniteSet(Providers)
  /\ MaxTenantEdits \in Nat /\ MaxTenantFaults \in Nat

VARIABLES
  tenant,        \* the stored Tenant
  tenantCache,   \* the informer's copy
  stage,         \* where the reconcile is
  work,          \* the Tenant the reconcile works on
  current,       \* which of the two copies have the stored resource version
  cluster,       \* objects that exist
  sources,       \* providers whose secret exists in agentic-system
  tenantEdits, tenantFaults

tenantVars ==
  <<tenant, tenantCache, stage, work, current, cluster, sources, tenantEdits, tenantFaults>>

Stages == <<"namespace", "secrets", "rbac", "quotas">>

(* Where the code has the empty string the model has "none".               *)
NewTenant ==
  [providers |-> {}, flags |-> {}, phase |-> "none", ready |-> FALSE, netpol |-> FALSE]

TenantInit ==
  /\ tenant = [NewTenant EXCEPT !.providers = {CHOOSE p \in Providers : TRUE}]
  /\ tenantCache = tenant /\ work = NewTenant
  /\ current = {"cache"}
  /\ stage = "idle" /\ cluster = {} /\ sources = {}
  /\ tenantEdits = 0 /\ tenantFaults = 0

TenantFault == tenantFaults < MaxTenantFaults /\ tenantFaults' = tenantFaults + 1

-----------------------------------------------------------------------------
(* What each stage creates, in order.  An object that exists is left as it *)
(* is, whatever its content.                                               *)

createNamespace == <<<<"namespace", "none">>>>
provisionSecrets(t) == SetToSeq({<<"secret", p>> : p \in t.providers})
configureRBAC == <<<<"serviceaccount", "none">>, <<"role", "none">>, <<"rolebinding", "none">>>>
enforceQuotas == <<<<"resourcequota", "none">>>>

objects(s, t) ==
  CASE s = "namespace" -> createNamespace
    [] s = "secrets"   -> provisionSecrets(t)
    [] s = "rbac"      -> configureRBAC
    [] s = "quotas"    -> enforceQuotas

(* A secret is copied from agentic-system, where it may be missing.        *)
hasSource(s, o) == s = "secrets" => o[2] \in sources

-----------------------------------------------------------------------------
(* Reconcile.                                                              *)

nextStage(t) ==
  LET todo == SelectSeq(Stages, LAMBDA s : s \notin t.flags)
  IN  IF todo = <<>> THEN "complete" ELSE Head(todo)

(* Mutant: the status the API server has is not compared.                  *)
persistTenantStatus_Unconditional(t) ==
  tenant' = [t EXCEPT !.providers = tenant.providers] /\ current' = {}

(* Status().Update: refused when the copy is not the stored version.  Each *)
(* one that is not makes a new version (lastReconciliation is a time).     *)
persistTenantStatus(t) ==
  \/ "work" \in current /\ tenant' = t /\ current' = {}
  \/ "work" \notin current /\ tenant' = tenant /\ current' = current

(* What CNI detection finds; a detection that fails counts as not active.  *)
updateNetworkPolicyStatus(t) == {[t EXCEPT !.netpol = active] : active \in BOOLEAN}

StartTenant ==
  /\ stage = "idle"
  /\ work' \in updateNetworkPolicyStatus([tenantCache EXCEPT !.phase = "Provisioning"])
  /\ stage' = nextStage(work')
  /\ current' = IF "cache" \in current THEN {"cache", "work"} ELSE {}
  /\ UNCHANGED <<tenant, tenantCache, cluster, sources, tenantEdits, tenantFaults>>

(* Mutant: an object that already exists is an error.                      *)
ProvisionStage_Exists ==
  /\ stage \in Range(Stages)
  /\ LET os == Range(objects(stage, work))
         free == {o \in os \ cluster : hasSource(stage, o)}
     IN  /\ cluster' = cluster \cup free
         /\ work' = IF free = os THEN [work EXCEPT !.flags = @ \cup {stage}] ELSE work
         /\ stage' = IF free = os THEN nextStage(work') ELSE "failed"
  /\ UNCHANGED <<tenant, tenantCache, current, sources, tenantEdits, tenantFaults>>

(* The current stage creates all its objects and sets its flag, or stops   *)
(* at an object it cannot create.                                          *)
ProvisionStage ==
  /\ stage \in Range(Stages)
  /\ LET os == objects(stage, work)
     IN  \E n \in 0 .. Len(os) :
           /\ \A i \in 1 .. n : hasSource(stage, os[i])
           /\ cluster' = cluster \cup {os[i] : i \in 1 .. n}
           /\ IF n = Len(os)
                THEN /\ work' = [work EXCEPT !.flags = @ \cup {stage}]
                     /\ stage' = nextStage(work')
                     /\ UNCHANGED tenantFaults
                ELSE /\ \/ ~hasSource(stage, os[n + 1]) /\ UNCHANGED tenantFaults
                        \/ hasSource(stage, os[n + 1]) /\ TenantFault
                     /\ stage' = "failed" /\ work' = work
  /\ UNCHANGED <<tenant, tenantCache, current, sources, tenantEdits>>

EndTenant == stage' = "idle" /\ work' = NewTenant

(* A stage failed: what was done so far is stored, and the reconcile runs  *)
(* again after 30 seconds, or sooner when the write is refused.            *)
PersistFailure ==
  /\ stage = "failed"
  /\ persistTenantStatus(work)
  /\ EndTenant
  /\ UNCHANGED <<tenantCache, cluster, sources, tenantEdits, tenantFaults>>

PersistActive ==
  /\ stage = "complete"
  /\ persistTenantStatus([work EXCEPT !.phase = "Active", !.ready = TRUE])
  /\ EndTenant
  /\ UNCHANGED <<tenantCache, cluster, sources, tenantEdits, tenantFaults>>

TenantCrash ==
  /\ stage # "idle" /\ TenantFault /\ EndTenant
  /\ UNCHANGED <<tenant, tenantCache, current, cluster, sources, tenantEdits>>

-----------------------------------------------------------------------------
(* The API server and the administrator.                                   *)

SyncTenantCache ==
  /\ "cache" \notin current /\ current' = current \cup {"cache"}
  /\ tenantCache' = tenant
  /\ UNCHANGED <<tenant, stage, work, cluster, sources, tenantEdits, tenantFaults>>

EditProviders ==
  /\ tenantEdits < MaxTenantEdits /\ tenantEdits' = tenantEdits + 1
  /\ \E ps \in SUBSET Providers \ {{}, tenant.providers} :
       tenant' = [tenant EXCEPT !.providers = ps] /\ current' = {}
  /\ UNCHANGED <<tenantCache, stage, work, cluster, sources, tenantFaults>>

CreateSource ==
  /\ \E p \in Providers \ sources : sources' = sources \cup {p}
  /\ UNCHANGED <<tenant, tenantCache, stage, work, current, cluster, tenantEdits, tenantFaults>>

TenantReconcile == StartTenant \/ ProvisionStage \/ PersistFailure \/ PersistActive

TenantNext == TenantReconcile \/ TenantCrash \/ SyncTenantCache \/ EditProviders \/ CreateSource

(* A failed or refused reconcile is retried, the informer catches up, and  *)
(* the secrets a tenant waits for are provided.                            *)
TenantFairness ==
  WF_tenantVars(TenantReconcile) /\ WF_tenantVars(SyncTenantCache) /\ WF_tenantVars(CreateSource)

-----------------------------------------------------------------------------
(* A status flag is stored only when every object its stage stands for,    *)
(* for the spec as it is stored then, exists: a failed call, a crash, an   *)
(* old copy and a concurrent edit included.                                *)
FlagMeansProvisioned ==
  [][\A s \in tenant'.flags \ tenant.flags : Range(objects(s, tenant')) \subseteq cluster
    ]_tenantVars

(* A tenant whose provider secrets exist becomes Active and stays so.      *)
TenantBecomesActive == <>[](tenant.phase = "Active" /\ tenant.ready)

(* "SecretsProvisioned indicates if provider secrets are in place"         *)
(* (tenant_types.go): while it is set, the secrets of all the providers    *)
(* come to exist.  A provider added once the flag is stored is never       *)
(* provisioned.                                                            *)
SecretsInPlace ==
  [](("secrets" \in tenant.flags)
       => <>(\A p \in tenant.providers : <<"secret", p>> \in cluster))

TenantSpec == TenantInit /\ [][TenantNext]_tenantVars /\ TenantFairness
=============================================================================
