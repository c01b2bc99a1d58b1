---------------------------- MODULE MCControllers ----------------------------
(***************************************************************************)
(* The components whose progress is checked, under the fairness of each.   *)
(* They share no variable, so their composition is the union of their      *)
(* behaviours: `part' says whose behaviour this is, and the others stay in *)
(* their initial state.                                                    *)
(***************************************************************************)
EXTENDS LocalWriter, ModelRouting, CircuitBreaker, TenantProvisioning, AgentCards, DemoPage

VARIABLE part   \* whose behaviour this is

Parts == {"writer", "routing", "breaker", "tenant", "card", "demo"}

MCInit ==
  /\ part \in Parts
  /\ Init /\ RoutingInit /\ BreakerInit /\ TenantInit /\ CardInit /\ DemoInit

(* Every component but the one that steps stays as it is.                  *)
Stays(p, v) == IF part = p THEN TRUE ELSE UNCHANGED v

OthersStay ==
  /\ Stays("writer", vars) /\ Stays("routing", routingVars) /\ Stays("breaker", breakerVars)
  /\ Stays("tenant", tenantVars) /\ Stays("card", cardVars) /\ Stays("demo", demo)
  /\ UNCHANGED part

Step(p, A) == part = p /\ A /\ OthersStay

MCNext ==
  \/ Step("writer", Next)
  \/ Step("routing", RoutingNext)
  \/ Step("breaker", BreakerNext)
  \/ Step("tenant", TenantNext)
  \/ Step("card", CardNext)
  \/ Step("demo", DemoNext)

mcVars == <<vars, routingVars, breakerVars, tenantVars, cardVars, demo, part>>

(* The fairness each module states, asked only of the component that runs. *)
MCFairness ==
  /\ WF_mcVars(Step("writer", Open)) /\ WF_mcVars(Step("writer", Append_))
  /\ WF_mcVars(Step("writer", LivenessProbe))
  /\ WF_mcVars(Step("routing", Reconcile)) /\ WF_mcVars(Step("routing", SyncCache))
  /\ \A c \in Callers : WF_mcVars(Step("breaker", CallerStep(c)))
  /\ WF_mcVars(Step("breaker", Restored)) /\ WF_mcVars(Step("breaker", Tick))
  /\ WF_mcVars(Step("tenant", TenantReconcile)) /\ WF_mcVars(Step("tenant", SyncTenantCache))
  /\ WF_mcVars(Step("tenant", CreateSource))
  /\ WF_mcVars(Step("card", CardReconcile)) /\ WF_mcVars(Step("card", SyncCardCache))
  /\ \A p \in DemoPolls :
       /\ WF_mcVars(Step("demo", RenderDemo(p)))
       /\ \A s \in Sources : WF_mcVars(Step("demo", SourceSends(p, s)))

MCSpec == MCInit /\ [][MCNext]_mcVars /\ MCFairness

-----------------------------------------------------------------------------
(* TenantBecomesActive of TenantProvisioning, for the tenant's behaviours: *)
(* a tenant whose provider secrets exist becomes Active and stays so.      *)
TenantSettles == part = "tenant" => TenantBecomesActive

(* RoutingSettles of ModelRouting, for the workload's behaviours.          *)
WorkloadRouted == part = "routing" => RoutingSettles
=============================================================================
