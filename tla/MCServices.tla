------------------------------ MODULE MCServices ------------------------------
(***************************************************************************)
(* The components around the approval protocol whose safety is checked.    *)
(* They share no variable, so their composition is the union of their      *)
(* behaviours: `part' says whose behaviour this is, and the others stay in *)
(* their initial state.                                                    *)
(***************************************************************************)
EXTENDS
  DecisionPipeline, ThresholdRules, TenantQuota, SLAScaling, AuditLedger, ApprovalDataset,
  McpTools, CostReport, DecisionView, WebDashboard, Snapshot, SandboxAdmission,
  SandboxStatus, NetworkProbe

VARIABLE part   \* whose behaviour this is

Parts ==
  {"pipeline", "rules", "quota", "sla", "ledger", "dataset", "mcp", "cost", "view",
   "web", "snapshot", "sandbox", "status", "probe"}

(* Unselected, a component with several initial states is in one of them.  *)
MCInit ==
  /\ part \in Parts
  /\ Init /\ (part # "pipeline" =>
               /\ model = "none" /\ mode = "off"
               /\ score = [claimed |-> 0, base |-> 0, threshold |-> 0, err |-> FALSE])
  /\ RulesInit /\ (part # "rules" => opaPolicy = "strict" /\ cat = "READONLY" /\ conf = 0)
  /\ WebInit /\ (part # "web" => browser.token = Nobody)
  /\ CostInit /\ (part # "cost" => telemetry = "ok")
  /\ ViewInit /\ (part # "view" => sourceUp)
  /\ SandboxInit /\ (part # "sandbox" => ~evidence.class /\ ~evidence.node)
  /\ ProbeInit /\ (part # "probe" =>
                    /\ ~cni.enforces /\ ~cni.groups /\ cni.daemonSets = {}
                    /\ ~probe.active /\ ~probe.override /\ ~probe.keep)
  /\ QuotaInit /\ SLAInit /\ LedgerInit /\ DatasetInit /\ McpInit /\ SnapInit
  /\ StatusInit

(* Every component but the one that steps stays as it is.                  *)
Stays(p, v) == IF part = p THEN TRUE ELSE UNCHANGED v

OthersStay ==
  /\ Stays("pipeline", vars) /\ Stays("rules", ruleVars) /\ Stays("quota", quotaVars)
  /\ Stays("sla", slaVars) /\ Stays("ledger", ledgerVars) /\ Stays("dataset", datasetVars)
  /\ Stays("mcp", mcpVars) /\ Stays("cost", costVars) /\ Stays("view", viewVars)
  /\ Stays("web", webVars) /\ Stays("snapshot", snapVars) /\ Stays("sandbox", sandboxVars)
  /\ Stays("status", statusVars) /\ Stays("probe", probeVars)
  /\ UNCHANGED part

Step(p, A) == part = p /\ A /\ OthersStay

MCNext ==
  \/ Step("pipeline", Next) \/ Step("rules", RulesNext)
  \/ Step("quota", QuotaNext) \/ Step("sla", SLANext)
  \/ Step("ledger", LedgerNext) \/ Step("dataset", DatasetNext)
  \/ Step("mcp", McpNext) \/ Step("cost", CostNext)
  \/ Step("view", ViewNext) \/ Step("web", WebNext)
  \/ Step("snapshot", SnapNext) \/ Step("sandbox", SandboxNext)
  \/ Step("status", StatusNext) \/ Step("probe", ProbeNext)

mcVars ==
  <<vars, ruleVars, quotaVars, slaVars, ledgerVars, datasetVars, mcpVars, costVars,
    viewVars, webVars, snapVars, sandboxVars, statusVars, probeVars, part>>

MCSpec == MCInit /\ [][MCNext]_mcVars
=============================================================================
