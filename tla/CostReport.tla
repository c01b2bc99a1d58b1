----------------------------- MODULE CostReport -----------------------------
(***************************************************************************)
(* get_workload_cost of the MCP server over the LiteLLM spend records: the *)
(* probe of /health, which any HTTP answer passes, then CostSummary, which *)
(* swallows every failure of /spend/logs.  One workload name.              *)
(***************************************************************************)
EXTENDS Naturals, FiniteSets

CONSTANTS
  CostModels,      \* models a spend record names, ordered by <
  CostNamespaces,  \* namespaces of spend records
  NoNamespace,     \* a record or a request without one
  MaxSpend         \* bound: spend records per row

ASSUME CostAssumption ==
  CostModels \subseteq Nat /\ NoNamespace \notin CostNamespaces /\ MaxSpend \in Nat

VARIABLES
  telemetry,   \* LiteLLM: no connection, an error status or bad JSON on
               \* /spend/logs, or the records
  spend,       \* spend[ns][m]: cost recorded
  ask,         \* the call: step, namespace, answer
  telemetryLost   \* history: no connection at some time since the probe

costVars == <<telemetry, spend, ask, telemetryLost>>

SpendKeys == CostNamespaces \cup {NoNamespace}

IdleAsk == [step |-> "idle", ns |-> NoNamespace, answer |-> "none", value |-> 0]

Telemetry == {"down", "erring", "ok"}

CostInit ==
  /\ telemetry \in Telemetry /\ telemetryLost = FALSE /\ ask = IdleAsk
  /\ spend = [ns \in SpendKeys |-> [m \in CostModels |-> 0]]

CostAnswer(answer, value) ==
  ask' = [ask EXCEPT !.step = "idle", !.answer = answer, !.value = value]

AskCost ==
  /\ ask.step = "idle"
  /\ \E ns \in SpendKeys : ask' = [IdleAsk EXCEPT !.step = "probe", !.ns = ns]
  /\ UNCHANGED <<telemetry, spend, telemetryLost>>

(* Mutant: the probe's failure is ignored.                                 *)
probeLiteLLM_Ignored ==
  /\ ask.step = "probe"
  /\ ask' = [ask EXCEPT !.step = "probed"]
  /\ telemetryLost' = FALSE
  /\ UNCHANGED <<telemetry, spend>>

(* Any HTTP status will do: only a connection that fails is an error.      *)
probeLiteLLM ==
  /\ ask.step = "probe"
  /\ \/ telemetry # "down" /\ ask' = [ask EXCEPT !.step = "probed"]
     \/ telemetry = "down" /\ CostAnswer("unreachable", 0)
  /\ telemetryLost' = FALSE
  /\ UNCHANGED <<telemetry, spend>>

namespaceMatch(recordNS, targetNS) == NoNamespace \in {recordNS, targetNS} \/ recordNS = targetNS

(* One row per namespace and model with records; none when the connection  *)
(* fails, the status is an error or the body does not decode.              *)
CostSummary(ns) ==
  IF telemetry = "ok" THEN {row \in SpendKeys \X CostModels :
                              namespaceMatch(row[1], ns) /\ spend[row[1]][row[2]] > 0}
                      ELSE {}

(* The first matching row of the workload: one model of one namespace.     *)
getWorkloadCost ==
  LET matching == {row \in CostSummary(ask.ns) : ask.ns = NoNamespace \/ row[1] = ask.ns}
      first == {row \in matching : \A r \in matching : r[1] = row[1] => row[2] <= r[2]}
  IN  /\ ask.step = "probed"
      /\ \/ matching = {} /\ CostAnswer("no_records", 0)
         \/ \E row \in first : CostAnswer("cost", spend[row[1]][row[2]])
      /\ UNCHANGED <<telemetry, spend, telemetryLost>>

LiteLLMChanges ==
  /\ \E t \in Telemetry \ {telemetry} :
       telemetry' = t /\ telemetryLost' = (telemetryLost \/ t = "down")
  /\ UNCHANGED <<spend, ask>>

SpendRecorded ==
  \E ns \in SpendKeys, m \in CostModels :
    /\ spend[ns][m] < MaxSpend
    /\ spend' = [spend EXCEPT ![ns][m] = @ + 1]
    /\ UNCHANGED <<telemetry, ask, telemetryLost>>

CostNext == AskCost \/ probeLiteLLM \/ getWorkloadCost \/ LiteLLMChanges \/ SpendRecorded

-----------------------------------------------------------------------------
(* A zero for a namespace with spend is answered only if /spend/logs       *)
(* answered with an error or not in JSON, which the probe of /health does  *)
(* not see, or if the connection was lost after the probe: an outage that  *)
(* holds from the call on is never read as no spend.  An amount is never   *)
(* another namespace's.                                                    *)
CostAnswerIsHonest ==
  [][ /\ (ask.step = "probed" /\ ask'.answer = "no_records") =>
           \/ \A m \in CostModels : spend[ask.ns][m] = 0
           \/ telemetry = "erring" \/ telemetryLost
      /\ (ask.step = "probed" /\ ask'.answer = "cost" /\ ask.ns # NoNamespace) =>
           \E m \in CostModels : ask'.value = spend[ask.ns][m] ]_costVars
=============================================================================
