----------------------------- MODULE SLAScaling -----------------------------
(***************************************************************************)
(* The SLA monitor of pkg/multitenancy for one tenant, and the autoscaler  *)
(* of pkg/autoscaling that reads it: outcomes are recorded, a breach is    *)
(* detected and recovered from, and replicas follow the success rate.      *)
(*                                                                         *)
(* Rates are compared exactly: rate < p stands for 100 * s < p * (s + f).  *)
(***************************************************************************)
EXTENDS Integers

CONSTANTS
  SLATarget,          \* percent
  CriticalThreshold, WarningThreshold, HealthyThreshold,  \* percent
  MinReplicas, MaxReplicas,
  Cooldown,           \* ticks between two scalings of a tenant
  MaxOutcomes         \* bound: outcomes between two AddTenant calls

ASSUME SLAAssumption ==
  /\ SLATarget \in 0 .. 100
  /\ CriticalThreshold \in 0 .. 100 /\ WarningThreshold \in 0 .. 100
  /\ HealthyThreshold \in 0 .. 100
  /\ MinReplicas \in Nat /\ MaxReplicas \in Nat /\ MinReplicas <= MaxReplicas
  /\ Cooldown \in Nat /\ MaxOutcomes \in Nat

VARIABLES
  sla,         \* slaTracker: successCount, failureCount, breachDetected
  replicas,    \* the tenant's replicas, as its caller applies the decisions
  sinceScale,  \* ticks since lastScaling
  decision     \* the event EvaluateAndDecide returned, when it was the last step

slaVars == <<sla, replicas, sinceScale, decision>>

(* The AddTenant and NewSLAMonitor tracker.                                *)
newTracker == [succ |-> 0, fail |-> 0, breached |-> FALSE]

NoEvent == [action |-> "none", newReplicas |-> 0]

SLAInit ==
  /\ sla = newTracker /\ replicas = MinReplicas
  /\ sinceScale = Cooldown /\ decision = NoEvent

SLATypeOK ==
  /\ sla \in [succ : Nat, fail : Nat, breached : BOOLEAN]
  /\ replicas \in Nat /\ sinceScale \in 0 .. Cooldown
  /\ decision \in [action : {"none", "noop", "scale_up", "scale_up_and_model_downgrade",
                              "scale_down"}, newReplicas : Int]

-----------------------------------------------------------------------------
(* calcSuccessRate compared with a percentage; no data is 100 percent.     *)
rateBelow(tr, percent) ==
  IF tr.succ + tr.fail = 0 THEN 100 < percent
                           ELSE 100 * tr.succ < percent * (tr.succ + tr.fail)

rateAbove(tr, percent) ==
  IF tr.succ + tr.fail = 0 THEN 100 > percent
                           ELSE 100 * tr.succ > percent * (tr.succ + tr.fail)

(* Mutant: any success ends the breach.                                    *)
afterSuccess_Recovers(tr) == [tr EXCEPT !.succ = @ + 1, !.breached = FALSE]

(* RecordSuccess: a breach ends when the rate is back at the target.       *)
afterSuccess(tr) ==
  LET n == [tr EXCEPT !.succ = @ + 1]
  IN  [n EXCEPT !.breached = @ /\ rateBelow(n, SLATarget)]

(* RecordFailure: a rate below the target is a breach; one at the target   *)
(* leaves the flag as it is.                                               *)
afterFailedWorkload(tr) ==
  LET n == [tr EXCEPT !.fail = @ + 1]
  IN  [n EXCEPT !.breached = @ \/ rateBelow(n, SLATarget)]

RecordOutcome ==
  /\ sla.succ + sla.fail < MaxOutcomes
  /\ sla' \in {afterSuccess(sla), afterFailedWorkload(sla)}
  /\ decision' = NoEvent
  /\ UNCHANGED <<replicas, sinceScale>>

AddSLATenant ==
  /\ sla' = newTracker /\ decision' = NoEvent
  /\ UNCHANGED <<replicas, sinceScale>>

-----------------------------------------------------------------------------
clamp(n) == IF n < MinReplicas THEN MinReplicas ELSE IF n > MaxReplicas THEN MaxReplicas ELSE n

(* Mutant: the thresholds are tried from the healthy end.                  *)
evaluate_HealthyFirst(tr, n) ==
  CASE ~rateBelow(tr, CriticalThreshold) -> [action |-> "scale_down", newReplicas |-> clamp(n - 1)]
    [] OTHER -> [action |-> "scale_up", newReplicas |-> clamp(n + 1)]

evaluate(tr, n) ==
  CASE rateBelow(tr, CriticalThreshold) ->
         [action |-> "scale_up_and_model_downgrade", newReplicas |-> clamp(n + 2)]
    [] ~rateBelow(tr, CriticalThreshold) /\ rateBelow(tr, WarningThreshold) ->
         [action |-> "scale_up", newReplicas |-> clamp(n + 1)]
    [] /\ ~rateBelow(tr, CriticalThreshold) /\ ~rateBelow(tr, WarningThreshold)
       /\ rateAbove(tr, HealthyThreshold) ->
         [action |-> "scale_down", newReplicas |-> clamp(n - 1)]
    [] OTHER -> [action |-> "noop", newReplicas |-> n]

(* EvaluateAndDecide, its caller applying what is not a noop.  A decision  *)
(* to scale starts the cooldown even when clamp leaves the replicas as     *)
(* they are; the event of the cooldown itself carries no replicas.         *)
EvaluateAndDecide ==
  /\ \/ /\ sinceScale < Cooldown
        /\ decision' = [action |-> "noop", newReplicas |-> 0]
        /\ UNCHANGED <<replicas, sinceScale>>
     \/ /\ sinceScale >= Cooldown
        /\ decision' = evaluate(sla, replicas)
        /\ replicas' = decision'.newReplicas
        /\ sinceScale' = IF decision'.action = "noop" THEN sinceScale ELSE 0
  /\ UNCHANGED sla

CooldownTick ==
  /\ sinceScale < Cooldown /\ sinceScale' = sinceScale + 1
  /\ decision' = NoEvent
  /\ UNCHANGED <<sla, replicas>>

SLANext == RecordOutcome \/ AddSLATenant \/ EvaluateAndDecide \/ CooldownTick

SLASpec == SLAInit /\ [][SLANext]_slaVars

-----------------------------------------------------------------------------
(* The breach flag is only touched by some branches of two handlers, and   *)
(* still says at every moment whether the success rate is below the        *)
(* target: no order of outcomes leaves it set after recovery or clear in a *)
(* breach.                                                                 *)
BreachIffBelowTarget == sla.breached <=> rateBelow(sla, SLATarget)

(* The autoscaler never takes replicas from a tenant in breach, when the   *)
(* healthy threshold is no lower than the tenant's target.  (With the      *)
(* default 95 percent and a target of 99 percent it does.)                 *)
BreachedKeepsReplicas ==
  [][(sla.breached /\ HealthyThreshold >= SLATarget) => decision'.action # "scale_down"]_slaVars

(* The breach flag and the scaling decisions follow the success rate.      *)
SLAIsSound == []BreachIffBelowTarget /\ BreachedKeepsReplicas
=============================================================================
