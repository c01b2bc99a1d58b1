--------------------------- MODULE ResourceProofs ---------------------------
(***************************************************************************)
(* Proofs about the components that meter, limit and provision: service    *)
(* levels, daily quotas, cost answers, model routing, the circuit breaker  *)
(* and the Tenant controller.  They share no variable and are proved one   *)
(* after the other, for every value of their constants.                    *)
(***************************************************************************)
EXTENDS SLAScaling, TenantQuota, CostReport, ModelRouting, CircuitBreaker,
        TenantProvisioning, FiniteSetTheorems, TLAPS

-----------------------------------------------------------------------------
(*                               SLAScaling                                *)
(*                                                                         *)
(* The breach flag says whether the success rate is below the target, and  *)
(* the autoscaler leaves a tenant in breach its replicas.                  *)

Percents == 0 .. 100
Trackers == [succ : Nat, fail : Nat, breached : BOOLEAN]

(* One outcome more adds the percentage once.                              *)
LEMMA OneMore ==
  ASSUME NEW p \in Percents, NEW n \in Nat
  PROVE  p * (n + 1) = p * n + p
  BY DEF Percents

(* A lower percentage of the same outcomes is no higher.                   *)
LEMMA PercentsOrder ==
  ASSUME NEW p \in Percents, NEW q \in Percents, NEW n \in Nat, p <= q
  PROVE  p * n <= q * n
<1> DEFINE d == q - p
<1>1. d \in Nat /\ q = p + d
  BY DEF Percents
<1>2. d * n \in Nat
  BY <1>1
<1>3. (p + d) * n = p * n + d * n
  BY <1>1 DEF Percents
<1>4. p * n \in Int
  BY DEF Percents
<1> HIDE DEF d
<1> QED BY <1>1, <1>2, <1>3, <1>4

(* RecordSuccess never takes the rate below a percentage.                  *)
LEMMA SuccessRaises ==
  ASSUME NEW tr \in Trackers, NEW p \in Percents, ~rateBelow(tr, p)
  PROVE  ~rateBelow([tr EXCEPT !.succ = @ + 1], p)
<1> DEFINE n == tr.succ + tr.fail
<1>1. n \in Nat /\ tr.succ \in Nat /\ tr.fail \in Nat
  BY DEF Trackers
<1>2. p * (n + 1) = p * n + p /\ p * n \in Int
  BY <1>1, OneMore DEF Percents
<1>3. 100 * tr.succ >= p * n
  <2>1. CASE n = 0
    <3>1. p * 0 = 0
      BY DEF Percents
    <3>2. tr.succ = 0
      BY <2>1, <1>1
    <3> QED BY <2>1, <3>1, <3>2
  <2>2. CASE n # 0
    BY <2>2, <1>1, <1>2 DEF rateBelow
  <2> QED BY <2>1, <2>2
<1>4. 100 * (tr.succ + 1) >= p * (n + 1)
  BY <1>1, <1>2, <1>3 DEF Percents
<1>5. (tr.succ + 1) + tr.fail = n + 1 /\ n + 1 # 0
  BY <1>1
<1>6. /\ [tr EXCEPT !.succ = @ + 1].succ = tr.succ + 1
      /\ [tr EXCEPT !.succ = @ + 1].fail = tr.fail
  BY DEF Trackers
<1> HIDE DEF n
<1>7. p * (n + 1) \in Int /\ 100 * (tr.succ + 1) \in Int
  BY <1>1, <1>2 DEF Percents
<1> QED BY <1>4, <1>5, <1>6, <1>7 DEF rateBelow

(* RecordFailure never takes the rate back to a percentage.                *)
LEMMA FailureLowers ==
  ASSUME NEW tr \in Trackers, NEW p \in Percents, rateBelow(tr, p)
  PROVE  rateBelow([tr EXCEPT !.fail = @ + 1], p)
<1> DEFINE n == tr.succ + tr.fail
<1>1. n \in Nat /\ tr.succ \in Nat /\ tr.fail \in Nat
  BY DEF Trackers
<1>2. p * (n + 1) = p * n + p /\ p * n \in Int
  BY <1>1, OneMore DEF Percents
<1>3. 100 * tr.succ < p * n
  <2>1. n # 0
    BY DEF rateBelow, Percents
  <2> QED BY <2>1 DEF rateBelow
<1>4. 100 * tr.succ < p * (n + 1)
  BY <1>1, <1>2, <1>3 DEF Percents
<1>5. tr.succ + (tr.fail + 1) = n + 1 /\ n + 1 # 0
  BY <1>1
<1>6. /\ [tr EXCEPT !.fail = @ + 1].fail = tr.fail + 1
      /\ [tr EXCEPT !.fail = @ + 1].succ = tr.succ
  BY DEF Trackers
<1> HIDE DEF n
<1> QED BY <1>4, <1>5, <1>6 DEF rateBelow

-----------------------------------------------------------------------------
(* A new monitor and a new autoscaler are well typed.                      *)
LEMMA SLATypes == SLAInit => SLATypeOK
  BY SLAAssumption DEF SLAInit, SLATypeOK, newTracker, NoEvent

(* Whatever n, evaluate answers an action and a number of replicas.        *)
LEMMA EvaluateType ==
  ASSUME NEW tr \in Trackers, NEW n \in Nat
  PROVE  /\ evaluate(tr, n).action \in {"noop", "scale_up", "scale_up_and_model_downgrade",
                                        "scale_down"}
         /\ evaluate(tr, n).newReplicas \in Nat
         /\ evaluate(tr, n) \in [action : {"none", "noop", "scale_up",
                                  "scale_up_and_model_downgrade", "scale_down"},
                                 newReplicas : Int]
<1>1. clamp(n + 2) \in Nat /\ clamp(n + 1) \in Nat /\ clamp(n - 1) \in Nat
  BY SLAAssumption DEF clamp
<1> QED BY <1>1 DEF evaluate

(* A rate above a percentage is not below it, nor below a lower one.       *)
LEMMA AboveIsNotBelow ==
  ASSUME NEW tr \in Trackers, NEW p \in Percents, NEW q \in Percents, p <= q,
         rateBelow(tr, p)
  PROVE  ~rateAbove(tr, q)
<1> DEFINE n == tr.succ + tr.fail
<1>1. n \in Nat /\ tr.succ \in Nat
  BY DEF Trackers
<1>2. p * n <= q * n
  BY <1>1, PercentsOrder
<1>3. n # 0
  BY DEF rateBelow, Percents
<1>4. 100 * tr.succ < p * n
  BY <1>3 DEF rateBelow
<1>5. p * n \in Int /\ q * n \in Int
  BY <1>1 DEF Percents
<1> HIDE DEF n
<1>6. ~(100 * tr.succ > q * n)
  BY <1>1, <1>2, <1>4, <1>5
<1> QED BY <1>3, <1>6 DEF rateAbove, n

-----------------------------------------------------------------------------
(* The inductive invariant.                                                *)
SLAInv == SLATypeOK /\ BreachIffBelowTarget

(* It holds of the new tracker: no outcome counts as 100 percent.          *)
LEMMA InitInv == SLAInit => SLAInv
<1> SUFFICES ASSUME SLAInit PROVE BreachIffBelowTarget
  BY SLATypes DEF SLAInv
<1> QED BY SLAAssumption DEF SLAInit, newTracker, BreachIffBelowTarget, rateBelow

(* Every call of the monitor and of the autoscaler preserves it.           *)
LEMMA StepInv == SLAInv /\ [SLANext]_slaVars => SLAInv'
<1> SUFFICES ASSUME SLAInv, [SLANext]_slaVars PROVE SLAInv'
  OBVIOUS
<1> USE DEF SLAInv
<1>0. sla \in Trackers /\ SLATarget \in Percents
  BY SLAAssumption DEF SLATypeOK, Trackers, Percents
<1>1. CASE RecordOutcome
  <2>1. CASE sla' = afterSuccess(sla)
    <3> DEFINE n == [sla EXCEPT !.succ = @ + 1]
    <3>1. n \in Trackers /\ n.breached = sla.breached
      BY <1>0 DEF Trackers
    <3>2. sla' = [n EXCEPT !.breached = n.breached /\ rateBelow(n, SLATarget)]
      BY <2>1 DEF afterSuccess
    <3>3. sla.breached <=> rateBelow(sla, SLATarget)
      BY DEF BreachIffBelowTarget
    <3>4. ~sla.breached => ~rateBelow(n, SLATarget)
      BY <1>0, <3>3, SuccessRaises
    <3> HIDE DEF n
    <3>5. sla' \in Trackers /\ sla'.succ = n.succ /\ sla'.fail = n.fail
          /\ (sla'.breached <=> (n.breached /\ rateBelow(n, SLATarget)))
      BY <3>1, <3>2 DEF Trackers
    <3>6. rateBelow(sla', SLATarget) <=> rateBelow(n, SLATarget)
      BY <3>5 DEF rateBelow
    <3>7. BreachIffBelowTarget'
      BY <3>1, <3>4, <3>5, <3>6 DEF BreachIffBelowTarget, Trackers
    <3> QED BY <3>5, <3>7, <1>1 DEF RecordOutcome, SLATypeOK, Trackers, NoEvent
  <2>2. CASE sla' = afterFailedWorkload(sla)
    <3> DEFINE n == [sla EXCEPT !.fail = @ + 1]
    <3>1. n \in Trackers /\ n.breached = sla.breached
      BY <1>0 DEF Trackers
    <3>2. sla' = [n EXCEPT !.breached = n.breached \/ rateBelow(n, SLATarget)]
      BY <2>2 DEF afterFailedWorkload
    <3>3. sla.breached <=> rateBelow(sla, SLATarget)
      BY DEF BreachIffBelowTarget
    <3>4. sla.breached => rateBelow(n, SLATarget)
      BY <1>0, <3>3, FailureLowers
    <3> HIDE DEF n
    <3>5. sla' \in Trackers /\ sla'.succ = n.succ /\ sla'.fail = n.fail
          /\ (sla'.breached <=> (n.breached \/ rateBelow(n, SLATarget)))
      BY <3>1, <3>2 DEF Trackers
    <3>6. rateBelow(sla', SLATarget) <=> rateBelow(n, SLATarget)
      BY <3>5 DEF rateBelow
    <3>7. BreachIffBelowTarget'
      BY <3>1, <3>4, <3>5, <3>6 DEF BreachIffBelowTarget, Trackers
    <3> QED BY <3>5, <3>7, <1>1 DEF RecordOutcome, SLATypeOK, Trackers, NoEvent
  <2> QED BY <1>1, <2>1, <2>2 DEF RecordOutcome
<1>2. CASE AddSLATenant
  <2>1. sla' = newTracker
    BY <1>2 DEF AddSLATenant
  <2>2. BreachIffBelowTarget'
    BY <2>1, SLAAssumption DEF newTracker, BreachIffBelowTarget, rateBelow
  <2> QED BY <1>2, <2>1, <2>2 DEF AddSLATenant, newTracker, NoEvent, SLATypeOK
<1>3. CASE EvaluateAndDecide
  <2>1. sla' = sla
    BY <1>3 DEF EvaluateAndDecide
  <2>2. BreachIffBelowTarget'
    BY <2>1 DEF BreachIffBelowTarget, rateBelow
  <2>3. replicas \in Nat /\ sinceScale \in 0 .. Cooldown
    BY DEF SLATypeOK
  <2>4. CASE sinceScale < Cooldown
    <3>1. decision' = [action |-> "noop", newReplicas |-> 0]
          /\ replicas' = replicas /\ sinceScale' = sinceScale
      BY <1>3, <2>3, <2>4, SLAAssumption DEF EvaluateAndDecide
    <3> QED BY <2>1, <2>2, <3>1 DEF SLATypeOK
  <2>5. CASE sinceScale >= Cooldown
    <3>1. decision' = evaluate(sla, replicas) /\ replicas' = decision'.newReplicas
          /\ sinceScale' \in {sinceScale, 0}
      BY <1>3, <2>3, <2>5, SLAAssumption DEF EvaluateAndDecide
    <3> QED BY <1>0, <2>1, <2>2, <2>3, <3>1, EvaluateType, SLAAssumption DEF SLATypeOK
  <2> QED BY <2>3, <2>4, <2>5, SLAAssumption
<1>4. CASE CooldownTick
  BY <1>4, SLAAssumption DEF CooldownTick, SLATypeOK, BreachIffBelowTarget, rateBelow, NoEvent
<1>5. CASE UNCHANGED slaVars
  BY <1>5 DEF slaVars, SLATypeOK, BreachIffBelowTarget, rateBelow
<1> QED BY <1>1, <1>2, <1>3, <1>4, <1>5 DEF SLANext

(* No step of a tenant in breach scales it down.                           *)
LEMMA StepKeepsReplicas ==
  ASSUME SLAInv, SLANext, sla.breached, HealthyThreshold >= SLATarget
  PROVE  decision'.action # "scale_down"
<1>0. sla \in Trackers /\ SLATarget \in Percents /\ HealthyThreshold \in Percents
  BY SLAAssumption DEF SLAInv, SLATypeOK, Trackers, Percents
<1>1. ~rateAbove(sla, HealthyThreshold)
  <2>1. rateBelow(sla, SLATarget)
    BY DEF SLAInv, BreachIffBelowTarget
  <2> QED BY <1>0, <2>1, AboveIsNotBelow DEF Percents
<1>2. evaluate(sla, replicas).action # "scale_down"
  BY <1>1 DEF evaluate
<1> QED BY <1>2
    DEF SLANext, RecordOutcome, AddSLATenant, EvaluateAndDecide, CooldownTick, NoEvent

(* For every target, thresholds, replica limits and cooldown, the breach   *)
(* flag that RecordSuccess and RecordFailure keep says at every moment     *)
(* whether the success rate is below the target, and EvaluateAndDecide     *)
(* never scales a tenant in breach down unless the healthy threshold is    *)
(* below its target.                                                       *)
THEOREM SLASound == SLASpec => SLAIsSound
<1>1. SLASpec => []SLAInv
  BY InitInv, StepInv, PTL DEF SLASpec
<1>2. SLAInv => BreachIffBelowTarget
  BY DEF SLAInv
<1>3. SLAInv /\ [SLANext]_slaVars =>
        [(sla.breached /\ HealthyThreshold >= SLATarget)
           => decision'.action # "scale_down"]_slaVars
  BY StepKeepsReplicas
<1>4. SLASpec => BreachedKeepsReplicas
  BY <1>1, <1>3, PTL DEF SLASpec, BreachedKeepsReplicas
<1> QED BY <1>1, <1>2, <1>4, PTL DEF SLAIsSound

-----------------------------------------------------------------------------
(*                               TenantQuota                               *)
(*                                                                         *)
(* The tracker's counter is exact on the day it was reset.  On a later     *)
(* day it may hold an older count, but nothing was admitted on such a day  *)
(* unless it is the same day of the year, when the counter is not reset.   *)

QuotaTrackers == [tracked : BOOLEAN, used : Nat, cost : Nat, lastReset : Nat]

Exact(tr, u, d) ==
  /\ tr \in QuotaTrackers /\ u \in Nat
  /\ tr.lastReset <= d
  /\ u # 0 => d % YearLength = tr.lastReset % YearLength /\ u <= tr.used
  /\ tr.lastReset = d => tr.used <= u
  /\ u <= QuotaPerDay

QuotaInv ==
  /\ today \in Nat
  /\ trackers \in [Tenants -> QuotaTrackers] /\ usedToday \in [Tenants -> Nat]
  /\ \A t \in Tenants : Exact(trackers[t], usedToday[t], today)

(* The behaviours of the quota gate.                                       *)
QuotaSpec == QuotaInit /\ [][QuotaNext]_quotaVars

(* Division with remainder.                                                *)
LEMMA Division ==
  ASSUME NEW a \in Int, NEW n \in Int, n > 0
  PROVE  \E k, r \in Int : a = n * k + r /\ r = a % n
<1>1. a = n * (a \div n) + (a % n)
  BY SMT
<1>2. a \div n \in Int /\ a % n \in Int
  OBVIOUS
<1> QED BY <1>1, <1>2, Zenon

(* Days that fall on the same day of the year are whole years apart.       *)
LEMMA WholeYears ==
  ASSUME NEW a \in Nat, NEW b \in Nat, NEW n \in Nat \ {0}, a % n = b % n
  PROVE  (a - b) % n = 0
<1>1. a \in Int /\ b \in Int /\ n \in Int /\ n > 0
  OBVIOUS
<1>2. PICK p, r \in Int : a = n * p + r /\ r = a % n
  BY <1>1, Division
<1>3. PICK q, s \in Int : b = n * q + s /\ s = b % n
  BY <1>1, Division
<1>4. r = s
  BY <1>2, <1>3
<1>5. n * p \in Int /\ n * q \in Int
  BY <1>1
<1>6. a - b = n * p - n * q
  BY <1>2, <1>3, <1>4, <1>5
<1>7. n * p - n * q = n * (p - q)
  BY <1>1
<1>8. ASSUME NEW k \in Int PROVE (n * k) % n = 0
  OBVIOUS
<1>9. p - q \in Int
  OBVIOUS
<1>10. a - b = n * (p - q)
  BY <1>6, <1>7
<1> QED BY <1>8, <1>9, <1>10

(* maybeReset keeps a tracker exact, and clears it on another day of the   *)
(* year.                                                                   *)
LEMMA MaybeResetExact ==
  ASSUME today \in Nat, NEW tr, NEW u, Exact(tr, u, today)
  PROVE  /\ Exact(maybeReset(tr), u, today)
         /\ today % YearLength = maybeReset(tr).lastReset % YearLength
         /\ maybeReset(tr) = tr \/ (maybeReset(tr).used = 0 /\ u = 0)
<1>1. tr \in QuotaTrackers /\ u \in Nat
  BY DEF Exact
<1>2. CASE today % YearLength # tr.lastReset % YearLength
  <2> DEFINE q == [tr EXCEPT !.used = 0, !.lastReset = today]
  <2>1. q \in QuotaTrackers /\ q.used = 0 /\ q.lastReset = today
    BY <1>1 DEF QuotaTrackers
  <2>2. maybeReset(tr) = q
    BY <1>2 DEF maybeReset
  <2>3. u = 0
    BY <1>2 DEF Exact
  <2> HIDE DEF q
  <2> QED BY <2>1, <2>2, <2>3, QuotaAssumption DEF Exact
<1>3. CASE today % YearLength = tr.lastReset % YearLength
  BY <1>3 DEF maybeReset
<1> QED BY <1>2, <1>3

(* One admission counts once on both sides.                                *)
LEMMA AdmissionExact ==
  ASSUME today \in Nat, NEW tr, NEW u, Exact(tr, u, today),
         today % YearLength = tr.lastReset % YearLength, tr.used < QuotaPerDay
  PROVE  Exact([tr EXCEPT !.used = @ + 1, !.cost = @ + EstCost], u + 1, today)
<1> DEFINE q == [tr EXCEPT !.used = @ + 1, !.cost = @ + EstCost]
<1>1. tr \in QuotaTrackers /\ u \in Nat /\ tr.used \in Nat
  BY DEF Exact, QuotaTrackers
<1>0. tr.used + 1 \in Nat /\ tr.cost + EstCost \in Nat
  BY <1>1, QuotaAssumption DEF QuotaTrackers
<1>2. q \in QuotaTrackers /\ q.used = tr.used + 1 /\ q.lastReset = tr.lastReset
  BY <1>0, <1>1 DEF QuotaTrackers
<1>3. u <= tr.used
  BY <1>1 DEF Exact
<1> HIDE DEF q
<1>4. u + 1 <= q.used /\ u + 1 <= QuotaPerDay
  BY <1>1, <1>2, <1>3, QuotaAssumption
<1>5. q.lastReset = today => q.used <= u + 1
  BY <1>1, <1>2 DEF Exact
<1>6. q.lastReset <= today
  BY <1>2 DEF Exact
<1>7. Exact(q, u + 1, today)
  BY <1>1, <1>2, <1>4, <1>5, <1>6 DEF Exact
<1> QED BY <1>7 DEF q

(* What one gate step does to its tenant.                                  *)
LEMMA GateStep ==
  ASSUME QuotaInv, NEW t \in Tenants, QuotaGate(t)
  PROVE  /\ QuotaInv'
         /\ verdict'.tenant = t
         /\ verdict'.result = "quota" =>
              \/ usedToday[t] >= QuotaPerDay
              \/ /\ today > trackers[t].lastReset
                 /\ (today - trackers[t].lastReset) % YearLength = 0
<1> DEFINE tr == maybeReset(trackers[t])
           u == usedToday[t]
<1>1. /\ today \in Nat /\ trackers[t] \in QuotaTrackers /\ u \in Nat
      /\ Exact(trackers[t], u, today)
  BY DEF QuotaInv
<1>2. /\ Exact(tr, u, today)
      /\ today % YearLength = tr.lastReset % YearLength
      /\ tr = trackers[t] \/ (tr.used = 0 /\ u = 0)
  BY <1>1, MaybeResetExact
<1>3. CASE ~ExtractFromNamespace(t) \/ ~trackers[t].tracked
  <2>1. /\ UNCHANGED <<trackers, today, usedToday>>
        /\ verdict' = [tenant |-> t, result |-> "unmetered"]
           \/ verdict' = [tenant |-> t, result |-> "panic"]
    BY <1>3 DEF QuotaGate
  <2> QED BY <2>1 DEF QuotaInv
<1>4. CASE ExtractFromNamespace(t) /\ trackers[t].tracked
  <2> DEFINE r == refusal(tr)
             n == IF r = "none" THEN [tr EXCEPT !.used = @ + 1, !.cost = @ + EstCost] ELSE tr
             v == IF r = "none" THEN u + 1 ELSE u
  <2>1. /\ trackers' = [trackers EXCEPT ![t] = n]
        /\ verdict' = [tenant |-> t, result |-> IF r = "none" THEN "admitted" ELSE r]
        /\ usedToday' = IF r = "none" THEN [usedToday EXCEPT ![t] = @ + 1] ELSE usedToday
        /\ today' = today
    BY <1>4 DEF QuotaGate
  <2>2. tr.used \in Nat /\ tr \in QuotaTrackers
    BY <1>2 DEF Exact, QuotaTrackers
  <2>3. r = "none" => tr.used < QuotaPerDay
    BY <2>2, QuotaAssumption DEF refusal
  <2>4. r = "quota" => tr.used >= QuotaPerDay
    BY <2>2, QuotaAssumption DEF refusal
  <2>5. Exact(n, v, today)
    BY <1>1, <1>2, <2>3, AdmissionExact
  <2>6. usedToday' = [usedToday EXCEPT ![t] = v]
    BY <2>1 DEF QuotaInv
  <2>7. n \in QuotaTrackers /\ v \in Nat
    BY <2>5 DEF Exact
  <2>8. verdict'.result = "quota" => r = "quota"
    BY <2>1
  <2>9. verdict'.tenant = t
    BY <2>1
  <2> HIDE DEF n, v, r
  <2>10. QuotaInv'
    BY <2>1, <2>5, <2>6, <2>7 DEF QuotaInv
  <2>11. ASSUME r = "quota"
         PROVE  \/ u >= QuotaPerDay
                \/ today > trackers[t].lastReset /\ (today - trackers[t].lastReset) % YearLength = 0
    <3>1. tr = trackers[t]
      BY <2>11, <2>4, <1>2, QuotaAssumption
    <3>2. trackers[t].lastReset \in Nat /\ trackers[t].lastReset <= today
      BY <1>1 DEF Exact, QuotaTrackers
    <3> DEFINE l == trackers[t].lastReset
    <3>3. CASE l = today
      <4>1. tr.used <= u
        BY <1>1, <3>1, <3>3 DEF Exact
      <4> QED BY <4>1, <1>1, <2>2, <2>4, <2>11, QuotaAssumption
    <3>4. CASE l # today
      <4>1. (today - l) % YearLength = 0
        BY <1>1, <1>2, <3>1, <3>2, QuotaAssumption, WholeYears
      <4> QED BY <4>1, <3>2, <3>4, <1>1
    <3> QED BY <3>3, <3>4
  <2> QED BY <2>8, <2>9, <2>10, <2>11
<1> QED BY <1>3, <1>4

LEMMA QuotaInitially == QuotaInit => QuotaInv
<1> SUFFICES ASSUME QuotaInit PROVE QuotaInv
  OBVIOUS
<1>1. Untracked \in QuotaTrackers /\ Untracked.used = 0 /\ Untracked.lastReset = 0
  BY DEF Untracked, QuotaTrackers
<1>2. Exact(Untracked, 0, 0)
  BY <1>1, QuotaAssumption DEF Exact
<1> QED BY <1>1, <1>2 DEF QuotaInit, QuotaInv

LEMMA QuotaStep ==
  ASSUME QuotaInv, [QuotaNext]_quotaVars
  PROVE  QuotaInv'
<1>1. ASSUME NEW t \in Tenants, RegisterTenant(t) \/ DeactivateTenant(t)
      PROVE  QuotaInv'
  BY <1>1 DEF RegisterTenant, DeactivateTenant, QuotaInv
<1>2. ASSUME NEW t \in Tenants, AddTenant(t) \/ Reset(t)
      PROVE  QuotaInv'
  <2>1. /\ trackers' = [trackers EXCEPT ![t] = freshTracker]
        /\ usedToday' = [usedToday EXCEPT ![t] = 0] /\ today' = today
    BY <1>2 DEF AddTenant, Reset
  <2>2. /\ freshTracker \in QuotaTrackers
        /\ freshTracker.used = 0 /\ freshTracker.lastReset = today
    BY DEF freshTracker, QuotaTrackers, QuotaInv
  <2>3. Exact(freshTracker, 0, today)
    BY <2>2, QuotaAssumption DEF Exact, QuotaInv
  <2> QED BY <2>1, <2>2, <2>3 DEF QuotaInv
<1>3. ASSUME NEW t \in Tenants, QuotaGate(t)
      PROVE  QuotaInv'
  BY <1>3, GateStep
<1>4. CASE Midnight
  <2>1. /\ today \in Nat /\ today' = today + 1 /\ trackers' = trackers
        /\ usedToday' = [t \in Tenants |-> 0]
    BY <1>4 DEF Midnight, QuotaInv
  <2>2. ASSUME NEW t \in Tenants PROVE Exact(trackers[t], 0, today + 1)
    <3>1. /\ trackers[t] \in QuotaTrackers /\ trackers[t].lastReset \in Nat
          /\ trackers[t].lastReset <= today
      BY DEF QuotaInv, Exact, QuotaTrackers
    <3>2. trackers[t].lastReset < today + 1
      BY <3>1, <2>1
    <3> QED BY <3>1, <3>2, <2>1, QuotaAssumption DEF Exact
  <2> QED BY <2>1, <2>2 DEF QuotaInv
<1>5. CASE UNCHANGED quotaVars
  BY <1>5 DEF quotaVars, QuotaInv
<1> QED BY <1>1, <1>2, <1>3, <1>4, <1>5 DEF QuotaNext

(* The daily quota of the quota manager is exact for every year length,    *)
(* quota, budget and number of tenants: CheckAndConsume never admits a     *)
(* workload too many, and refuses for the quota early only through the     *)
(* comparison of days of the year in maybeReset.                           *)
THEOREM QuotaExact == QuotaSpec => QuotaIsExact
<1>1. QuotaInit => QuotaInv
  BY QuotaInitially
<1>2. QuotaInv /\ [QuotaNext]_quotaVars => QuotaInv'
  BY QuotaStep
<1>3. QuotaInv => QuotaHeld
  BY DEF QuotaInv, QuotaHeld, Exact
<1>4. QuotaInv /\ [QuotaNext]_quotaVars =>
        [\A t \in Tenants :
           (verdict' = [tenant |-> t, result |-> "quota"])
             => \/ usedToday[t] >= QuotaPerDay
                \/ /\ today > trackers[t].lastReset
                   /\ (today - trackers[t].lastReset) % YearLength = 0]_quotaVars
  <2> SUFFICES ASSUME QuotaInv, QuotaNext, NEW t \in Tenants,
                      verdict' = [tenant |-> t, result |-> "quota"]
               PROVE  \/ usedToday[t] >= QuotaPerDay
                      \/ /\ today > trackers[t].lastReset
                         /\ (today - trackers[t].lastReset) % YearLength = 0
    OBVIOUS
  <2>1. verdict'.tenant = t /\ verdict'.result = "quota"
    OBVIOUS
  <2>2. verdict' # NoVerdict
    BY <2>1 DEF NoVerdict
  <2>3. PICK s \in Tenants : QuotaGate(s)
    BY <2>2 DEF QuotaNext, RegisterTenant, DeactivateTenant, AddTenant, Reset, Midnight
  <2> QED BY <2>1, <2>3, GateStep
<1>5. QuotaSpec => []QuotaInv
  BY <1>1, <1>2, PTL DEF QuotaSpec
<1>6. QuotaSpec => QuotaRefusalEarned
  BY <1>5, <1>4, PTL DEF QuotaSpec, QuotaRefusalEarned
<1> QED BY <1>3, <1>5, <1>6, PTL DEF QuotaIsExact

-----------------------------------------------------------------------------
(*                               CostReport                                *)
(*                                                                         *)
(* A call past the probe has no answer yet, and unless the connection was  *)
(* lost since, LiteLLM is still there, if only with errors.                *)

Asks == [step : {"idle", "probe", "probed"}, ns : SpendKeys,
         answer : {"none", "unreachable", "no_records", "cost"}, value : Nat]

CostInv ==
  /\ telemetry \in Telemetry /\ telemetryLost \in BOOLEAN /\ ask \in Asks
  /\ spend \in [SpendKeys -> [CostModels -> Nat]]
  /\ ask.step # "idle" => ask.answer = "none"
  /\ ask.step = "probed" /\ ~telemetryLost => telemetry # "down"

(* The behaviours of the cost tool.                                        *)
CostSpec == CostInit /\ [][CostNext]_costVars

(* An answer ends the call.                                                *)
LEMMA AnswerEnds ==
  ASSUME ask \in Asks, NEW w \in {"unreachable", "no_records", "cost"}, NEW v \in Nat,
         CostAnswer(w, v)
  PROVE  ask' \in Asks /\ ask'.step = "idle" /\ ask'.answer = w /\ ask'.value = v
  BY DEF CostAnswer, Asks

(* What getWorkloadCost reads: one row of one namespace.                   *)
LEMMA FirstRow ==
  ASSUME CostInv, getWorkloadCost
  PROVE  /\ ask.step = "probed" /\ UNCHANGED <<telemetry, spend, telemetryLost>>
         /\ \/ /\ CostAnswer("no_records", 0)
               /\ telemetry = "ok" => \A m \in CostModels : spend[ask.ns][m] = 0
            \/ \E n \in SpendKeys, m \in CostModels :
                 /\ ask.ns # NoNamespace => n = ask.ns
                 /\ spend[n][m] \in Nat
                 /\ CostAnswer("cost", spend[n][m])
<1> DEFINE matching == {row \in CostSummary(ask.ns) : ask.ns = NoNamespace \/ row[1] = ask.ns}
           first == {row \in matching : \A r \in matching : r[1] = row[1] => row[2] <= r[2]}
<1>1. /\ ask.step = "probed" /\ UNCHANGED <<telemetry, spend, telemetryLost>>
      /\ \/ matching = {} /\ CostAnswer("no_records", 0)
         \/ \E row \in first : CostAnswer("cost", spend[row[1]][row[2]])
  BY DEF getWorkloadCost
<1>2. ask.ns \in SpendKeys /\ spend \in [SpendKeys -> [CostModels -> Nat]]
  BY DEF CostInv, Asks
<1>3. CASE matching = {} /\ CostAnswer("no_records", 0)
  <2>1. ASSUME telemetry = "ok", NEW m \in CostModels PROVE spend[ask.ns][m] = 0
    <3>1. <<ask.ns, m>> \notin matching
      BY <1>3
    <3>2. spend[ask.ns][m] \in Nat
      BY <1>2
    <3>3. spend[ask.ns][m] > 0 => <<ask.ns, m>> \in matching
      BY <1>2, <2>1 DEF CostSummary, namespaceMatch
    <3> QED BY <3>1, <3>2, <3>3
  <2> QED BY <1>1, <1>3, <2>1
<1>4. CASE \E row \in first : CostAnswer("cost", spend[row[1]][row[2]])
  <2>1. PICK row \in first : CostAnswer("cost", spend[row[1]][row[2]])
    BY <1>4
  <2>2. row \in CostSummary(ask.ns) /\ (ask.ns # NoNamespace => row[1] = ask.ns)
    OBVIOUS
  <2>3. row[1] \in SpendKeys /\ row[2] \in CostModels
    BY <2>2 DEF CostSummary
  <2>4. spend[row[1]][row[2]] \in Nat
    BY <2>3, <1>2
  <2> QED BY <1>1, <2>1, <2>2, <2>3, <2>4
<1> QED BY <1>1, <1>3, <1>4

LEMMA CostInitially == CostInit => CostInv
<1> SUFFICES ASSUME CostInit PROVE CostInv
  OBVIOUS
<1>1. ask \in Asks /\ ask.step = "idle"
  BY DEF CostInit, IdleAsk, Asks, SpendKeys
<1>2. spend \in [SpendKeys -> [CostModels -> Nat]]
  BY DEF CostInit
<1>3. telemetry \in Telemetry /\ telemetryLost \in BOOLEAN
  BY DEF CostInit
<1> QED BY <1>1, <1>2, <1>3 DEF CostInv

LEMMA CostStep ==
  ASSUME CostInv, [CostNext]_costVars
  PROVE  CostInv'
<1>0. ask \in Asks
  BY DEF CostInv
<1>1. CASE AskCost
  <2>1. PICK ns \in SpendKeys : ask' = [IdleAsk EXCEPT !.step = "probe", !.ns = ns]
    BY <1>1, Zenon DEF AskCost
  <2>2. ask' \in Asks /\ ask'.step = "probe" /\ ask'.answer = "none"
    BY <2>1 DEF Asks, IdleAsk, SpendKeys
  <2>3. telemetryLost' = telemetryLost /\ telemetry' = telemetry /\ spend' = spend
    BY <1>1 DEF AskCost
  <2> QED BY <2>2, <2>3 DEF CostInv
<1>2. CASE probeLiteLLM
  <2>1. telemetryLost' = FALSE /\ UNCHANGED <<telemetry, spend>>
    BY <1>2 DEF probeLiteLLM
  <2>2. CASE telemetry # "down"
    <3>1. ask.step = "probe" /\ ask' = [ask EXCEPT !.step = "probed"]
      BY <1>2, <2>2 DEF probeLiteLLM
    <3>2. ask' \in Asks /\ ask'.step = "probed" /\ ask'.answer = ask.answer
      BY <3>1, <1>0 DEF Asks
    <3> QED BY <2>1, <2>2, <3>1, <3>2 DEF CostInv
  <2>3. CASE telemetry = "down"
    <3>1. CostAnswer("unreachable", 0)
      BY <1>2, <2>3 DEF probeLiteLLM
    <3>2. ask' \in Asks /\ ask'.step = "idle"
      BY <3>1, <1>0, AnswerEnds
    <3> QED BY <2>1, <3>2 DEF CostInv
  <2> QED BY <2>2, <2>3
<1>3. CASE getWorkloadCost
  <2>1. UNCHANGED <<telemetry, spend, telemetryLost>>
    BY <1>3 DEF getWorkloadCost
  <2>2. ask' \in Asks /\ ask'.step = "idle"
    BY <1>0, <1>3, FirstRow, AnswerEnds
  <2> QED BY <2>1, <2>2 DEF CostInv
<1>4. CASE LiteLLMChanges
  <2>1. PICK t \in Telemetry : telemetry' = t /\ telemetryLost' = (telemetryLost \/ t = "down")
    BY <1>4 DEF LiteLLMChanges
  <2>2. telemetryLost' \in BOOLEAN /\ UNCHANGED <<spend, ask>>
    BY <1>4, <2>1 DEF LiteLLMChanges
  <2> QED BY <2>1, <2>2 DEF CostInv
<1>5. CASE SpendRecorded
  <2>1. UNCHANGED <<telemetry, ask, telemetryLost>>
    BY <1>5 DEF SpendRecorded
  <2>2. spend' \in [SpendKeys -> [CostModels -> Nat]]
    BY <1>5 DEF SpendRecorded, CostInv
  <2> QED BY <2>1, <2>2 DEF CostInv
<1>6. CASE UNCHANGED costVars
  BY <1>6 DEF costVars, CostInv
<1> QED BY <1>1, <1>2, <1>3, <1>4, <1>5, <1>6 DEF CostNext

(* For every set of namespaces and models and whatever is recorded while a *)
(* call is under way, get_workload_cost answers no spend only when there   *)
(* is none, when /spend/logs answers with an error or when the connection  *)
(* was lost after probeLiteLLM, and never the spend of another namespace.  *)
THEOREM CostHonest == CostSpec => CostAnswerIsHonest
<1>1. CostSpec => []CostInv
  BY CostInitially, CostStep, PTL DEF CostSpec
<1>2. CostInv /\ [CostNext]_costVars =>
        [ /\ (ask.step = "probed" /\ ask'.answer = "no_records") =>
               \/ \A m \in CostModels : spend[ask.ns][m] = 0
               \/ telemetry = "erring" \/ telemetryLost
          /\ (ask.step = "probed" /\ ask'.answer = "cost" /\ ask.ns # NoNamespace) =>
               \E m \in CostModels : ask'.value = spend[ask.ns][m] ]_costVars
  <2> SUFFICES ASSUME CostInv, CostNext, ask.step = "probed"
               PROVE  /\ ask'.answer = "no_records" =>
                           \/ \A m \in CostModels : spend[ask.ns][m] = 0
                           \/ telemetry = "erring" \/ telemetryLost
                      /\ ask'.answer = "cost" /\ ask.ns # NoNamespace =>
                           \E m \in CostModels : ask'.value = spend[ask.ns][m]
    OBVIOUS
  <2>1. ask \in Asks /\ ask.answer = "none" /\ (~telemetryLost => telemetry # "down")
        /\ telemetry \in Telemetry
    BY DEF CostInv
  <2>2. CASE getWorkloadCost
    <3>1. CASE /\ CostAnswer("no_records", 0)
               /\ telemetry = "ok" => \A m \in CostModels : spend[ask.ns][m] = 0
      <4>1. ask'.answer = "no_records"
        BY <3>1, <2>1, AnswerEnds
      <4> QED BY <4>1, <3>1, <2>1 DEF Telemetry
    <3>2. CASE \E n \in SpendKeys, m \in CostModels :
                 /\ ask.ns # NoNamespace => n = ask.ns
                 /\ spend[n][m] \in Nat
                 /\ CostAnswer("cost", spend[n][m])
      <4>1. PICK n \in SpendKeys, m \in CostModels :
              /\ ask.ns # NoNamespace => n = ask.ns
              /\ spend[n][m] \in Nat
              /\ CostAnswer("cost", spend[n][m])
        BY <3>2
      <4>2. ask'.answer = "cost" /\ ask'.value = spend[n][m]
        BY <4>1, <2>1, AnswerEnds
      <4> QED BY <4>1, <4>2
    <3> QED BY <2>2, <3>1, <3>2, FirstRow
  <2>3. CASE ~getWorkloadCost
    <3>1. ask'.answer = "none"
      BY <2>1, <2>3 DEF CostNext, AskCost, probeLiteLLM, LiteLLMChanges, SpendRecorded
    <3> QED BY <3>1
  <2> QED BY <2>2, <2>3
<1> QED BY <1>1, <1>2, PTL DEF CostSpec, CostAnswerIsHonest

-----------------------------------------------------------------------------
(*                              ModelRouting                               *)
(*                                                                         *)
(* The status never holds an operation of a generation the cache has not   *)
(* seen, and during a routing it holds that routing's own: a reconcile of  *)
(* an old copy cannot have been overtaken, and the id it writes back when  *)
(* it ends is the one that is there.                                       *)

Keys(D) == {d.key : d \in D}

(* The id of the routing under way is in the status and in the workload    *)
(* the reconcile holds, which is never of an older generation.             *)
RoutingHeld ==
  routePC # "idle" =>
    /\ op \in Generations /\ wl.op = op /\ obj.op = op /\ op <= wl.generation
    /\ routePC = "call" => wl.generation = op /\ attempts <= MaxRetries
    /\ routePC = "record" => op \in Keys(delivered)

VersionsInv ==
  /\ cache.generation \in Generations /\ obj.generation \in Generations
  /\ obj.op <= obj.generation /\ obj.op <= cache.generation /\ cache.op <= obj.op

DeliveredInv == \A d \in delivered : d.prompt = d.key /\ d.key <= obj.op

ChargesInv == recorded \subseteq Keys(delivered) /\ usage = Cardinality(recorded)

RoutingInv == RoutingTypeOK /\ RoutingHeld /\ VersionsInv /\ DeliveredInv /\ ChargesInv

(* A stored object has the fields it was given.                            *)
LEMMA StoredFields ==
  ASSUME obj \in Objects, NEW new \in Objects
  PROVE  /\ Stored(new) \in Objects
         /\ Stored(new).op = new.op /\ Stored(new).generation = new.generation
<1>1. CASE [new EXCEPT !.rv = obj.rv] = obj
  <2> DEFINE q == [new EXCEPT !.rv = obj.rv]
  <2>1. q.op = new.op /\ q.generation = new.generation
    BY DEF Objects
  <2> QED BY <1>1, <2>1 DEF Stored
<1>2. CASE [new EXCEPT !.rv = obj.rv] # obj
  <2> DEFINE q == [new EXCEPT !.rv = obj.rv + 1]
  <2>1. obj.rv + 1 \in Nat
    BY DEF Objects
  <2>2. q \in Objects /\ q.op = new.op /\ q.generation = new.generation
    BY <2>1 DEF Objects
  <2> QED BY <1>2, <2>2 DEF Stored
<1> QED BY <1>1, <1>2

(* Keys are generations, so that there are finitely many.                  *)
LEMMA KeysFinite ==
  ASSUME RoutingTypeOK
  PROVE  IsFiniteSet(Keys(delivered))
<1>1. MaxGeneration \in Int /\ 1 \in Int
  BY RoutingAssumption
<1>2. IsFiniteSet(Generations)
  BY <1>1, FS_Interval DEF Generations
<1>3. Keys(delivered) \subseteq Generations
  BY DEF RoutingTypeOK, Keys
<1> QED BY <1>2, <1>3, FS_Subset

LEMMA RoutingInitially == RoutingInit => RoutingInv
<1> SUFFICES ASSUME RoutingInit PROVE RoutingInv
  OBVIOUS
<1> DEFINE q == [NoWorkload EXCEPT !.rv = 1, !.generation = 1]
<1>0. 1 \in Generations /\ 0 \in 0 .. MaxGeneration /\ 1 \in 0 .. MaxGeneration
  BY RoutingAssumption DEF Generations
<1>1. NoWorkload \in Objects
  BY <1>0 DEF NoWorkload, Objects
<1>2. q \in Objects /\ q.op = 0 /\ q.generation = 1
  BY <1>0 DEF NoWorkload, Objects
<1>3. obj = q /\ cache = q /\ wl = NoWorkload /\ routePC = "idle"
  BY DEF RoutingInit
<1> HIDE DEF q
<1>4. op = 0 /\ attempts = 0 /\ faults = 0 /\ usage = 0 /\ recorded = {} /\ delivered = {}
  BY DEF RoutingInit
<1>5. RoutingTypeOK
  BY <1>0, <1>1, <1>2, <1>3, <1>4, RoutingAssumption DEF RoutingTypeOK
<1>6. RoutingHeld /\ DeliveredInv
  BY <1>3, <1>4 DEF RoutingHeld, DeliveredInv
<1>7. VersionsInv
  BY <1>0, <1>2, <1>3 DEF VersionsInv
<1>8. ChargesInv
  BY <1>4, FS_EmptySet DEF ChargesInv
<1> QED BY <1>5, <1>6, <1>7, <1>8 DEF RoutingInv

(* The end of a reconcile forgets the routing.                             *)
LEMMA EndForgets ==
  ASSUME EndReconcile
  PROVE  /\ routePC' = "idle" /\ wl' \in Objects /\ op' \in 0 .. MaxGeneration
         /\ attempts' \in 0 .. MaxRetries + 1
<1>1. 0 \in 0 .. MaxGeneration /\ 0 \in 0 .. MaxRetries + 1
  BY RoutingAssumption
<1>2. NoWorkload \in Objects
  BY <1>1 DEF NoWorkload, Objects
<1> QED BY <1>1, <1>2 DEF EndReconcile

(* The status written at the end of a reconcile keeps the operation id.    *)
LEMMA FinalWrite ==
  ASSUME RoutingInv, routePC # "idle", EndReconcile, NEW new \in Objects,
         new.op = op, new.generation = wl.generation,
         obj' = Stored(new) \/ obj' = obj,
         UNCHANGED <<cache, recorded, usage, delivered, faults>>
  PROVE  RoutingInv'
<1>1. obj \in Objects /\ obj.op = op /\ op \in Generations /\ op <= wl.generation
  BY DEF RoutingInv, RoutingTypeOK, RoutingHeld
<1>2. obj' \in Objects /\ obj'.op = op
  BY <1>1, StoredFields
<1>3. obj'.generation \in Generations /\ op <= obj'.generation
  <2>1. wl.generation \in 0 .. MaxGeneration
    BY DEF RoutingInv, RoutingTypeOK, Objects
  <2>2. wl.generation \in Generations
    BY <1>1, <2>1, RoutingAssumption DEF Generations
  <2>3. CASE obj' = obj
    BY <2>3, <1>1 DEF RoutingInv, VersionsInv
  <2>4. CASE obj' = Stored(new)
    <3>1. obj'.generation = new.generation
      BY <2>4, <1>1, StoredFields
    <3> QED BY <3>1, <2>2, <1>1
  <2> QED BY <2>3, <2>4
<1>4. RoutingTypeOK'
  BY <1>2, EndForgets DEF RoutingInv, RoutingTypeOK
<1>5. RoutingHeld'
  BY EndForgets DEF RoutingHeld
<1>6. VersionsInv'
  BY <1>1, <1>2, <1>3 DEF RoutingInv, VersionsInv
<1>7. DeliveredInv'
  BY <1>1, <1>2 DEF RoutingInv, DeliveredInv
<1>8. ChargesInv'
  BY DEF RoutingInv, ChargesInv
<1> QED BY <1>4, <1>5, <1>6, <1>7, <1>8 DEF RoutingInv

(* persistModelRoutingIntent: the routing starts with its id in the status.*)
LEMMA PersistKeeps ==
  ASSUME RoutingInv, PersistIntent
  PROVE  RoutingInv'
<1> DEFINE id == cache.generation
           q == [cache EXCEPT !.op = id]
<1>0. /\ obj \in Objects /\ cache \in Objects /\ id \in Generations
      /\ obj.op <= id /\ cache.op <= obj.op /\ obj.op \in Nat /\ cache.op \in Nat
      /\ id \in 0 .. MaxGeneration
  BY DEF RoutingInv, RoutingTypeOK, VersionsInv, Objects
<1>1. q \in Objects /\ q.op = id /\ q.generation = id
  BY <1>0 DEF Objects
<1> HIDE DEF q
<1>2. 0 \in 0 .. MaxRetries + 1 /\ 0 <= MaxRetries
  BY RoutingAssumption
<1>3. /\ UNCHANGED <<cache, recorded, usage, delivered, faults>>
      /\ attempts' = 0 /\ routePC = "idle"
  BY DEF PersistIntent
<1>4. CASE UNCHANGED <<obj, wl, op, routePC>>
  <2>1. RoutingTypeOK'
    BY <1>2, <1>3, <1>4 DEF RoutingInv, RoutingTypeOK
  <2> QED BY <1>3, <1>4, <2>1
        DEF RoutingInv, RoutingHeld, VersionsInv, DeliveredInv, ChargesInv
<1>5. CASE ~UNCHANGED <<obj, wl, op, routePC>>
  <2>1. /\ op' = id /\ routePC' = "call" /\ wl' \in Objects /\ obj' \in Objects
        /\ wl'.op = id /\ wl'.generation = id
        /\ obj'.op = id /\ obj'.generation \in Generations /\ id <= obj'.generation
    <3>1. \/ cache.op = id /\ wl' = cache /\ obj' = obj /\ op' = id /\ routePC' = "call"
          \/ obj' = Stored(q) /\ wl' = obj' /\ op' = id /\ routePC' = "call"
      BY <1>5 DEF PersistIntent, modelRoutingOperationID, q
    <3>2. CASE cache.op = id /\ wl' = cache /\ obj' = obj /\ op' = id /\ routePC' = "call"
      <4>1. obj.op = id
        BY <3>2, <1>0 DEF Generations
      <4> QED BY <3>2, <4>1, <1>0 DEF RoutingInv, VersionsInv
    <3>3. CASE obj' = Stored(q) /\ wl' = obj' /\ op' = id /\ routePC' = "call"
      <4>1. obj' \in Objects /\ obj'.op = id /\ obj'.generation = id
        BY <3>3, <1>0, <1>1, StoredFields
      <4>2. id <= id
        BY <1>0 DEF Generations
      <4> QED BY <3>3, <4>1, <4>2, <1>0
    <3> QED BY <3>1, <3>2, <3>3
  <2>2. id <= id
    BY <1>0 DEF Generations
  <2>3. RoutingTypeOK'
    BY <1>0, <1>2, <1>3, <2>1 DEF RoutingInv, RoutingTypeOK
  <2>4. RoutingHeld'
    BY <1>0, <1>2, <1>3, <2>1, <2>2 DEF RoutingHeld
  <2>5. VersionsInv'
    BY <1>0, <1>3, <2>1, <2>2 DEF RoutingInv, VersionsInv, Generations
  <2>6. DeliveredInv'
    <3>1. ASSUME NEW d \in delivered PROVE d.prompt = d.key /\ d.key <= id
      <4>1. d.prompt = d.key /\ d.key <= obj.op /\ d.key \in Nat
        BY DEF RoutingInv, DeliveredInv, RoutingTypeOK, Generations
      <4> QED BY <4>1, <1>0 DEF Generations
    <3> QED BY <3>1, <2>1, <1>3 DEF DeliveredInv
  <2>7. ChargesInv'
    BY <1>3 DEF RoutingInv, ChargesInv
  <2> QED BY <2>3, <2>4, <2>5, <2>6, <2>7 DEF RoutingInv
<1> QED BY <1>4, <1>5

(* An attempt delivers the routing's own id with its own prompt.           *)
LEMMA CallKeeps ==
  ASSUME RoutingInv, CallModel
  PROVE  RoutingInv'
<1> DEFINE d0 == [key |-> wl.op, prompt |-> wl.generation]
<1>1. /\ routePC = "call" /\ op \in Generations /\ wl.op = op /\ wl.generation = op
      /\ obj.op = op /\ op <= wl.generation /\ attempts <= MaxRetries
  BY DEF CallModel, RoutingInv, RoutingHeld
<1>2. d0 \in [key : Generations, prompt : Generations] /\ d0.key = op /\ d0.prompt = op
  BY <1>1
<1> HIDE DEF d0
<1>3. PICK res \in {"ok", "lost", "failed"} :
        /\ IF res = "ok" THEN UNCHANGED faults ELSE Fault
        /\ delivered' = IF res = "failed" THEN delivered ELSE delivered \cup {d0}
        /\ attempts' = attempts + 1
        /\ routePC' = IF res = "ok" THEN "record"
                      ELSE IF attempts' > MaxRetries THEN "fail" ELSE "call"
  BY DEF CallModel, d0
<1>4. UNCHANGED <<obj, cache, wl, op, recorded, usage>>
  BY DEF CallModel
<1>5. attempts' \in 0 .. MaxRetries + 1 /\ (routePC' = "call" => attempts' <= MaxRetries)
  BY <1>1, <1>3, RoutingAssumption DEF RoutingInv, RoutingTypeOK
<1>6. faults' \in 0 .. MaxFaults
  BY <1>3, RoutingAssumption DEF RoutingInv, RoutingTypeOK, Fault
<1>7. RoutingTypeOK'
  BY <1>2, <1>3, <1>4, <1>5, <1>6 DEF RoutingInv, RoutingTypeOK
<1>8. Keys(delivered) \subseteq Keys(delivered')
  BY <1>3 DEF Keys
<1>9. res = "ok" => op \in Keys(delivered')
  BY <1>2, <1>3 DEF Keys
<1>10. RoutingHeld'
  BY <1>1, <1>3, <1>4, <1>5, <1>9 DEF RoutingHeld
<1>11. VersionsInv'
  BY <1>4 DEF RoutingInv, VersionsInv
<1>12. DeliveredInv'
  <2>1. op <= op
    BY <1>1 DEF Generations
  <2> QED BY <2>1, <1>1, <1>2, <1>3, <1>4 DEF RoutingInv, DeliveredInv
<1>13. ChargesInv'
  BY <1>4, <1>8 DEF RoutingInv, ChargesInv
<1> QED BY <1>7, <1>10, <1>11, <1>12, <1>13 DEF RoutingInv

(* RecordUsage charges what it has not charged before.                     *)
LEMMA RecordKeeps ==
  ASSUME RoutingInv, NEW id \in Keys(delivered), RecordUsage(id), delivered' = delivered
  PROVE  ChargesInv' /\ usage' \in Nat /\ recorded' \subseteq Generations
<1>1. /\ recorded' = recorded \cup {id}
      /\ usage' = IF id \in recorded THEN usage ELSE usage + 1
      /\ recorded \subseteq Keys(delivered) /\ usage = Cardinality(recorded) /\ usage \in Nat
  BY DEF RecordUsage, RoutingInv, ChargesInv, RoutingTypeOK
<1>2. IsFiniteSet(recorded)
  BY <1>1, KeysFinite, FS_Subset DEF RoutingInv
<1>3. Cardinality(recorded \cup {id}) =
        IF id \in recorded THEN Cardinality(recorded) ELSE Cardinality(recorded) + 1
  BY <1>2, FS_AddElement
<1>4. Keys(delivered) \subseteq Generations
  BY DEF RoutingInv, RoutingTypeOK, Keys
<1> QED BY <1>1, <1>3, <1>4 DEF ChargesInv

LEMMA AnnotateKeeps ==
  ASSUME RoutingInv, RecordAndAnnotate
  PROVE  RoutingInv'
<1>1. /\ routePC = "record" /\ op \in Generations /\ wl.op = op /\ obj.op = op
      /\ op <= wl.generation /\ op \in Keys(delivered)
  BY DEF RecordAndAnnotate, RoutingInv, RoutingHeld
<1>2. /\ routePC' = "succeed" /\ UNCHANGED <<cache, op, attempts, delivered>>
      /\ RecordUsage(op)
  BY <1>1 DEF RecordAndAnnotate
<1>3. ChargesInv' /\ usage' \in Nat /\ recorded' \subseteq Generations
  BY <1>1, <1>2, RecordKeeps
<1>4. obj \in Objects /\ wl \in Objects /\ obj.generation \in Generations
      /\ obj.op <= obj.generation
  BY DEF RoutingInv, RoutingTypeOK, VersionsInv
<1> DEFINE q == [obj EXCEPT !.cost = usage']
           w == [wl EXCEPT !.cost = usage']
<1>5. /\ q \in Objects /\ q.op = op /\ q.generation = obj.generation
      /\ w \in Objects /\ w.op = op /\ w.generation = wl.generation
  BY <1>1, <1>3, <1>4 DEF Objects
<1>6. \/ obj' = Stored(q) /\ wl' = obj' /\ UNCHANGED faults
      \/ UNCHANGED <<obj, wl, faults>>
      \/ obj' = obj /\ wl' = w /\ Fault
  BY DEF RecordAndAnnotate
<1> HIDE DEF q, w
<1>7. /\ obj' \in Objects /\ wl' \in Objects /\ obj'.op = op /\ wl'.op = op
      /\ obj'.generation = obj.generation /\ op <= wl'.generation
  BY <1>1, <1>4, <1>5, <1>6, StoredFields
<1>8. faults' \in 0 .. MaxFaults
  BY <1>6, RoutingAssumption DEF RoutingInv, RoutingTypeOK, Fault
<1>9. RoutingTypeOK'
  BY <1>2, <1>3, <1>7, <1>8 DEF RoutingInv, RoutingTypeOK
<1>10. RoutingHeld'
  BY <1>1, <1>2, <1>7 DEF RoutingHeld
<1>11. VersionsInv'
  BY <1>1, <1>2, <1>4, <1>7 DEF RoutingInv, VersionsInv
<1>12. DeliveredInv'
  BY <1>1, <1>2, <1>7 DEF RoutingInv, DeliveredInv
<1> QED BY <1>3, <1>9, <1>10, <1>11, <1>12 DEF RoutingInv

LEMMA MarkKeeps ==
  ASSUME RoutingInv, MarkSucceeded \/ MarkFailed
  PROVE  RoutingInv'
<1>1. /\ routePC # "idle" /\ EndReconcile
      /\ UNCHANGED <<cache, recorded, usage, delivered, faults>>
  BY DEF MarkSucceeded, MarkFailed
<1>2. /\ wl \in Objects /\ wl.op = op /\ op \in 0 .. MaxGeneration /\ obj \in Objects
      /\ wl.generation \in 0 .. MaxGeneration /\ obj.cost \in Nat
  BY <1>1 DEF RoutingInv, RoutingHeld, RoutingTypeOK, Objects
<1> DEFINE done == [wl EXCEPT !.op = op, !.routed = wl.generation, !.phase = "Completed",
                              !.cost = obj.cost]
           failed == [wl EXCEPT !.phase = "Failed"]
<1>3. /\ done \in Objects /\ done.op = op /\ done.generation = wl.generation
      /\ failed \in Objects /\ failed.op = op /\ failed.generation = wl.generation
  BY <1>2 DEF Objects
<1>4. obj' = Stored(done) \/ obj' = Stored(failed) \/ obj' = obj
  BY DEF MarkSucceeded, MarkFailed
<1> HIDE DEF done, failed
<1> QED BY <1>1, <1>3, <1>4, FinalWrite

LEMMA RoutingStep ==
  ASSUME RoutingInv, [RoutingNext]_routingVars
  PROVE  RoutingInv'
<1>1. CASE RoutingCrash
  <2>1. UNCHANGED <<obj, cache, delivered>> /\ recorded' = {} /\ usage' = 0
    BY <1>1 DEF RoutingCrash
  <2>2. /\ routePC' = "idle" /\ wl' \in Objects /\ op' \in 0 .. MaxGeneration
        /\ attempts' \in 0 .. MaxRetries + 1
    BY <1>1, EndForgets DEF RoutingCrash
  <2>3. faults' \in 0 .. MaxFaults
    BY <1>1, RoutingAssumption DEF RoutingCrash, RoutingInv, RoutingTypeOK, Fault
  <2>4. RoutingTypeOK'
    BY <2>1, <2>2, <2>3 DEF RoutingInv, RoutingTypeOK
  <2>5. ChargesInv'
    BY <2>1, FS_EmptySet DEF ChargesInv
  <2> QED BY <2>1, <2>2, <2>4, <2>5 DEF RoutingInv, RoutingHeld, VersionsInv, DeliveredInv
<1>2. CASE SyncCache
  <2>1. /\ cache' = obj
        /\ UNCHANGED <<obj, routePC, wl, op, attempts, recorded, usage, delivered, faults>>
    BY <1>2 DEF SyncCache
  <2>2. RoutingTypeOK' /\ RoutingHeld' /\ DeliveredInv' /\ ChargesInv'
    BY <2>1 DEF RoutingInv, RoutingTypeOK, RoutingHeld, DeliveredInv, ChargesInv
  <2>3. obj.op <= obj.op
    BY DEF RoutingInv, RoutingTypeOK, Objects
  <2>4. VersionsInv'
    BY <2>1, <2>3 DEF RoutingInv, VersionsInv
  <2> QED BY <2>2, <2>4 DEF RoutingInv
<1>3. CASE EditSpec
  <2> DEFINE q == [obj EXCEPT !.rv = @ + 1, !.generation = @ + 1]
  <2>1. /\ obj \in Objects /\ obj.rv + 1 \in Nat /\ obj.generation + 1 \in Generations
        /\ obj.generation + 1 \in 0 .. MaxGeneration
        /\ obj.op <= obj.generation + 1
    BY <1>3, RoutingAssumption
       DEF EditSpec, RoutingInv, RoutingTypeOK, VersionsInv, Objects, Generations
  <2>2. q \in Objects /\ q.op = obj.op /\ q.generation = obj.generation + 1
    BY <2>1 DEF Objects
  <2>3. /\ obj' = q
        /\ UNCHANGED <<cache, routePC, wl, op, attempts, recorded, usage, delivered, faults>>
    BY <1>3 DEF EditSpec
  <2> HIDE DEF q
  <2>4. RoutingTypeOK' /\ RoutingHeld' /\ DeliveredInv' /\ ChargesInv'
    BY <2>2, <2>3 DEF RoutingInv, RoutingTypeOK, RoutingHeld, DeliveredInv, ChargesInv
  <2>5. VersionsInv'
    BY <2>1, <2>2, <2>3 DEF RoutingInv, VersionsInv
  <2> QED BY <2>4, <2>5 DEF RoutingInv
<1>4. CASE UNCHANGED routingVars
  BY <1>4 DEF routingVars, RoutingInv, RoutingTypeOK, RoutingHeld, VersionsInv,
              DeliveredInv, ChargesInv
<1> QED BY <1>1, <1>2, <1>3, <1>4, PersistKeeps, CallKeeps, AnnotateKeeps, MarkKeeps
        DEF RoutingNext, Reconcile

(* For every number of generations, retries and faults, the operation id   *)
(* of cost-aware routing names one prompt, is in the status before the     *)
(* provider sees it and ever after, and is charged once per process,       *)
(* through crashes, stale caches, lost writes and the cost annotation's    *)
(* unconditional patch.                                                    *)
THEOREM OperationSound == RoutingSpec => []OperationIsSound
<1>1. RoutingInv => OperationIsSound
  <2> SUFFICES ASSUME RoutingInv PROVE OperationIsSound
    OBVIOUS
  <2>1. KeyIdentifiesPrompt /\ KeyPersistedBeforeCall
    BY DEF RoutingInv, DeliveredInv, KeyIdentifiesPrompt, KeyPersistedBeforeCall
  <2>2. Cardinality(recorded) <= Cardinality(Keys(delivered))
    BY KeysFinite, FS_Subset DEF RoutingInv, ChargesInv
  <2>3. ChargedOncePerOperation
    BY <2>2 DEF RoutingInv, ChargesInv, ChargedOncePerOperation, Keys
  <2> QED BY <2>1, <2>3 DEF OperationIsSound
<1> QED BY <1>1, RoutingInitially, RoutingStep, PTL DEF RoutingSpec

-----------------------------------------------------------------------------
(*                             CircuitBreaker                              *)
(*                                                                         *)
(* The successes of a half-open period are among those recorded since the  *)
(* last failure, and the failures a closed breaker counts among those      *)
(* recorded since the last success.                                        *)

Circuits == [state : {"closed", "open", "half-open"}, failures : Nat, successes : Nat]

Counted(b, s, f) ==
  /\ b \in Circuits /\ s \in Nat /\ f \in Nat
  /\ b.state = "half-open" => b.successes <= s
  /\ b.state = "closed" => b.failures <= f

BreakerInv == Counted(circuit, streak, failRun)

(* The behaviours of the breaker and its callers.                          *)
BreakerSpec == BreakerInit /\ [][BreakerNext]_breakerVars

(* What a counter holds that stops at its bound.                           *)
LEMMA UpToIs ==
  ASSUME NEW a \in Nat, NEW b \in Nat
  PROVE  UpTo(a, b) = IF a <= b THEN a ELSE b
<1> DEFINE m == IF a <= b THEN a ELSE b
<1>1. m \in {a, b} /\ \A y \in {a, b} : m <= y
  OBVIOUS
<1>2. ASSUME NEW x \in {a, b}, \A y \in {a, b} : x <= y PROVE x = m
  BY <1>1, <1>2
<1> QED BY <1>1, <1>2 DEF UpTo, Min

(* What a step does to the breaker: it stays counted, and its moves are    *)
(* earned by what was recorded.                                            *)
LEMMA BreakerMoves ==
  ASSUME BreakerInv, BreakerNext
  PROVE  /\ BreakerInv'
         /\ (circuit.state # "closed" /\ circuit'.state = "closed") => streak' >= SuccessThreshold
         /\ (circuit.state = "closed" /\ circuit'.state # "closed") => failRun' >= FailureThreshold
<1>0. /\ circuit \in Circuits /\ circuit.failures \in Nat /\ circuit.successes \in Nat
      /\ circuit.failures + 1 \in Nat /\ circuit.successes + 1 \in Nat
      /\ streak \in Nat /\ failRun \in Nat /\ streak + 1 \in Nat /\ failRun + 1 \in Nat
  BY DEF BreakerInv, Counted, Circuits
<1>1. ASSUME NEW c \in Callers, Allow(c) PROVE BreakerInv' /\ (circuit'.state = circuit.state \/
         (circuit.state = "open" /\ circuit'.state = "half-open"))
  <2> DEFINE h == [circuit EXCEPT !.state = "half-open", !.successes = 0]
  <2>1. h \in Circuits /\ h.state = "half-open" /\ h.successes = 0
    BY <1>0 DEF Circuits
  <2>2. /\ UNCHANGED <<streak, failRun>>
        /\ circuit' = circuit \/ (circuit.state = "open" /\ circuit' = h)
    BY <1>1 DEF Allow, halfOpen
  <2> HIDE DEF h
  <2> QED BY <1>0, <2>1, <2>2 DEF BreakerInv, Counted
<1>2. ASSUME NEW c \in Callers, RecordSuccess(c)
      PROVE  /\ BreakerInv'
             /\ circuit.state # "closed" /\ circuit'.state = "closed"
                  => streak' >= SuccessThreshold
             /\ circuit.state = "closed" => circuit'.state = "closed"
  <2> DEFINE shut == [state |-> "closed", failures |-> 0, successes |-> 0]
             more == [circuit EXCEPT !.successes = @ + 1]
             none == [circuit EXCEPT !.failures = 0]
  <2>1. /\ shut \in Circuits /\ shut.state = "closed" /\ shut.failures = 0
        /\ more \in Circuits /\ more.state = circuit.state
        /\ more.successes = circuit.successes + 1
        /\ none \in Circuits /\ none.state = circuit.state /\ none.failures = 0
    BY <1>0 DEF Circuits
  <2>2. failRun' = 0 /\ 0 <= 0
    BY <1>2 DEF RecordSuccess
  <2>3. CASE circuit.state = "half-open"
    <3>1. /\ circuit' = IF circuit.successes + 1 >= SuccessThreshold THEN shut ELSE more
          /\ streak' = UpTo(SuccessThreshold, streak + 1)
      BY <1>2, <2>3 DEF RecordSuccess
    <3> HIDE DEF shut, more, none
    <3>2. streak' = IF SuccessThreshold <= streak + 1 THEN SuccessThreshold ELSE streak + 1
      BY <3>1, <1>0, BreakerAssumption, UpToIs
    <3>3. circuit.successes <= streak
      BY <2>3 DEF BreakerInv, Counted
    <3>4. CASE circuit.successes + 1 >= SuccessThreshold
      <4>1. streak' = SuccessThreshold /\ streak' \in Nat /\ SuccessThreshold >= SuccessThreshold
        BY <3>2, <3>3, <3>4, <1>0, BreakerAssumption
      <4>2. circuit' = shut
        BY <3>1, <3>4
      <4> QED BY <4>1, <4>2, <2>1, <2>2, <2>3 DEF BreakerInv, Counted
    <3>5. CASE ~(circuit.successes + 1 >= SuccessThreshold)
      <4>1. circuit.successes + 1 <= streak' /\ streak' \in Nat
        BY <3>2, <3>3, <3>5, <1>0, BreakerAssumption
      <4>2. circuit' = more
        BY <3>1, <3>5
      <4> QED BY <4>1, <4>2, <2>1, <2>2, <2>3 DEF BreakerInv, Counted
    <3> QED BY <3>4, <3>5
  <2>4. CASE circuit.state # "half-open"
    <3>1. /\ circuit' = IF circuit.state = "closed" THEN none ELSE circuit
          /\ streak' = streak
      BY <1>2, <2>4 DEF RecordSuccess
    <3> HIDE DEF shut, more, none
    <3> QED BY <1>0, <2>1, <2>2, <2>4, <3>1 DEF BreakerInv, Counted
  <2> QED BY <2>3, <2>4
<1>3. ASSUME NEW c \in Callers, RecordFailure(c)
      PROVE  /\ BreakerInv'
             /\ circuit'.state = "closed" => circuit.state = "closed"
             /\ circuit.state = "closed" /\ circuit'.state # "closed"
                  => failRun' >= FailureThreshold
  <2> DEFINE n == UpTo(FailureThreshold, circuit.failures + 1)
             b == [circuit EXCEPT !.failures = n]
             s == afterFailure(b)
             d == [b EXCEPT !.state = s]
  <2>1. /\ n = IF FailureThreshold <= circuit.failures + 1
                 THEN FailureThreshold ELSE circuit.failures + 1
        /\ failRun' = IF FailureThreshold <= failRun + 1 THEN FailureThreshold ELSE failRun + 1
    BY <1>0, <1>3, BreakerAssumption, UpToIs DEF RecordFailure
  <2>2. circuit' = d /\ streak' = 0
    BY <1>3 DEF RecordFailure
  <2>3. n \in Nat /\ failRun' \in Nat
    BY <2>1, <1>0, BreakerAssumption
  <2> HIDE DEF n
  <2>4. b \in Circuits /\ b.failures = n /\ b.state = circuit.state
    BY <2>3, <1>0 DEF Circuits
  <2> HIDE DEF b
  <2>5. /\ s \in {"closed", "open"}
        /\ s = "closed" => circuit.state = "closed"
        /\ circuit.state = "closed" /\ s # "closed" => n >= FailureThreshold
    BY <2>4 DEF afterFailure, Circuits
  <2> HIDE DEF s
  <2>6. d \in Circuits /\ d.state = s /\ d.failures = n
    BY <2>4, <2>5 DEF Circuits
  <2> HIDE DEF d
  <2>7. circuit.state = "closed" => n <= failRun'
    <3>1. circuit.state = "closed" => circuit.failures <= failRun
      BY DEF BreakerInv, Counted
    <3> QED BY <3>1, <2>1, <1>0, BreakerAssumption
  <2>8. circuit.state = "closed" /\ s # "closed" => failRun' >= FailureThreshold
    BY <2>5, <2>7, <2>3, BreakerAssumption
  <2> QED BY <2>2, <2>3, <2>5, <2>6, <2>7, <2>8 DEF BreakerInv, Counted
<1>4. ASSUME \/ \E c \in Callers : Answer(c)
             \/ Outage \/ Restored \/ Tick
      PROVE  UNCHANGED <<circuit, streak, failRun>>
  BY <1>4 DEF Answer, Outage, Restored, Tick
<1>5. UNCHANGED <<circuit, streak, failRun>> => BreakerInv'
  BY DEF BreakerInv
<1> QED BY <1>1, <1>2, <1>3, <1>4, <1>5 DEF BreakerNext, CallerStep

(* For every number of callers and whatever order their results arrive in, *)
(* CircuitBreaker closes only after SuccessThreshold successes of a        *)
(* half-open test without a failure in between, and opens only after       *)
(* FailureThreshold failures in a row.                                     *)
THEOREM BreakerEarned == BreakerSpec => BreakerMovesAreEarned
<1>1. BreakerInit => BreakerInv
  BY DEF BreakerInit, BreakerInv, Counted, Circuits
<1>2. BreakerInv /\ [BreakerNext]_breakerVars => BreakerInv'
  BY BreakerMoves DEF breakerVars, BreakerInv
<1>3. BreakerSpec => []BreakerInv
  BY <1>1, <1>2, PTL DEF BreakerSpec
<1>4. BreakerInv /\ [BreakerNext]_breakerVars =>
        [/\ (circuit.state # "closed" /\ circuit'.state = "closed") => streak' >= SuccessThreshold
         /\ (circuit.state = "closed" /\ circuit'.state # "closed") => failRun' >= FailureThreshold
        ]_breakerVars
  BY BreakerMoves
<1> QED BY <1>3, <1>4, PTL DEF BreakerSpec, BreakerMovesAreEarned

-----------------------------------------------------------------------------
(*                           TenantProvisioning                            *)
(*                                                                         *)
(* While the reconcile's copy is the stored version, every flag it has     *)
(* beyond the stored ones stands for objects that exist.                   *)

TenantObjects ==
  [providers : SUBSET Providers, flags : SUBSET Range(Stages),
   phase : {"none", "Provisioning", "Active"}, ready : BOOLEAN, netpol : BOOLEAN]

Provisioned(flags, t) == \A s \in flags : Range(objects(s, t)) \subseteq cluster

TenantInv ==
  /\ tenant \in TenantObjects /\ tenantCache \in TenantObjects /\ work \in TenantObjects
  /\ "cache" \in current => tenantCache = tenant
  /\ "work" \in current => Provisioned(work.flags \ tenant.flags, work)

(* A finite set is listed by a sequence.                                   *)
LEMMA Listing ==
  ASSUME NEW S, IsFiniteSet(S)
  PROVE  SetToSeq(S) \in Seq(S)
<1>1. Cardinality(S) \in Nat /\ ExistsBijection(1 .. Cardinality(S), S)
  BY FS_CardinalityType
<1>2. \E f \in [1 .. Cardinality(S) -> S] : IsInjective(f)
  BY <1>1 DEF ExistsBijection, Bijection, Injection
<1>3. SetToSeq(S) \in [1 .. Cardinality(S) -> S]
  BY <1>2 DEF SetToSeq
<1> QED BY <1>1, <1>3

(* The objects of a stage are a sequence of them.                          *)
LEMMA StageObjects ==
  ASSUME NEW s \in Range(Stages), NEW t \in TenantObjects
  PROVE  DOMAIN objects(s, t) = 1 .. Len(objects(s, t))
<1> DEFINE S == {<<"secret", p>> : p \in t.providers}
           f == [p \in t.providers |-> <<"secret", p>>]
<1>1. IsFiniteSet(t.providers)
  BY TenantAssumption, FS_Subset DEF TenantObjects
<1>2. f \in Surjection(t.providers, S)
  BY DEF Surjection
<1>3. IsFiniteSet(S)
  BY <1>1, <1>2, FS_Surjection
<1> HIDE DEF f, S
<1>4. SetToSeq(S) \in Seq(S)
  BY <1>3, Listing
<1>5. DOMAIN SetToSeq(S) = 1 .. Len(SetToSeq(S))
  BY <1>4
<1>6. s \in {"namespace", "secrets", "rbac", "quotas"}
  BY DEF Range, Stages
<1>7. CASE s = "secrets"
  <2>1. objects(s, t) = SetToSeq(S)
    BY <1>7 DEF objects, provisionSecrets, S
  <2> QED BY <2>1, <1>5
<1>8. CASE s = "namespace"
  <2>1. objects(s, t) = createNamespace
    BY <1>8 DEF objects
  <2> QED BY <2>1 DEF createNamespace
<1>9. CASE s = "rbac"
  <2>1. objects(s, t) = configureRBAC
    BY <1>9 DEF objects
  <2> QED BY <2>1 DEF configureRBAC
<1>10. CASE s = "quotas"
  <2>1. objects(s, t) = enforceQuotas
    BY <1>10 DEF objects
  <2> QED BY <2>1 DEF enforceQuotas
<1> QED BY <1>6, <1>7, <1>8, <1>9, <1>10

(* They are those of its providers.                                        *)
LEMMA SameObjects ==
  ASSUME NEW s, NEW t, NEW u, t.providers = u.providers
  PROVE  objects(s, t) = objects(s, u)
  BY DEF objects, provisionSecrets

LEMMA TenantInitially == TenantInit => TenantInv
<1> SUFFICES ASSUME TenantInit PROVE TenantInv
  OBVIOUS
<1> DEFINE p0 == CHOOSE p \in Providers : TRUE
           q == [NewTenant EXCEPT !.providers = {p0}]
<1>1. p0 \in Providers
  BY TenantAssumption
<1> HIDE DEF p0
<1>2. NewTenant \in TenantObjects
  BY DEF NewTenant, TenantObjects
<1>3. q \in TenantObjects
  BY <1>1, <1>2 DEF TenantObjects
<1>4. tenant = q /\ tenantCache = q /\ work = NewTenant /\ current = {"cache"}
  BY DEF TenantInit, p0
<1> QED BY <1>2, <1>3, <1>4 DEF TenantInv

(* A status write keeps the invariant, and stores flags of what exists.    *)
LEMMA PersistStatus ==
  ASSUME TenantInv, NEW t \in TenantObjects, t.flags = work.flags, t.providers = work.providers,
         persistTenantStatus(t), EndTenant, UNCHANGED <<tenantCache, cluster>>
  PROVE  /\ TenantInv'
         /\ \A s \in tenant'.flags \ tenant.flags : Range(objects(s, tenant')) \subseteq cluster
<1>1. work' \in TenantObjects /\ work'.flags = {}
  BY DEF EndTenant, NewTenant, TenantObjects
<1>2. \/ "work" \in current /\ tenant' = t /\ current' = {}
      \/ tenant' = tenant /\ current' = current
  BY DEF persistTenantStatus
<1>3. TenantInv'
  BY <1>1, <1>2 DEF TenantInv, Provisioned
<1>4. ASSUME NEW s \in tenant'.flags \ tenant.flags
      PROVE  Range(objects(s, tenant')) \subseteq cluster
  <2>1. "work" \in current /\ tenant' = t
    BY <1>2, <1>4
  <2>2. Range(objects(s, work)) \subseteq cluster
    BY <2>1, <1>4 DEF TenantInv, Provisioned
  <2>3. objects(s, t) = objects(s, work)
    BY SameObjects
  <2> QED BY <2>1, <2>2, <2>3
<1> QED BY <1>3, <1>4

(* A stage that ends sets the flag of objects that exist.                  *)
LEMMA StageProvisions ==
  ASSUME TenantInv, ProvisionStage
  PROVE  TenantInv' /\ tenant' = tenant
<1> DEFINE os == objects(stage, work)
           q == [work EXCEPT !.flags = @ \cup {stage}]
<1>1. /\ work \in TenantObjects /\ stage \in Range(Stages)
      /\ UNCHANGED <<tenant, tenantCache, current>>
  BY DEF TenantInv, ProvisionStage
<1>2. q \in TenantObjects /\ q.flags = work.flags \cup {stage} /\ q.providers = work.providers
  BY <1>1 DEF TenantObjects
<1>3. DOMAIN os = 1 .. Len(os)
  BY <1>1, StageObjects
<1>4. PICK n \in 0 .. Len(os) :
        /\ cluster' = cluster \cup {os[i] : i \in 1 .. n}
        /\ n = Len(os) => work' = q
        /\ n # Len(os) => work' = work
  BY DEF ProvisionStage
<1> HIDE DEF os, q
<1>5. cluster \subseteq cluster'
  BY <1>4
<1>6. ASSUME "work" \in current', NEW s \in work'.flags \ tenant'.flags
      PROVE  Range(objects(s, work')) \subseteq cluster'
  <2>1. objects(s, work') = objects(s, work)
    BY <1>2, <1>4, SameObjects
  <2>2. CASE s \in work.flags
    <3>1. Range(objects(s, work)) \subseteq cluster
      BY <1>1, <1>6, <2>2 DEF TenantInv, Provisioned
    <3> QED BY <2>1, <3>1, <1>5
  <2>3. CASE s \notin work.flags
    <3>1. n = Len(os) /\ s = stage
      BY <1>2, <1>4, <1>6, <2>3
    <3>2. Range(os) \subseteq cluster'
      BY <1>3, <1>4, <3>1 DEF Range
    <3> QED BY <2>1, <3>1, <3>2 DEF os
  <2> QED BY <2>2, <2>3
<1>7. work' \in TenantObjects
  BY <1>1, <1>2, <1>4
<1> QED BY <1>1, <1>6, <1>7 DEF TenantInv, Provisioned

(* What a step does to the flags.                                          *)
LEMMA TenantStep ==
  ASSUME TenantInv, TenantNext
  PROVE  /\ TenantInv'
         /\ \A s \in tenant'.flags \ tenant.flags : Range(objects(s, tenant')) \subseteq cluster
<1>0. work \in TenantObjects /\ tenant \in TenantObjects /\ tenantCache \in TenantObjects
  BY DEF TenantInv
<1>1. CASE StartTenant
  <2> DEFINE c == [tenantCache EXCEPT !.phase = "Provisioning"]
  <2>1. c \in TenantObjects /\ c.flags = tenantCache.flags
    BY <1>0 DEF TenantObjects
  <2>2. PICK active \in BOOLEAN : work' = [c EXCEPT !.netpol = active]
    BY <1>1 DEF StartTenant, updateNetworkPolicyStatus
  <2> HIDE DEF c
  <2>3. work' \in TenantObjects /\ work'.flags = tenantCache.flags
    BY <2>1, <2>2 DEF TenantObjects
  <2>4. /\ tenant' = tenant /\ tenantCache' = tenantCache
        /\ current' = IF "cache" \in current THEN {"cache", "work"} ELSE {}
    BY <1>1 DEF StartTenant
  <2> QED BY <2>3, <2>4 DEF TenantInv, Provisioned
<1>2. CASE ProvisionStage
  BY <1>2, StageProvisions
<1>3. CASE PersistFailure
  BY <1>0, <1>3, PersistStatus DEF PersistFailure
<1>4. CASE PersistActive
  <2> DEFINE a == [work EXCEPT !.phase = "Active", !.ready = TRUE]
  <2>1. a \in TenantObjects /\ a.flags = work.flags /\ a.providers = work.providers
    BY <1>0 DEF TenantObjects
  <2>2. persistTenantStatus(a) /\ EndTenant /\ UNCHANGED <<tenantCache, cluster>>
    BY <1>4 DEF PersistActive
  <2> HIDE DEF a
  <2> QED BY <2>1, <2>2, PersistStatus
<1>5. CASE TenantCrash
  <2>1. work' \in TenantObjects /\ work'.flags = {}
    BY <1>5 DEF TenantCrash, EndTenant, NewTenant, TenantObjects
  <2>2. UNCHANGED <<tenant, tenantCache, current>>
    BY <1>5 DEF TenantCrash
  <2> QED BY <2>1, <2>2 DEF TenantInv, Provisioned
<1>6. CASE SyncTenantCache
  <2>1. /\ UNCHANGED <<tenant, work, cluster>> /\ tenantCache' = tenant
        /\ current' = current \cup {"cache"}
    BY <1>6 DEF SyncTenantCache
  <2> QED BY <2>1 DEF TenantInv, Provisioned
<1>7. CASE EditProviders
  <2>1. PICK ps \in SUBSET Providers \ {{}, tenant.providers} :
          tenant' = [tenant EXCEPT !.providers = ps] /\ current' = {}
    BY <1>7 DEF EditProviders
  <2>2. tenant' \in TenantObjects /\ tenant'.flags = tenant.flags
    BY <1>0, <2>1 DEF TenantObjects
  <2>3. UNCHANGED <<tenantCache, work>>
    BY <1>7 DEF EditProviders
  <2> QED BY <2>1, <2>2, <2>3 DEF TenantInv
<1>8. CASE CreateSource
  <2>1. UNCHANGED <<tenant, tenantCache, work, current, cluster>>
    BY <1>8 DEF CreateSource
  <2> QED BY <2>1 DEF TenantInv, Provisioned
<1> QED BY <1>1, <1>2, <1>3, <1>4, <1>5, <1>6, <1>7, <1>8 DEF TenantNext, TenantReconcile

(* For every set of providers and any number of edits, failed calls and    *)
(* crashes, persistTenantStatus stores a provisioning flag only when all   *)
(* the objects of its stage exist for the spec stored with it.             *)
THEOREM FlagsEarned == TenantSpec => FlagMeansProvisioned
<1>1. TenantInv /\ [TenantNext]_tenantVars => TenantInv'
  BY TenantStep DEF tenantVars, TenantInv, Provisioned
<1>2. TenantSpec => []TenantInv
  BY <1>1, TenantInitially, PTL DEF TenantSpec
<1>3. TenantInv /\ [TenantNext]_tenantVars =>
        [\A s \in tenant'.flags \ tenant.flags :
           Range(objects(s, tenant')) \subseteq cluster]_tenantVars
  BY TenantStep
<1> QED BY <1>2, <1>3, PTL DEF TenantSpec, FlagMeansProvisioned

=============================================================================
