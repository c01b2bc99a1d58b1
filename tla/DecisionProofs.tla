--------------------------- MODULE DecisionProofs ---------------------------
(***************************************************************************)
(* The decision pipeline for every scale, every score and every override.  *)
(* The operators are case splits over Booleans and comparisons, so the     *)
(* proofs rest on one lemma about Decide, one about the model, and the     *)
(* type invariant.                                                         *)
(***************************************************************************)
EXTENDS ThresholdRules, TLAPS

(* The type invariant: Reconcile computes its outcome from well-formed     *)
(* findings, scores and overrides.                                         *)
THEOREM TypeCorrect == Spec => []TypeOK
<1>1. Init => TypeOK
  BY ScaleAssumption DEF Init, TypeOK, Layers, Scores
<1>2. TypeOK /\ [Next]_vars => TypeOK'
  <2> SUFFICES ASSUME TypeOK, [Next]_vars PROVE TypeOK'
    OBVIOUS
  <2> USE ScaleAssumption DEF TypeOK, Layers, Scores
  <2>1. CASE Finding
    BY <2>1 DEF Finding
  <2>2. CASE ThresholdRefuses
    BY <2>2 DEF ThresholdRefuses
  <2>3. CASE Claim
    BY <2>3 DEF Claim
  <2>4. CASE Override
    BY <2>4 DEF Override
  <2>5. CASE UNCHANGED vars
    BY <2>5 DEF vars
  <2> QED
    BY <2>1, <2>2, <2>3, <2>4, <2>5 DEF Next
<1> QED
  BY <1>1, <1>2, PTL DEF Spec

(* What Decide returns, case by case, for any findings.                    *)
LEMMA DecideCases ==
  ASSUME NEW l \in Layers
  PROVE  /\ Decide(l) \in Results
         /\ Decide(l).outcome = "allow" <=> (~humanBlocked(l) /\ l.threshold /\ ~l.packApproval)
         /\ Decide(l).outcome = "deny" <=> (humanBlocked(l) \/ ~l.threshold)
         /\ Decide(l).layer = "threshold" <=> (~humanBlocked(l) /\ (l.threshold => ~l.packApproval))
         /\ Decide(l) = [outcome |-> "require_approval", layer |-> "pack"]
              <=> (~humanBlocked(l) /\ l.threshold /\ l.packApproval)
BY DEF Decide, Results, Outcomes, LayerNames, humanBlocked, Layers

(* The model either keeps the outcome or asks a human about an allow.      *)
LEMMA ModelCases ==
  ASSUME NEW base \in Results, NEW m, NEW md, NEW s, NEW o
  PROVE  LET r == applyDecisionModel(base, m, md, s, o, Scale)
         IN  r = base \/ (base.outcome = "allow" /\ r = [outcome |-> "require_approval", layer |-> "model"])
BY DEF applyDecisionModel, ApplyModel

(* "It never loosens": the model of pkg/decision leaves a decision alone   *)
(* or turns an allow into an approval, for every score and threshold.      *)
THEOREM EscalatesOnly == Spec => []ModelEscalatesOnly
<1>1. TypeOK => ModelEscalatesOnly
  BY DecideCases, ModelCases DEF TypeOK, ModelEscalatesOnly, final
<1> QED
  BY <1>1, TypeCorrect, PTL

(* A higher risk or a lower threshold never makes the model's outcome less *)
(* strict.                                                                 *)
LEMMA ModelMonotone ==
  ASSUME NEW base \in Results, NEW r \in 0 .. Scale, NEW q \in 0 .. Scale, q <= r,
         NEW t \in 0 .. Scale, NEW u \in 0 .. Scale, t <= u, NEW err, NEW md
  PROVE  Strictness(ApplyModel(base, r, t, err, md, Scale).outcome)
           >= Strictness(ApplyModel(base, q, u, err, md, Scale).outcome)
<1>1. ClampMicro(r, Scale) = r /\ ClampMicro(q, Scale) = q
  BY ScaleAssumption DEF ClampMicro
<1> QED
  BY <1>1, ScaleAssumption DEF ApplyModel, Strictness, Results, Outcomes

(* The effective threshold is a score, and at most the artifact's.         *)
LEMMA ThresholdRange ==
  ASSUME NEW t \in 0 .. Scale, NEW o \in -1 .. Scale
  PROVE  /\ EffectiveThreshold(t, o, Scale) \in 0 .. Scale
         /\ EffectiveThreshold(t, o, Scale) <= EffectiveThreshold(t, -1, Scale)
         /\ EffectiveThreshold(t, -1, Scale) \in 0 .. Scale
BY ScaleAssumption DEF EffectiveThreshold, ClampMicro

(* ScoreClaimSafe: whatever an agent claims, the outcome is at least as    *)
(* strict as without its claims.                                           *)
THEOREM ClaimsOnlyTighten == Spec => []ClaimsNeverLoosen
<1>1. TypeOK => ClaimsNeverLoosen
  <2> SUFFICES ASSUME TypeOK PROVE ClaimsNeverLoosen
    OBVIOUS
  <2> DEFINE base == Decide(layers)
             risk == ScoreClaimSafe(score.claimed, score.base)
             t == EffectiveThreshold(score.threshold, override, Scale)
             err == model = "unavailable" \/ score.err
  <2>1. base \in Results /\ t \in 0 .. Scale
    BY DecideCases, ThresholdRange DEF TypeOK, Scores
  <2>2. risk \in 0 .. Scale /\ score.base \in 0 .. Scale /\ score.base <= risk
    BY ScaleAssumption DEF TypeOK, Scores, ScoreClaimSafe
  <2>3. Strictness(ApplyModel(base, risk, t, err, mode, Scale).outcome)
          >= Strictness(ApplyModel(base, score.base, t, err, mode, Scale).outcome)
    <3> HIDE DEF base, risk, t, err
    <3> QED BY <2>1, <2>2, ModelMonotone, t <= t, ScaleAssumption
  <2>4. CASE model = "none" \/ mode = "off"
    BY <2>1, <2>4 DEF ClaimsNeverLoosen, final, applyDecisionModel, Results, Outcomes, Strictness
  <2>5. CASE ~(model = "none" \/ mode = "off")
    <3> DEFINE plain == [score EXCEPT !.claimed = score.base]
    <3>1. /\ plain.threshold = score.threshold /\ plain.err = score.err
          /\ ScoreClaimSafe(plain.claimed, plain.base) = score.base
      BY DEF TypeOK, Scores, ScoreClaimSafe
    <3> QED
      BY <2>3, <2>5, <3>1 DEF ClaimsNeverLoosen, final, applyDecisionModel
  <2> QED
    BY <2>4, <2>5
<1> QED
  BY <1>1, TypeCorrect, PTL

(* EffectiveThreshold: a workload's override never makes the outcome less  *)
(* strict than the threshold of the model artifact.                        *)
THEOREM OverrideOnlyTightens == Spec => []OverrideNeverLoosens
<1>1. TypeOK => OverrideNeverLoosens
  <2> SUFFICES ASSUME TypeOK PROVE OverrideNeverLoosens
    OBVIOUS
  <2> DEFINE base == Decide(layers)
             risk == ScoreClaimSafe(score.claimed, score.base)
             t == EffectiveThreshold(score.threshold, override, Scale)
             u == EffectiveThreshold(score.threshold, -1, Scale)
             err == model = "unavailable" \/ score.err
  <2>1. base \in Results /\ t \in 0 .. Scale /\ u \in 0 .. Scale /\ t <= u
    BY DecideCases, ThresholdRange DEF TypeOK, Scores
  <2>2. risk \in 0 .. Scale /\ risk <= risk
    BY ScaleAssumption DEF TypeOK, Scores, ScoreClaimSafe
  <2>3. Strictness(ApplyModel(base, risk, t, err, mode, Scale).outcome)
          >= Strictness(ApplyModel(base, risk, u, err, mode, Scale).outcome)
    <3> HIDE DEF base, risk, t, u, err
    <3> QED BY <2>1, <2>2, ModelMonotone
  <2>4. CASE model = "none" \/ mode = "off"
    BY <2>1, <2>4 DEF OverrideNeverLoosens, final, applyDecisionModel, Results, Outcomes, Strictness
  <2>5. CASE ~(model = "none" \/ mode = "off")
    BY <2>3, <2>5 DEF OverrideNeverLoosens, final, applyDecisionModel
  <2> QED
    BY <2>4, <2>5
<1> QED
  BY <1>1, TypeCorrect, PTL

(* humanBlocked: what a human may approve is exactly what only the         *)
(* threshold, an approval finding or the model held back.                  *)
THEOREM HumanApprovalScope == Spec => []HumanScope
<1>1. TypeOK => HumanScope
  BY DecideCases DEF TypeOK, HumanScope
<1> QED
  BY <1>1, TypeCorrect, PTL

(* Decide is monotone: more findings, or a threshold that refuses, never   *)
(* make its outcome less strict.                                           *)
LEMMA DecideMonotone ==
  ASSUME NEW l \in Layers, NEW m \in Layers,
         l.inv => m.inv, l.packErr => m.packErr, l.packDeny => m.packDeny,
         l.packApproval => m.packApproval, m.threshold => l.threshold
  PROVE  Strictness(Decide(m).outcome) >= Strictness(Decide(l).outcome)
BY DEF Decide, Strictness, Layers

(* "The strictest outcome wins, so no layer can loosen another", the model *)
(* included: an action property of every step that changes the findings.   *)
THEOREM FindingsOnlyTighten == Spec => FindingsNeverLoosen
<1> DEFINE stricter == Strictness(final(layers, score, override)'.outcome)
                         >= Strictness(final(layers, score, override).outcome)
<1>1. TypeOK /\ TypeOK' /\ [Next]_vars => ((score' = score /\ override' = override) => stricter)
  <2> SUFFICES ASSUME TypeOK, TypeOK', [Next]_vars, score' = score, override' = override
               PROVE  stricter
    OBVIOUS
  <2>1. model' = model /\ mode' = mode
    BY DEF Next, Finding, ThresholdRefuses, Claim, Override, vars
  <2>2. /\ layers.inv => layers'.inv
        /\ layers.packErr => layers'.packErr
        /\ layers.packDeny => layers'.packDeny
        /\ layers.packApproval => layers'.packApproval
        /\ layers'.threshold => layers.threshold
    BY DEF Next, Finding, ThresholdRefuses, Claim, Override, vars, TypeOK, Layers
  <2>3. Strictness(Decide(layers').outcome) >= Strictness(Decide(layers).outcome)
    BY <2>2, DecideMonotone DEF TypeOK
  <2>4. Decide(layers) \in Results /\ Decide(layers') \in Results
    BY DecideCases DEF TypeOK
  <2>5. final(layers, score, override)' = applyDecisionModel(Decide(layers'), model, mode, score, override, Scale)
    BY <2>1 DEF final
  <2> QED
    BY <2>3, <2>4, <2>5 DEF final, Results, Outcomes, applyDecisionModel, ApplyModel, Strictness
<1> QED
  BY <1>1, TypeCorrect, PTL DEF Spec, FindingsNeverLoosen

(* The claims an agent sends to the threshold evaluator are percentages.   *)
RulesTypeOK ==
  /\ opaPolicy \in {"strict", "permissive"} /\ cat \in Categories
  /\ conf \in 0 .. 100 /\ health \in 0 .. 100

LEMMA RulesTypeCorrect == RulesSpec => []RulesTypeOK
<1>1. RulesInit => RulesTypeOK
  BY DEF RulesInit, RulesTypeOK
<1>2. RulesTypeOK /\ [RulesNext]_ruleVars => RulesTypeOK'
  BY DEF RulesTypeOK, RulesNext, MoreConfident, LessHealthy, ruleVars
<1> QED
  BY <1>1, <1>2, PTL DEF RulesSpec

(* What the rules answer does not grow with falling health: of the seven   *)
(* rules in a row, the ones that allow ask for a health above a bound, and *)
(* the ones that refuse for low health stand before them.                  *)
LEMMA RulesMonotone ==
  ASSUME NEW m, NEW k \in Categories, NEW c \in 0 .. 100, NEW h \in 0 .. 100,
         NEW g \in 0 .. 100, g <= h, evaluateThreshold(m, k, c, g)
  PROVE  evaluateThreshold(m, k, c, h)
BY DEF evaluateThreshold, EvaluatePermissive, EvaluateStrict, Evaluate, assessConfidence, Categories

(* No layer loosens, the threshold evaluator included: a further finding   *)
(* never loosens what Reconcile decides, worse cluster health never turns  *)
(* a refusal of the threshold rules into an allow, and the rules allow     *)
(* exactly the confidences their boundaries name.                          *)
THEOREM LayersTighten == Spec /\ RulesSpec => LayersOnlyTighten
<1>1. RulesTypeOK /\ RulesTypeOK' /\ [RulesNext]_ruleVars => ((LessHealthy /\ ~allowed) => ~allowed')
  <2> SUFFICES ASSUME RulesTypeOK, RulesTypeOK', LessHealthy, allowed' PROVE allowed
    OBVIOUS
  <2>1. health' <= health /\ opaPolicy' = opaPolicy /\ cat' = cat /\ conf' = conf
    BY DEF LessHealthy, RulesTypeOK
  <2> QED
    BY <2>1, RulesMonotone DEF RulesTypeOK, allowed
<1>2. RulesSpec => HealthOnlyTightens
  BY <1>1, RulesTypeCorrect, PTL DEF RulesSpec, HealthOnlyTightens
<1>3. RulesTypeOK => asAdmitted
  BY DEF RulesTypeOK, asAdmitted, admitted, allowed, evaluateThreshold, EvaluatePermissive,
     EvaluateStrict, Evaluate, assessConfidence, Categories
<1>4. RulesSpec => BoundariesMeet
  BY <1>3, RulesTypeCorrect, PTL DEF BoundariesMeet
<1> QED
  BY <1>2, <1>4, FindingsOnlyTighten, PTL DEF LayersOnlyTighten

(* Together, for every score scale: the model only escalates, neither a    *)
(* claim nor an override loosens a decision, and a human resolves exactly  *)
(* what no invariant, pack error or pack deny stands behind.               *)
THEOREM DecisionSound == Spec => []DecisionIsSound
<1>1. Spec => [](ModelEscalatesOnly /\ ClaimsNeverLoosen /\ OverrideNeverLoosens /\ HumanScope)
  BY EscalatesOnly, ClaimsOnlyTighten, OverrideOnlyTightens, HumanApprovalScope, PTL
<1> QED
  BY <1>1, PTL DEF DecisionIsSound
=============================================================================
