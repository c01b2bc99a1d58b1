------------------------------ MODULE Decision ------------------------------
(***************************************************************************)
(* The decision layers of one proposed action, as pure operators:          *)
(* pkg/decision (Decide, ApplyModel, EffectiveThreshold, ScoreClaimSafe),  *)
(* pkg/rules/threshold (the hardcoded evaluator) and the two controller    *)
(* helpers that combine them (humanBlocked, the INV-05 re-decision of      *)
(* recordDecision).                                                        *)
(*                                                                         *)
(* Findings are reduced to whether there is one: the code only ever asks   *)
(* len(...) > 0 or err # nil.  Reason strings are not modelled.            *)
(***************************************************************************)
EXTENDS Integers

Outcomes == {"allow", "require_approval", "deny"}
LayerNames == {"invariant", "pack", "threshold", "model"}
Modes == {"off", "shadow", "escalate"}

(* decision.Layers: is there an invariant violation, a pack error, a pack  *)
(* deny finding, a pack approval finding; did the threshold allow.         *)
Layers == [inv : BOOLEAN, packErr : BOOLEAN, packDeny : BOOLEAN,
           packApproval : BOOLEAN, threshold : BOOLEAN]

Results == [outcome : Outcomes, layer : LayerNames]

(* Mutants: the threshold, or an approval finding, is looked at before the *)
(* denying layers.                                                         *)
Decide_ApprovalFirst(l) ==
  IF l.packApproval /\ ~l.inv THEN [outcome |-> "require_approval", layer |-> "pack"]
  ELSE IF l.inv \/ l.packErr \/ l.packDeny THEN [outcome |-> "deny", layer |-> "pack"]
  ELSE IF l.threshold THEN [outcome |-> "allow", layer |-> "threshold"]
  ELSE [outcome |-> "deny", layer |-> "threshold"]

(* decision.Decide: its switch, in the order of its cases.                 *)
Decide(l) ==
  IF l.inv THEN [outcome |-> "deny", layer |-> "invariant"]
  ELSE IF l.packErr \/ l.packDeny THEN [outcome |-> "deny", layer |-> "pack"]
  ELSE IF ~l.threshold THEN [outcome |-> "deny", layer |-> "threshold"]
  ELSE IF l.packApproval THEN [outcome |-> "require_approval", layer |-> "pack"]
  ELSE [outcome |-> "allow", layer |-> "threshold"]

(* decision.Strictness *)
Strictness(outcome) ==
  IF outcome = "allow" THEN 0 ELSE IF outcome = "require_approval" THEN 1 ELSE 2

(* Mutant: a pack error does not block a human approval.                   *)
humanBlocked_NoErr(l) == l.inv \/ l.packDeny

(* humanBlocked: what a human approval cannot resolve.                     *)
humanBlocked(l) == l.inv \/ l.packErr \/ l.packDeny

(***************************************************************************)
(* The decision model.  Scores are integers in 0 .. Scale (MicroScale is   *)
(* 1_000_000 in the code; the operators take it as a parameter).           *)
(***************************************************************************)
ClampMicro(v, Scale) == IF v < 0 THEN 0 ELSE IF v > Scale THEN Scale ELSE v

(* Mutant: an override replaces the artifact threshold.                    *)
EffectiveThreshold_Replace(artifact, override, Scale) ==
  IF override >= 0 THEN override ELSE ClampMicro(artifact, Scale)

(* A workload override counts only when it is stricter (lower); a missing  *)
(* override (nil) is the value -1, which the code ignores as it does any   *)
(* negative one.                                                           *)
EffectiveThreshold(artifact, override, Scale) ==
  LET t == ClampMicro(artifact, Scale)
  IN  IF override >= 0 /\ override < t THEN override ELSE t

(* Mutant: the score with the claims is the score.                         *)
ScoreClaimSafe_Claimed(claimed, base) == claimed

(* ScoreClaimSafe: the higher of the risk with and without the claims.     *)
ScoreClaimSafe(claimed, base) == IF base > claimed THEN base ELSE claimed

(* Mutant: the model sets the outcome.                                     *)
ApplyModel_Sets(base, risk, threshold, err, mode, Scale) ==
  IF mode # "escalate" THEN base
  ELSE IF err \/ ClampMicro(risk, Scale) >= threshold
       THEN [outcome |-> "require_approval", layer |-> "model"]
       ELSE [outcome |-> "allow", layer |-> "model"]

(* decision.ApplyModel; err is a scorer error.                             *)
ApplyModel(base, risk, threshold, err, mode, Scale) ==
  IF mode # "escalate" \/ base.outcome # "allow" THEN base
  ELSE IF err \/ ClampMicro(risk, Scale) >= threshold
       THEN [outcome |-> "require_approval", layer |-> "model"]
       ELSE base

(* applyDecisionModel of the controller.  model is "none" (no artifact     *)
(* configured), "unavailable" (configured, not loaded) or "loaded"; an     *)
(* unknown mode counts as shadow, so Modes is all there is to model.       *)
(* score holds the two risks, the artifact threshold and a scorer error.   *)
applyDecisionModel(base, model, mode, score, override, Scale) ==
  IF model = "none" \/ mode = "off" THEN base
  ELSE LET err == model = "unavailable" \/ score.err
       IN  ApplyModel(base,
                      ScoreClaimSafe(score.claimed, score.base),
                      EffectiveThreshold(score.threshold, override, Scale),
                      err, mode, Scale)

(* recordDecision, the failing half: with receipts required and the append *)
(* failed, INV-05 joins the findings and the layers are decided again.     *)
failClosed(l) == Decide([l EXCEPT !.inv = TRUE])

(* invariants.receipts (INV-05) as evaluated through receiptContext.       *)
receiptsInvariant(enabled, required, ready) == enabled /\ required /\ ~ready

(***************************************************************************)
(* pkg/rules/threshold.  Confidence and cluster health are percentages;    *)
(* the action type is reduced to its category, which is all the rules use  *)
(* (read-only and destructive names are disjoint lists of first words).    *)
(***************************************************************************)
Categories == {"READONLY", "DESTRUCTIVE", "MODIFICATION"}

(* Mutant: the boundaries themselves are left out.                         *)
assessConfidence_Above(c) == IF c > 95 THEN "HIGH" ELSE IF c > 80 THEN "MEDIUM" ELSE "LOW"

assessConfidence(c) == IF c >= 95 THEN "HIGH" ELSE IF c >= 80 THEN "MEDIUM" ELSE "LOW"

(* PolicyEvaluator.Evaluate: rules 5, 6, 1, 3, 4, 2, default, in order.    *)
Evaluate(cat, c, h) ==
  IF cat = "READONLY" THEN TRUE
  ELSE IF c < 90 /\ h < 40 THEN FALSE
  ELSE IF c >= 95 /\ cat # "DESTRUCTIVE" /\ h >= 50 THEN TRUE
  ELSE IF cat = "DESTRUCTIVE" /\ c < 99 THEN FALSE
  ELSE IF h < 50 THEN FALSE
  ELSE IF c < 95 THEN FALSE
  ELSE c >= 80 /\ h >= 50

EvaluateStrict(cat, c, h) ==
  Evaluate(cat, c, h) /\ (assessConfidence(c) = "HIGH" \/ cat = "READONLY")

(* Mutant: permissive mode looks at the health the wrong way round.        *)
EvaluatePermissive_Flipped(cat, c, h) ==
  Evaluate(cat, c, h) \/ (assessConfidence(c) = "MEDIUM" /\ h <= 50)

EvaluatePermissive(cat, c, h) ==
  Evaluate(cat, c, h) \/ (assessConfidence(c) = "MEDIUM" /\ h >= 50)

(* evaluateThreshold: permissive only when spec.opaPolicy says so; an      *)
(* unset opaPolicy is evaluated as strict.                                 *)
evaluateThreshold(mode, cat, c, h) ==
  IF mode = "permissive" THEN EvaluatePermissive(cat, c, h) ELSE EvaluateStrict(cat, c, h)
=============================================================================
