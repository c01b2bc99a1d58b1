-------------------------- MODULE DecisionPipeline --------------------------
(***************************************************************************)
(* One action's way through the layers, as what may still change about it  *)
(* while it is decided: a layer adds a finding, the threshold refuses, the *)
(* agent sends another claim, the workload sets another override of the    *)
(* model threshold.  The outcome is what Reconcile computes from them.     *)
(***************************************************************************)
EXTENDS Decision

CONSTANT Scale   \* MicroScale, 1_000_000 in the code

ASSUME ScaleAssumption == Scale \in Nat \ {0}

VARIABLES layers,    \* the findings
          model,     \* is the model configured and loaded
          mode,      \* spec.decisionModel.mode
          score,     \* risk with the claims, without them, artifact threshold, error
          override   \* spec.decisionModel.thresholdMicro, -1 when unset

vars == <<layers, model, mode, score, override>>

Scores == [claimed : 0 .. Scale, base : 0 .. Scale, threshold : 0 .. Scale, err : BOOLEAN]

Init ==
  /\ layers = [inv |-> FALSE, packErr |-> FALSE, packDeny |-> FALSE,
               packApproval |-> FALSE, threshold |-> TRUE]
  /\ model \in {"none", "unavailable", "loaded"}
  /\ mode \in Modes
  /\ score \in Scores
  /\ override = -1

(* A layer finds something.                                                *)
Finding ==
  /\ \E f \in {"inv", "packErr", "packDeny", "packApproval"} :
       layers' = [layers EXCEPT ![f] = TRUE]
  /\ UNCHANGED <<model, mode, score, override>>

ThresholdRefuses ==
  /\ layers' = [layers EXCEPT !.threshold = FALSE]
  /\ UNCHANGED <<model, mode, score, override>>

(* The agent claims another confidence or cluster health: any risk may     *)
(* come out of the scorer for the claims as sent.                          *)
Claim ==
  /\ \E c \in 0 .. Scale : score' = [score EXCEPT !.claimed = c]
  /\ UNCHANGED <<layers, model, mode, override>>

Override ==
  /\ \E t \in -1 .. Scale : override' = t
  /\ UNCHANGED <<layers, model, mode, score>>

Next == Finding \/ ThresholdRefuses \/ Claim \/ Override

Spec == Init /\ [][Next]_vars

(* Decide, then the model.                                                 *)
final(l, s, o) == applyDecisionModel(Decide(l), model, mode, s, o, Scale)

-----------------------------------------------------------------------------
TypeOK ==
  /\ layers \in Layers
  /\ model \in {"none", "unavailable", "loaded"}
  /\ mode \in Modes
  /\ score \in Scores
  /\ override \in -1 .. Scale

(* "The strictest outcome wins, so no layer can loosen another": a further *)
(* finding, or a threshold refusal, never loosens what Reconcile decides.  *)
FindingsNeverLoosen ==
  [][(score' = score /\ override' = override) =>
       Strictness(final(layers, score, override)'.outcome) >= Strictness(final(layers, score, override).outcome)]_vars

(* "It never loosens": whatever the score, its error and the mode, the     *)
(* model leaves the outcome alone or turns allow into require_approval.    *)
ModelEscalatesOnly ==
  LET base == Decide(layers)
      r == final(layers, score, override)
  IN  r = base \/ (base.outcome = "allow" /\ r.outcome = "require_approval")

(* "A claim can raise risk. It can never lower risk below the baseline":   *)
(* the outcome is at least as strict as with the claims removed.           *)
ClaimsNeverLoosen ==
  Strictness(final(layers, score, override).outcome)
    >= Strictness(final(layers, [score EXCEPT !.claimed = score.base], override).outcome)

(* A looser override is ignored: the outcome is at least as strict as      *)
(* under the artifact's own threshold.                                     *)
OverrideNeverLoosens ==
  Strictness(final(layers, score, override).outcome)
    >= Strictness(final(layers, score, -1).outcome)

(* What a human approval may execute is what no invariant and no pack      *)
(* denied: the decision it lifts is a threshold deny, a pack approval or a *)
(* model escalation.                                                       *)
HumanScope ==
  LET base == Decide(layers)
  IN  ~humanBlocked(layers)
        <=> (base.layer = "threshold" \/ base = [outcome |-> "require_approval", layer |-> "pack"])

(* Neither the model, nor the agent's claims, nor the workload's override  *)
(* loosens a decision, and a human resolves no denial.                     *)
DecisionIsSound ==
  ModelEscalatesOnly /\ ClaimsNeverLoosen /\ OverrideNeverLoosens /\ HumanScope
=============================================================================
