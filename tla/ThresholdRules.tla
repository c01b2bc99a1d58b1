---------------------------- MODULE ThresholdRules ----------------------------
(***************************************************************************)
(* The threshold evaluator over every confidence and cluster health, in    *)
(* percent, as the claims an agent may send one after the other for the    *)
(* same action, beside the pipeline it is one layer of.                    *)
(***************************************************************************)
EXTENDS DecisionPipeline

VARIABLES opaPolicy,    \* spec.opaPolicy; unset is evaluated as strict
          cat,          \* category of the action
          conf, health  \* the claims

ruleVars == <<opaPolicy, cat, conf, health>>

(* The first claim is no confidence, or just short of a medium one.        *)
RulesInit ==
  /\ opaPolicy \in {"strict", "permissive"}
  /\ cat \in Categories
  /\ conf \in {0, 79}
  /\ health = 100

(* The agent claims more confidence, or reports worse health.              *)
MoreConfident == conf < 100 /\ conf' = conf + 1 /\ UNCHANGED <<opaPolicy, cat, health>>
LessHealthy == health > 0 /\ health' = health - 1 /\ UNCHANGED <<opaPolicy, cat, conf>>

RulesNext == MoreConfident \/ LessHealthy

RulesSpec == RulesInit /\ [][RulesNext]_ruleVars

allowed == evaluateThreshold(opaPolicy, cat, conf, health)

(* Worse health never turns a refusal into an allow, under either policy   *)
(* and through every rule.                                                 *)
HealthOnlyTightens == [][(LessHealthy /\ ~allowed) => ~allowed']_ruleVars

(* The confidences that allow an action on a healthy cluster.  What        *)
(* permissive mode lets through for medium confidence alone reaches        *)
(* destructive actions too, up to where confidence is high.                *)
admitted ==
  CASE cat = "READONLY" -> 0 .. 100
    [] cat = "MODIFICATION" /\ opaPolicy = "strict" -> 95 .. 100
    [] cat = "MODIFICATION" /\ opaPolicy = "permissive" -> 80 .. 100
    [] cat = "DESTRUCTIVE" /\ opaPolicy = "strict" -> 99 .. 100
    [] cat = "DESTRUCTIVE" /\ opaPolicy = "permissive" -> 80 .. 94 \cup 99 .. 100

asAdmitted == allowed <=> conf \in admitted /\ (cat = "READONLY" \/ health >= 50)

(* The seven rules and two modes, evaluated in their order, meet exactly   *)
(* at the boundaries 0.80, 0.95 and 0.99 and at a health of 50: before and *)
(* after every change of a claim.                                          *)
BoundariesMeet == [][asAdmitted /\ asAdmitted']_ruleVars

(* No layer loosens: a further finding never loosens what Reconcile        *)
(* decides, and worse cluster health never turns a threshold refusal into  *)
(* an allow; and the threshold rules admit no confidence but the ones      *)
(* their boundaries name.                                                  *)
LayersOnlyTighten == FindingsNeverLoosen /\ HealthOnlyTightens /\ BoundariesMeet
=============================================================================
