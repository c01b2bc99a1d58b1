----------------------------- MODULE AgentCards -----------------------------
(***************************************************************************)
(* The AgentCard controller: a reconcile reads the informer's copy of the  *)
(* card, probes the agent's health endpoint and writes the status.  The    *)
(* agent, the spec and the stored card move on between those steps.        *)
(***************************************************************************)
EXTENDS Naturals, FiniteSets

CONSTANTS
  Skills,          \* skill names
  MaxCardEvents    \* bound: spec edits, health changes, crashes

ASSUME CardAssumption == MaxCardEvents \in Nat

VARIABLES
  card,        \* the stored AgentCard
  cardCache,   \* the informer's copy
  cardPC, cardWork,
  currentCards, \* which of the two copies have the stored resource version
  agentUp,     \* the agent answers its health endpoint
  cardEvents

cardVars == <<card, cardCache, cardPC, cardWork, currentCards, agentUp, cardEvents>>

(* ready is the status of condition Ready; offered are the skills the      *)
(* status reports as available.                                            *)
NewCard == [skills |-> Skills, phase |-> "", ready |-> "", offered |-> {}]

CardInit ==
  /\ card = NewCard /\ cardCache = NewCard /\ cardWork = NewCard
  /\ cardPC = "idle" /\ currentCards = {"cache"}
  /\ agentUp = FALSE /\ cardEvents = 0

-----------------------------------------------------------------------------
(* Reconcile.                                                              *)

StartCard ==
  /\ cardPC = "idle" /\ cardPC' = "probe"
  /\ cardWork' = cardCache
  /\ currentCards' = IF "cache" \in currentCards THEN {"cache", "work"} ELSE {}
  /\ UNCHANGED <<card, cardCache, agentUp, cardEvents>>

(* Mutant: a condition that exists is never replaced.                      *)
setCondition_Appends(c, status) ==
  IF c.ready = "" THEN [c EXCEPT !.ready = status] ELSE c

(* One Ready condition: appended first, replaced when its status changes.  *)
setCondition(c, status) == [c EXCEPT !.ready = status]

degraded(phase) ==
  CASE phase = "Available" -> "Degraded" [] phase = "" -> "Unavailable" [] OTHER -> phase

(* The status the probe's answer leads to.                                 *)
probed(c, healthy) ==
  IF healthy
    THEN setCondition([c EXCEPT !.phase = "Available", !.offered = c.skills], "True")
    ELSE setCondition([c EXCEPT !.phase = degraded(@)], "False")

(* probeHealth: an error, a timeout and a status outside 2xx are all       *)
(* unhealthy; a healthy agent may also answer too late.                    *)
probeHealth ==
  /\ cardPC = "probe" /\ cardPC' = "persist"
  /\ \/ cardWork' = probed(cardWork, agentUp) /\ cardEvents' = cardEvents
     \/ /\ agentUp /\ cardEvents < MaxCardEvents /\ cardEvents' = cardEvents + 1
        /\ cardWork' = probed(cardWork, FALSE)
  /\ UNCHANGED <<card, cardCache, currentCards, agentUp>>

(* Status().Update, refused for an old copy.  A healthy status is always a *)
(* new version, by its heartbeat; one that changes nothing is not.         *)
PersistCard ==
  /\ cardPC = "persist" /\ cardPC' = "idle" /\ cardWork' = NewCard
  /\ \/ /\ "work" \in currentCards /\ card' = cardWork
        /\ currentCards' = IF cardWork = card /\ cardWork.ready # "True"
                             THEN currentCards \ {"work"} ELSE {}
     \/ "work" \notin currentCards /\ UNCHANGED <<card, currentCards>>
  /\ UNCHANGED <<cardCache, agentUp, cardEvents>>

SyncCardCache ==
  /\ "cache" \notin currentCards /\ currentCards' = currentCards \cup {"cache"}
  /\ cardCache' = card
  /\ UNCHANGED <<card, cardPC, cardWork, agentUp, cardEvents>>

-----------------------------------------------------------------------------
(* The agent, its owner, and the operator's crashes.                       *)

CardEvent == cardEvents < MaxCardEvents /\ cardEvents' = cardEvents + 1

AgentFlips ==
  /\ CardEvent /\ agentUp' = ~agentUp
  /\ UNCHANGED <<card, cardCache, cardPC, cardWork, currentCards>>

EditSkills ==
  /\ CardEvent
  /\ \E ss \in SUBSET Skills \ {{}, card.skills} : card' = [card EXCEPT !.skills = ss]
  /\ currentCards' = {}
  /\ UNCHANGED <<cardCache, cardPC, cardWork, agentUp>>

CardCrash ==
  /\ cardPC # "idle" /\ CardEvent
  /\ cardPC' = "idle" /\ cardWork' = NewCard
  /\ UNCHANGED <<card, cardCache, currentCards, agentUp>>

CardReconcile == StartCard \/ probeHealth \/ PersistCard

CardNext == CardReconcile \/ SyncCardCache \/ AgentFlips \/ EditSkills \/ CardCrash

(* The card is reconciled every 30 seconds and after an error, and the     *)
(* informer catches up.                                                    *)
CardFairness == WF_cardVars(CardReconcile) /\ WF_cardVars(SyncCardCache)

-----------------------------------------------------------------------------
(* Once the agent's health stops changing, the stored card comes to say    *)
(* what it is, whatever probes, edits and crashes overlapped before: Ready *)
(* and Available with every skill offered exactly when the agent answers.  *)
CardConverges ==
  <>[](/\ (card.ready = "True") <=> agentUp
       /\ (card.phase = "Available") <=> agentUp
       /\ agentUp => card.offered = card.skills)
=============================================================================
