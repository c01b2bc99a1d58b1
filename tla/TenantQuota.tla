---------------------------- MODULE TenantQuota ----------------------------
(***************************************************************************)
(* The tenant resolver and the quota manager of pkg/multitenancy, and the  *)
(* quota gate of the AgentWorkload reconcile that consults both.  The two  *)
(* keep their own maps of tenants, filled by separate calls.               *)
(*                                                                         *)
(* Days are absolute; the code compares only the day of the year.          *)
(***************************************************************************)
EXTENDS Naturals

CONSTANTS
  Tenants,       \* tenant names
  QuotaPerDay,
  CostBudget,
  EstCost,       \* the estimate every reconcile is charged ($10)
  YearLength,    \* days of a year
  MaxDay         \* bound: days

ASSUME QuotaAssumption ==
  /\ QuotaPerDay \in Nat \ {0} /\ CostBudget \in Nat /\ EstCost \in Nat
  /\ YearLength \in Nat \ {0} /\ MaxDay \in Nat

VARIABLES
  registered,  \* Resolver.tenants: "absent", "active" or "inactive"
  trackers,    \* QuotaManager.tenants
  today,
  verdict,     \* how the quota gate ended, when it was the last step
  usedToday    \* history: workloads admitted today since the last admin reset

quotaVars == <<registered, trackers, today, verdict, usedToday>>

Untracked == [tracked |-> FALSE, used |-> 0, cost |-> 0, lastReset |-> 0]

NoVerdict == [tenant |-> "none", result |-> "none"]

QuotaInit ==
  /\ registered = [t \in Tenants |-> "absent"]
  /\ trackers = [t \in Tenants |-> Untracked]
  /\ today = 0 /\ verdict = NoVerdict
  /\ usedToday = [t \in Tenants |-> 0]

-----------------------------------------------------------------------------
(* Administration.                                                         *)

(* RegisterTenant with a complete, active TenantContext; it replaces one   *)
(* that was deactivated.                                                   *)
RegisterTenant(t) ==
  /\ registered' = [registered EXCEPT ![t] = "active"]
  /\ verdict' = NoVerdict
  /\ UNCHANGED <<trackers, today, usedToday>>

(* DeactivateTenant fails for a tenant GetTenant does not return.          *)
DeactivateTenant(t) ==
  /\ registered[t] = "active"
  /\ registered' = [registered EXCEPT ![t] = "inactive"]
  /\ verdict' = NoVerdict
  /\ UNCHANGED <<trackers, today, usedToday>>

freshTracker == [tracked |-> TRUE, used |-> 0, cost |-> 0, lastReset |-> today]

(* AddTenant replaces the tracker of a tenant that already has one.        *)
AddTenant(t) ==
  /\ trackers' = [trackers EXCEPT ![t] = freshTracker]
  /\ usedToday' = [usedToday EXCEPT ![t] = 0]
  /\ verdict' = NoVerdict
  /\ UNCHANGED <<registered, today>>

(* Reset, the admin operation, also forgives the cost.                     *)
Reset(t) ==
  /\ trackers[t].tracked
  /\ trackers' = [trackers EXCEPT ![t] = freshTracker]
  /\ usedToday' = [usedToday EXCEPT ![t] = 0]
  /\ verdict' = NoVerdict
  /\ UNCHANGED <<registered, today>>

-----------------------------------------------------------------------------
(* The quota gate.                                                         *)

(* Mutant: the reset forgets to move lastResetDate.                        *)
maybeReset_SameDate(tr) ==
  IF today % YearLength # tr.lastReset % YearLength THEN [tr EXCEPT !.used = 0] ELSE tr

(* Mutant: the day of the month is compared, over months of two days.      *)
maybeReset_MonthDay(tr) ==
  IF today % 2 # tr.lastReset % 2 THEN [tr EXCEPT !.used = 0, !.lastReset = today] ELSE tr

maybeReset(tr) ==
  IF today % YearLength # tr.lastReset % YearLength
    THEN [tr EXCEPT !.used = 0, !.lastReset = today] ELSE tr

(* ExtractFromNamespace of an agentic-customer- namespace: an unregistered *)
(* or inactive tenant is an error.                                         *)
ExtractFromNamespace(t) == registered[t] = "active"

(* CheckAndConsume of a reset tracker.                                     *)
refusal(tr) ==
  CASE tr.used >= QuotaPerDay -> "quota"
    [] tr.used < QuotaPerDay /\ tr.cost + EstCost > CostBudget -> "budget"
    [] OTHER -> "none"

(* The gate of one reconcile.  It is skipped when the resolver returns an  *)
(* error.  A tenant the quota manager does not know is dereferenced by     *)
(* maybeReset before the lookup: the reconcile panics.                     *)
QuotaGate(t) ==
  \/ /\ ~ExtractFromNamespace(t)
     /\ verdict' = [tenant |-> t, result |-> "unmetered"]
     /\ UNCHANGED <<registered, trackers, today, usedToday>>
  \/ /\ ExtractFromNamespace(t) /\ ~trackers[t].tracked
     /\ verdict' = [tenant |-> t, result |-> "panic"]
     /\ UNCHANGED <<registered, trackers, today, usedToday>>
  \/ /\ ExtractFromNamespace(t) /\ trackers[t].tracked
     /\ LET tr == maybeReset(trackers[t])
            r == refusal(tr)
        IN  /\ trackers' = [trackers EXCEPT ![t] =
                 IF r = "none" THEN [tr EXCEPT !.used = @ + 1, !.cost = @ + EstCost] ELSE tr]
            /\ verdict' = [tenant |-> t, result |-> IF r = "none" THEN "admitted" ELSE r]
            /\ usedToday' = IF r = "none" THEN [usedToday EXCEPT ![t] = @ + 1] ELSE usedToday
     /\ UNCHANGED <<registered, today>>

(* Days pass; an idle tenant may be seen again after any number of them.   *)
Midnight ==
  /\ today < MaxDay
  /\ today' = today + 1
  /\ usedToday' = [t \in Tenants |-> 0]
  /\ verdict' = NoVerdict
  /\ UNCHANGED <<registered, trackers>>

QuotaNext ==
  \/ \E t \in Tenants :
       RegisterTenant(t) \/ DeactivateTenant(t) \/ AddTenant(t) \/ Reset(t) \/ QuotaGate(t)
  \/ Midnight

-----------------------------------------------------------------------------
(* A tenant is never admitted more than its quota in one calendar day      *)
(* without an administrator's reset, wherever the days fall in the year.   *)
QuotaHeld == \A t \in Tenants : usedToday[t] <= QuotaPerDay

(* A workload is refused for its quota only when that was used up today.   *)
(* The one exception is the comparison of days of the year: a tenant last  *)
(* reset on the same day of an earlier year is not reset.                  *)
QuotaRefusalEarned ==
  [][\A t \in Tenants :
       (verdict' = [tenant |-> t, result |-> "quota"])
         => \/ usedToday[t] >= QuotaPerDay
            \/ /\ today > trackers[t].lastReset
               /\ (today - trackers[t].lastReset) % YearLength = 0]_quotaVars

(* The daily quota is neither exceeded nor refused early.                  *)
QuotaIsExact == []QuotaHeld /\ QuotaRefusalEarned
=============================================================================
