--------------------------- MODULE CircuitBreaker ---------------------------
(***************************************************************************)
(* The circuit breaker of pkg/resilience, shared by concurrent callers: a  *)
(* caller asks Allow, calls the provider and records the result, which may *)
(* arrive long after the breaker has changed state.                        *)
(*                                                                         *)
(* Time is counted in ticks since the last failure.  failures and the      *)
(* histories are counted up to the threshold they are compared with.       *)
(***************************************************************************)
EXTENDS Naturals, FiniteSetsExt

CONSTANTS
  Callers,            \* goroutines that share the breaker
  FailureThreshold,
  SuccessThreshold,
  ResetTimeout,       \* ticks an open breaker rejects calls
  MaxOutages          \* bound: outages of the provider

ASSUME BreakerAssumption ==
  /\ FailureThreshold \in Nat \ {0} /\ SuccessThreshold \in Nat \ {0}
  /\ ResetTimeout \in Nat /\ MaxOutages \in Nat

VARIABLES
  circuit,    \* CircuitBreaker: state, failures, successes
  sinceFail,  \* ticks since lastFailure
  calls,      \* calls[c]: where caller c's call is
  outage,     \* the provider is down
  outages,    \* outages so far
  streak,     \* history: successes recorded half-open since the last failure
  failRun     \* history: failures recorded since the last success

breakerVars == <<circuit, sinceFail, calls, outage, outages, streak, failRun>>

UpTo(bound, n) == Min({bound, n})

BreakerInit ==
  /\ circuit = [state |-> "closed", failures |-> 0, successes |-> 0]
  /\ sinceFail = ResetTimeout + 1
  /\ calls = [c \in Callers |-> "idle"]
  /\ outage = FALSE /\ outages = 0
  /\ streak = 0 /\ failRun = 0

-----------------------------------------------------------------------------
(* The breaker.                                                            *)

(* Mutant: a half-open period keeps the successes of the one before.       *)
halfOpen_KeepsSuccesses(b) == [b EXCEPT !.state = "half-open"]

halfOpen(b) == [b EXCEPT !.state = "half-open", !.successes = 0]

(* Mutant: a half-open breaker admits the one probe that opened the test.  *)
Allow_OneProbe(c) ==
  /\ calls[c] = "idle"
  /\ \/ circuit.state = "closed" /\ UNCHANGED circuit
     \/ circuit.state = "open" /\ sinceFail > ResetTimeout /\ circuit' = halfOpen(circuit)
  /\ calls' = [calls EXCEPT ![c] = "calling"]
  /\ UNCHANGED <<sinceFail, outage, outages, streak, failRun>>

(* Allow: an open breaker past its timeout goes half-open and lets the     *)
(* call through; a half-open one lets every caller through.                *)
Allow(c) ==
  /\ calls[c] = "idle"
  /\ \/ /\ circuit.state # "open"
        /\ UNCHANGED circuit
     \/ /\ circuit.state = "open" /\ sinceFail > ResetTimeout
        /\ circuit' = halfOpen(circuit)
  /\ calls' = [calls EXCEPT ![c] = "calling"]
  /\ UNCHANGED <<sinceFail, outage, outages, streak, failRun>>

RecordSuccess(c) ==
  /\ calls[c] = "succeeded"
  /\ circuit' =
       CASE circuit.state = "half-open" ->
              IF circuit.successes + 1 >= SuccessThreshold
                THEN [state |-> "closed", failures |-> 0, successes |-> 0]
                ELSE [circuit EXCEPT !.successes = @ + 1]
         [] circuit.state = "closed" -> [circuit EXCEPT !.failures = 0]
         [] OTHER -> circuit
  /\ calls' = [calls EXCEPT ![c] = "idle"]
  /\ streak' = IF circuit.state = "half-open" THEN UpTo(SuccessThreshold, streak + 1) ELSE streak
  /\ failRun' = 0
  /\ UNCHANGED <<sinceFail, outage, outages>>

afterFailure(b) ==
  IF b.state = "half-open" \/ (b.state = "closed" /\ b.failures >= FailureThreshold)
    THEN "open" ELSE b.state

RecordFailure(c) ==
  /\ calls[c] = "failed"
  /\ LET b == [circuit EXCEPT !.failures = UpTo(FailureThreshold, @ + 1)]
     IN  circuit' = [b EXCEPT !.state = afterFailure(b)]
  /\ sinceFail' = 0
  /\ calls' = [calls EXCEPT ![c] = "idle"]
  /\ streak' = 0 /\ failRun' = UpTo(FailureThreshold, failRun + 1)
  /\ UNCHANGED <<outage, outages>>

-----------------------------------------------------------------------------
(* The provider, and time.                                                 *)

Answer(c) ==
  /\ calls[c] = "calling"
  /\ calls' = [calls EXCEPT ![c] = IF outage THEN "failed" ELSE "succeeded"]
  /\ UNCHANGED <<circuit, sinceFail, outage, outages, streak, failRun>>

Outage ==
  /\ ~outage /\ outages < MaxOutages
  /\ outage' = TRUE /\ outages' = outages + 1
  /\ UNCHANGED <<circuit, sinceFail, calls, streak, failRun>>

Restored ==
  /\ outage /\ outage' = FALSE
  /\ UNCHANGED <<circuit, sinceFail, calls, outages, streak, failRun>>

Tick ==
  /\ sinceFail <= ResetTimeout
  /\ sinceFail' = sinceFail + 1
  /\ UNCHANGED <<circuit, calls, outage, outages, streak, failRun>>

CallerStep(c) == Allow(c) \/ Answer(c) \/ RecordSuccess(c) \/ RecordFailure(c)

BreakerNext == (\E c \in Callers : CallerStep(c)) \/ Outage \/ Restored \/ Tick

(* Callers keep calling, an outage ends, and time passes.                  *)
BreakerFairness ==
  /\ \A c \in Callers : WF_breakerVars(CallerStep(c))
  /\ WF_breakerVars(Restored) /\ WF_breakerVars(Tick)

-----------------------------------------------------------------------------
(* The breaker changes state only for what callers recorded, however late  *)
(* and in whatever order their results arrive: it closes only after        *)
(* SuccessThreshold successes of the half-open test with no failure in     *)
(* between ("consecutive successes to close from half-open"), and it       *)
(* leaves closed only after FailureThreshold failures in a row.            *)
BreakerMovesAreEarned ==
  [][/\ (circuit.state # "closed" /\ circuit'.state = "closed") => streak' >= SuccessThreshold
     /\ (circuit.state = "closed" /\ circuit'.state # "closed") => failRun' >= FailureThreshold
    ]_breakerVars

(* Once the provider's outages are over, callers that keep calling close   *)
(* the breaker: no interleaving of late results leaves it rejecting.       *)
BreakerRecovers == (circuit.state # "closed") ~> (circuit.state = "closed")
=============================================================================
