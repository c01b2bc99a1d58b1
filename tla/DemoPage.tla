------------------------------ MODULE DemoPage ------------------------------
(***************************************************************************)
(* handleDemo of agentctl-web: one goroutine per source sends its result   *)
(* on a channel with room for both, the handler applies results until its  *)
(* deadline and renders the page, while later polls do the same.           *)
(***************************************************************************)
EXTENDS Naturals, FiniteSets

CONSTANTS
  DemoPolls   \* requests of the page

Sources == {"runtime-pods", "workloads"}

VARIABLES
  demo   \* demo[p]: its step, sources, channel and the results applied

IdlePoll == [step |-> "idle", source |-> [s \in Sources |-> "none"], channel |-> {},
             applied |-> {}, live |-> FALSE]

DemoInit == demo = [p \in DemoPolls |-> IdlePoll]

StartDemo(p) ==
  /\ demo[p].step = "idle"
  /\ demo' = [demo EXCEPT ![p].step = "polling", ![p].source = [s \in Sources |-> "asking"]]

(* Mutant: the channel has no buffer.                                      *)
roomToSend_Unbuffered(p) == demo[p].step = "polling" /\ demo[p].channel = {}

roomToSend(p) == Cardinality(demo[p].channel) < 2

(* The source answers, or the deadline cancels its call.                   *)
SourceSends(p, s) ==
  /\ demo[p].source[s] = "asking" /\ roomToSend(p)
  /\ \E ok \in BOOLEAN :
       demo' = [demo EXCEPT ![p].source[s] = "done",
                            ![p].channel = @ \cup {[source |-> s, ok |-> ok]}]

applyDemoSourceResult(p) ==
  /\ demo[p].step = "polling"
  /\ \E m \in demo[p].channel :
       demo' = [demo EXCEPT ![p].channel = @ \ {m},
                            ![p].applied = IF m.ok THEN @ \cup {m.source} ELSE @]

(* Both results are in, or the deadline passed.                            *)
RenderDemo(p) ==
  /\ demo[p].step = "polling"
  /\ demo' = [demo EXCEPT ![p].step = "rendered", ![p].live = demo[p].applied # {}]

DemoNext ==
  \E p \in DemoPolls :
    StartDemo(p) \/ applyDemoSourceResult(p) \/ RenderDemo(p) \/ \E s \in Sources : SourceSends(p, s)

(* A source call ends with its result or with the deadline, and the        *)
(* handler's select does not wait past it.                                 *)
DemoFairness ==
  \A p \in DemoPolls : WF_demo(RenderDemo(p)) /\ \A s \in Sources : WF_demo(SourceSends(p, s))

-----------------------------------------------------------------------------
(* Every source goroutine of a page ends, also when the page was rendered  *)
(* without its result.                                                     *)
DemoSourcesEnd ==
  \A p \in DemoPolls, s \in Sources :
    (demo[p].source[s] = "asking") ~> (demo[p].source[s] = "done")
=============================================================================
