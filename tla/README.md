# A TLA+ verification project for agentic-operator-core

This directory models the control logic of agentic-operator-core, a Kubernetes
operator that lets AI agents act on a cluster under policy: an agent proposes an
action, layers of rules decide it, a signed receipt records the decision, a human
may have to approve it, and only then is it executed. The modules are checked with
TLC on small instances and, where marked, proved with TLAPS for every instance.

File names under `src/` below are relative to the repository root.

## 1. Inventory

| Component | State it keeps | Operations | Interacts with | What is hard |
|---|---|---|---|---|
| AgentWorkload controller, direct path (`internal/controller/agentworkload_controller.go`, `reservation.go`, `receipts.go`) | the AgentWorkload's status; nothing of its own | reconcile: gates, propose, decide, receipt, reserve, execute, commit | API server (optimistic writes), informer cache, MCP server, receipt writer | stale cache, crash between call and write, two operators |
| Human approval path (`approvals.go`) | pending action, its state, consumed ids, conditions | hold, record intent, human receipt, mark executing, run, finish | webhook stamps, direct path, receipt writer | at most one execution, replays, lost receipts |
| Approval stamps and admission (`pkg/approval`, `api/v1alpha1/*_admission.go`, `*_webhook.go`) | annotations and a key | Admit, stamp, Read, freeze | clients, controller | replaced or forged decisions, edits during review |
| `agentctl` decisions (`pkg/agentctl/decide.go`) | what it last read | read, conditional patch | webhook | time of check to time of use |
| Decision layers and decision model (`pkg/decision`, `internal/controller/decision_model.go`) | none | Decide, ApplyModel, thresholds | direct and approval paths | an input that loosens an outcome |
| Threshold evaluator (`pkg/rules/threshold`) | none | Evaluate, strict and permissive | decision layers | boundaries, order of the rules |
| Receipt chain (`pkg/receipts/local.go`) | two append-only files, the chain's head | open and repair, Append | receipt-writer process | power loss between write and fsync, torn lines |
| Remote receipt writer (`pkg/receipts/remote.go`, `cmd/receipt-writer`) | known head | sync head, POST, verify | receipt chain over HTTP | lost and late replies, shared writer |
| Runtime reconcile (`reconcileViaRuntime`, `pkg/runtime`, `pkg/argo`) | execution reference, finalizer | execute, poll, clean up | Argo, pods, kagent | create and reference are two steps |
| Model routing (`routeAndCallModel`, `pkg/llm`, `pkg/finops`, `pkg/resilience/retry.go`) | operation id, routed generation, usage in memory | persist intent, call with retry, record usage, annotate, mark | LLM providers | lost answers, edits during the call |
| Tenant controller (`tenant_controller.go`) | tenant status with one flag per stage, namespace objects | provision namespace, secrets, RBAC, quota; persist status | API server | partial provisioning, flags that outlive the spec |
| AgentCard controller (`agentcard_controller.go`) | card status | probe, persist | agents | health that changed after the probe |
| Multi-tenancy and autoscaling (`pkg/multitenancy`, `pkg/autoscaling`) | daily usage, SLA counters, cooldown | check and consume, reset, record outcome, scale | gates of the controller | reset by day of year, rates at the first outcomes |
| Resilience (`pkg/resilience`) | breaker state | allow, record, half-open test | concurrent callers | late results |
| Audit log (`pkg/audit`, `cmd/audit-verify`) | hash chain, checkpoints | append, resume, publish, verify | backend | lost answers, two recorders, rotated keys |
| Approval dataset, records and exports (`pkg/dataset`, `pkg/receipts/record.go`, `export.go`) | approvals.jsonl beside the chain | post, validate, store, export, verify | receipt-writer, `agentctl` | duplicates, torn lines, exports that catch a growing file |
| MCP client and server (`pkg/mcp`) | none | call with retries; create, delete, status, cost | API server, LiteLLM | retries of what was done |
| Decision view and web dashboard (`pkg/decisionview`, `cmd/agentctl-web`) | cached view, cookies | load, render, login, decide | receipt source, API server | stale pages, identity of a request |
| Sandbox admission and status (`internal/admission`, `sandbox_status.go`) | cached readiness, a condition | inject, observe | API server | overlapping checks, pods that are gone |
| Network policy probe (`internal/netpolicy`) | probe namespace and pods | detect, probe, classify, clean up | API server, CNI | failures that look like enforcement |
| Snapshots (`tools/anf-snapshot`) | the output file | list, project, replace | API server | power loss, lists at different times |
| Rule engine, packs, invariants, features, learned model, evaluation | none | evaluate | decision layers | numeric and textual, no control |
| CLI wiring, charts, observability, Python agents | configuration and output | rendering | all | mostly I/O |

`PROJECT.json` lists every component with its sources and status, and under
`hazards` the places where this code is hard to test, each at its line.

## 2. Plan

Order of the modules, most important behaviour first.

1. `Decision`, `ApprovalProtocol`: pure operators the controllers share. *Done.*
2. `WorkloadController` composes both: the direct and the approval path. *Done.*
3. `ReceiptChain` (abstract), `LocalWriter` (implements it), `RemoteWriter`
   (composes clients with a `LocalWriter`). *Done.*
4. `RuntimeExecution`, `ModelRouting`: the other two branches of the same
   reconcile. *Done.*
5. `TenantProvisioning`, `AgentCards`, `CircuitBreaker`, `DemoPage`: components
   that must make progress. *Done*; `MCControllers` runs them with `LocalWriter` and
   `ModelRouting`.
6. `TenantQuota`, `SLAScaling`, `AuditLedger`, `ReceiptRecords` with
   `ApprovalDataset` and `DecisionView`, `McpTools`, `CostReport`, `WebDashboard`,
   `SandboxAdmission`, `SandboxStatus`, `NetworkProbe`, `Snapshot`: components whose
   answers others rely on. *Done*; `MCServices` runs them with `DecisionPipeline` and
   `ThresholdRules`.
7. Proofs: `DecisionProofs`, `WorkloadControllerProofs`, `AuthorisationProofs` (which
   extends the former), `LocalWriterProofs`, `RemoteWriterProofs` (which uses the former
   for the writer behind the transport), `RuntimeExecutionProofs`, `ResourceProofs`
   (quotas, service levels, cost, routing, breaker, tenants) and `ServiceProofs` (the
   other services). *Every invariant and action property of a passing run and the
   refinement of `ReceiptChain` are proved.*
8. Next to model: the A2A task store of the Python agents, Argo suspension and resume.
9. Next to prove: what the components promise each other, that is the receipts of
   `WorkloadController` and the examples of `ApprovalDataset` as steps of
   `ReceiptChain`, and the safety half of the liveness properties (no step undoes what
   they wait for).

## 3. The modules and the code

`PROJECT.json` (`map`) names the lines every definition stands for. Definitions
named `X_Something` are mutants: a plausible bug in place of `X`, kept next to it
to show that a property would notice. They are not part of any specification.

**Decision** and **DecisionPipeline**. `Decide`, `ApplyModel`, `EffectiveThreshold`,
`ScoreClaimSafe` and the threshold evaluator as operators over the findings of the
layers, scores on a scale `0 .. Scale` and percentages. `DecisionPipeline` is a
machine that walks through every combination of findings, model modes, scores and
overrides by adding one input at a time, so that monotonicity is a property of its
steps. **ThresholdRules** does the same for confidence and health, in percent, the
real range, and compares the rules with a table of what they admit.

**ApprovalProtocol**. `pkg/approval`: the six annotations as one record, `Admit`,
`Read`, and an ideal MAC, that is a record of the values it was computed over which
only the webhook can produce. The workload's UID is constant.

**WorkloadController**. One AgentWorkload `obj` with its resourceVersion. Every
operator `o` has an informer copy `cache[o]` that may be old, a program counter
`pc[o]`, the copy `wl[o]` its reconcile works on, and the decision `job[o]` it
carries. A write is accepted when the version it was computed from is the stored
one; a write that changes nothing keeps the version. A reconcile is split exactly
where it gives others a chance to act: at every write and at every MCP or receipt
call. `log`, `human` and `execs` are the receipts stored and the execute_action
calls made to the MCP server. The gates before the direct path (template, packs, licence, quota)
are one action, because each does the same to the phase. The hold for a pending
action whose proposal cannot be parsed is left out: the controller writes what it
reads back. The dataset example posted after an execution is `ApprovalDataset`'s,
nothing on this path depends on it.

**ReceiptChain**, **LocalWriter**. The two files as sequences of lines, the number
of lines known to be on disk, and whether a partial line follows. Each write and
each fsync of `Append` is a step, and so are the two halves of `open`. A kill leaves
the files, a power loss keeps the synced lines and any number of later ones. Hashes
are the sequence of everything they cover. `ReceiptChain` says what a caller relies
on; the run `controllers` checks that `LocalWriter` implements it.

**RemoteWriter**. Operators with the head they believe in, requests and replies in
flight (lost, or late: a request may be stored after its client gave up), and the
`LocalWriter` behind them as an instance.

**RuntimeExecution**. One workload, the operator with a lagging cache, and per
runtime (argo, pod, kagent) the phase of the execution created for the workload.
Clients may mark the workload as a template or give it policy packs at any time
(`gates`): both gates come before the stored reference, write Failed and end the
reconcile without a requeue, and the template gate even before the finalizer. The
licence and quota gates come after the reference: they keep a first execution from
starting (`LicenceGate`).
`Execute` and the write of the reference are two steps. Argo reports an existing
Workflow as an error, pod and kagent take it over; a missing execution is an error
for argo and pod, and Pending for kagent. Finished Workflows are removed by the
template's TTL, pods of a removed workload by garbage collection (same namespace),
nothing else is. A reference without a recorded runtime, as old versions wrote it,
is not modelled. `status.argoPhase` only repeats the phase of the execution and is
left out; a write that changes nothing else is a write that changes nothing.

**ModelRouting**. It begins where routing does: the template, pack, licence and quota
gates before it are outside the module, and what it says it says of workloads that pass
them. The spec's generation stands for the prompt, the operation id is
the generation it was derived from. The call may succeed, be received without an
answer, or not arrive. Usage is the process's memory, as in `MemoryCostReporter`
(`--enable-cost-tracking`); without it the reporter is a no-op and the annotation is
patched once. The annotation patch carries no resourceVersion and its answer
replaces the workload in memory; this is what the run `routing_delivery` is about.

**CircuitBreaker**. Callers ask `Allow`, call a provider that has outages, and record
a result that may be late. Time is ticks since the last failure; `streak` and
`failRun` are histories of what was recorded.

**TenantProvisioning**. The stored tenant, the informer's copy and the copy a
reconcile works on; `cluster` is the set of objects that exist. A stage creates its
objects one by one and may stop at any of them. Flags are stored only when the
reconcile ends. **AgentCards** has the same shape around one health probe.

**TenantQuota**. Resolver and quota manager keep their own maps, as in the code; the
gate of `Reconcile` asks both. Days are absolute and `YearLength` says when a day of
the year comes round again, which is all `YearDay` sees. **SLAScaling** compares rates
exactly, by cross-multiplication, and has the autoscaler act on them.

**AuditLedger**. A hash is the tuple of what it covers. Recorders resume from the
backend's head; an append may be stored and its answer lost. `exitCode` is
audit-verify's verdict on a dump, and the property presents it every dump up to the
ledger's length built from the ledger's own, edited and re-hashed entries.

**ReceiptRecords**. What a receipt binds of a decision record, the signed export and
its offline verification, shared by **ApprovalDataset** (the store behind
`POST /v1/approvals`, and exports taken in two requests) and **DecisionView** (the
loader and the view of a page, over a source with outages and cut exports).

**McpTools**. `CallTool` with its retries, and the idempotent tools of the server. One
workload name, whose uid tells two incarnations apart. Every call to the Kubernetes API
may fail, with or without having done its work, and a deleted workload that has its
finalizer stays until the controller removes it. **CostReport** is `get_workload_cost`:
the probe of `/health`, which any HTTP answer passes, then a summary that swallows
errors. LiteLLM is down (no connection), erring (a status of 300 or more, or no JSON, on
`/spend/logs`) or ok.

**WebDashboard**. Requests pass the middlewares one step at a time while tokens,
permissions and cookies change. The browser may come with cookies and pages of an earlier
run and has any number of tabs: a request carries the cookies of when it was sent and the
form of any page shown, or a token in its header. `TokenReview`, the approval and the list
of the answering page may fail, and a response with its cookies and form may be lost.
A request keeps as history the users accepted and permitted since it was sent. **DemoPage** is the page whose sources are goroutines
that send on one channel.

**SandboxAdmission**. Admission requests share the readiness cache and check outside
its lock, with two reads; time is ticks. **SandboxStatus** derives the condition from
each list of pods, the stored condition and a denial.

**NetworkProbe**. CNI detection and the active probe, call by call, with pods that
start, die or are evicted, a policy the CNI programs late, and dials that fail for
reasons of the network, with the exit code of a refused one. **Snapshot** lists five
kinds one after the other, projects, and replaces the output through a temporary file.

**MCControllers**, **MCServices**. The components of each share no variable. A run of
their composition is therefore a run of one of them beside others that may do
anything, and a property of one component holds of the composition exactly when it
holds of the component alone. Both modules use this: the initial state selects one
component (`part`), whose behaviours are all checked, and the others stay as they
were. `MCControllers` has the components with fairness and liveness, `MCServices`
those with safety properties only.

## 4. The runs

| Run | What it shows |
|---|---|
| `approval_one_operator` | One operator, lagging cache, crashes, lost replies, failed receipts, policy edits, decisions, a restored status; webhook on and off. Executions happen at most once per decision, after their receipt, under the policy stored and reviewed, on a decision stamped for that action; receipts agree. |
| `approval_two_operators` | The same execution properties with two operators at once and optional receipts. |
| `approval_resolution` | Rejection is final, a held action leaves only by being decided, and a stamped decision is always resolved, provided no earlier gate fails. |
| `rejected_with_gates` | Violation. With failing gates a rejected workload is proposed to again (finding 1). |
| `remote_writer` | Two operators, a lossy transport and a crashing writer: accepted receipts are durable and unique, no operator is stuck with a wrong head. |
| `runtime_execution` | Type edits, deletion, failed calls, crashes: a stored reference is never lost, is followed to the recorded runtime and cleaned up; deletion completes, success is reported unless a client has marked the workload as a template or given it packs, and then once that is undone. |
| `runtime_leak` | Violation. Deletion between creation and reference leaks the Workflow (finding 2). |
| `routing_delivery` | Violation. A generation is marked routed that was never sent (finding 3). |
| `controllers` | See below. |
| `services` | See below. |
| `mcp_retry` | Violation. One `CallTool` performs `execute_action` twice (finding 4). |
| `tenant_secrets` | Violation. A provider added later is never provisioned (finding 5). |

`controllers`, by component:

- `LocalWriter`: through failed writes and fsyncs, kills and power losses anywhere
  the two files stay consistent and can be opened, what `Append` returned is durable
  (`ChainIsSound`), the abstract chain is implemented (`ImplementsChain`), and the
  writer recovers (`WriterRecovers`).
- `ModelRouting`: an idempotency key is durable before it is used and stands for one
  prompt, an operation is charged once (`OperationIsSound`); routing settles
  (`WorkloadRouted`).
- `CircuitBreaker`: it closes and opens only for what was recorded, in whatever order
  (`BreakerMovesAreEarned`), and closes again after outages (`BreakerRecovers`).
- `TenantProvisioning`: a flag is stored only when its objects exist
  (`FlagMeansProvisioned`), a tenant whose secrets exist becomes and stays Active
  (`TenantSettles`).
- `AgentCards`: once health stops changing the card comes to say what it is
  (`CardConverges`). `DemoPage`: every goroutine of a page ends (`DemoSourcesEnd`).

`services`, by component:

- Decisions: the model only escalates, no claim or override loosens, a human resolves
  what a human may (`DecisionIsSound`); no finding and no worse health loosens, and the
  threshold rules meet exactly at 0.80, 0.95, 0.99 and 50 (`LayersOnlyTighten`).
- Quota and SLA: the quota is neither exceeded nor refused early, but for the same day
  of an earlier year (`QuotaIsExact`); the breach flag says whether the rate is below
  the target, and a tenant in breach keeps its replicas (`SLAIsSound`).
- Audit ledger: what recorders write verifies, and nothing else does
  (`LedgerIsSound`).
- Dataset and exports: one example per decision, kept once stored, bound to its chain
  (`DatasetIsSound`); a passed export is the whole chain (`VerdictMeansWhole`).
- MCP: a create fails only if an API call of its last attempt failed or the workload in
  its way went before the Get, and its answer names a workload that was there during the
  call and was created by one call at most (`CreateIsRetrySafe`). A cost of zero is no
  spend, an error answer of `/spend/logs`, or a connection lost since the probe; an
  outage that holds from the call on is never read as no spend (`CostAnswerIsHonest`).
- Pages: "Verified" is current within the TTL (`VerifiedIsCurrent`). A decision is made
  by a user accepted and permitted since the request was sent, with the form of a page
  the browser had been given and the cookie that came with it; a redirect or a 403
  means that nothing was decided, a 200 that it was (`DecidedByItsUser`).
- Snapshot: the file is whole, its document true (`SnapshotIsSound`).
- Sandbox: an answer rests on recent evidence (`ReadinessIsRecent`); an enforced
  condition on a list of the workload's pods made during this execution, those of an
  earlier one included (`EnforcedWasSeen`). Network probe: success means that the server
  had been reached and the test client's dial failed under the policy: refused by it,
  lost in the network, which the exit code does not tell apart, or to a server that died
  unnoticed; nothing else passes for enforcement (`EnforcingWasSeen`).

### Bounds

Bounds are named constants and limit how often something happens, never what may
happen. Two decisions are enough for one action to replace another, which is what
replays, replaced pending actions and stale decisions need; `MaxConsumed = 2` lets
the list of consumed ids overflow neither too early nor never. Two edits allow a
decision and a policy change, or a type change and its reversal. One fault per
reconcile suffices for at-most-once (the second crash of a run finds the state of
the first), and the liveness run has two. The writer has four crashes and
four appends: a crash during the repair of a crash during the repair. Two policies
and two actions are chosen so that each pair gets a different outcome. `Operators`
is one process, or two, as during a rolling update with leader election off, its
default (`cmd/main.go:106`). `Scale` matters only for the order of a score and two
thresholds. In `services` and
`controllers` two actors of each kind (callers, recorders, posters, requests, runs)
are enough for one to act between any two steps of another; a year has three days and
the run four, so that one day of the year comes round; `MaxOutcomes = 7` reaches rates
on both sides of every threshold; one retry in `services` is enough for a call to meet what it or another did before, and
`mcp_retry` has the client's default of two. The browser of the dashboard may start logged
in and with a page open, so that the three web events (requests, changes of access,
restarts) are spent on what comes between page and form: another login or logout, a
revocation, a restart, or a second tab's decision. Two sandbox events let an API error
meet a change of the cluster. A clock runs until what it ages is
out of date, and an answer given then would be wrong.

### Fairness

`workloadEventFilter` drops status-only updates, so a status write does not enqueue
the workload. Every reconcile that leaves work to do ends in an error or a
`RequeueAfter`; spec edits, annotation changes and deletions pass the filter. Hence
weak fairness of a reconcile's steps and of the informer. Nothing is assumed of
clients, of executions or of providers; failures are bounded, since no retry
outlives unending ones. In `LocalWriter` the kubelet restarts a container whose
liveness probe fails, as the chart configures it. The tenant and the card are
requeued after 30 seconds or on error; for a tenant to settle its source secrets must
be created, which is the administrator's part and stated as such. Callers of the
breaker keep calling, outages end and time passes. A source of the demo page
ends with its answer or with the page's deadline (`demoPollTimeout`). `MCControllers` states the fairness of a
component only for runs of that component. Deadlock checking is off where the
system may stop: no client has to act, and a workload that is gone stays gone.

## 5. Findings

1. `rejected_with_gates`: `docs/approvals.md:232` says "`Rejected` is terminal.
   Recreate the workload to retry." The gates before the check overwrite the phase.
2. `runtime_leak`: the finalizer exists so that the Workflow does not leak
   (`agentworkload_controller.go:67-70`). A workload deleted after `Execute` and
   before its reference is stored leaks it: the write conflicts, and the finalizer
   finds nothing to clean up. The same holds for a kagent Agent, which has no owner
   reference at all.
3. `routing_delivery`: "Provider delivery is at least once"
   (`agentworkload_controller.go:357`). The merge patch of the cost annotation
   brings the new generation into the running reconcile, which then marks it as
   routed although only the old one was sent.
4. `mcp_retry`: "It cannot execute twice" (`docs/approvals.md:154`). The controller
   makes one `CallTool` per decision (this is proved), but `CallTool` repeats the POST
   after a 5xx (`pkg/mcp/client.go:157`), whether or not the tool had run.
5. `tenant_secrets`: "SecretsProvisioned indicates if provider secrets are in place"
   (`tenant_types.go:76`). It stays set when `spec.providers` grows
   (`tenant_controller.go:102`).

Observations made while modelling, which no run is about:

- With two operators an approved action may run under a policy its reviewer did not
  see: the second operator takes the first one's Executing for a crash and consumes
  the decision, which ends the freeze. `ExecutedUnderReviewedPolicy` is therefore
  asked of a single operator only. The action still runs once.
- A tenant that is not registered or not active is not held to any quota, and
  `CheckAndConsume` of an unknown tenant dereferences nil; `GetStatus` reports
  yesterday's usage until the next call that resets.
- With the default healthy threshold of 95 percent a tenant with a target of 99
  percent is scaled down while in breach.
- A recorder whose append was stored without an answer is refused until it is
  restarted.
- An unhealthy AgentCard keeps offering the skills of its last healthy probe, and
  `healthCheck.intervalSeconds` is not read. Deleting a Tenant removes nothing.
- `LocalWriter.Export` and `exportApprovals` do not look at `broken`. The dataset does
  not fsync what it reloads, so a 409, which the client takes for stored
  (`pkg/dataset/remote.go:58`), may name an example that a power loss then removes.
- `AuditMiddleware` always logs `anonymous`: `AuthMiddleware` extends a copy of the
  request.
- The probe of `/health` is there so that an outage is not answered as zero
  (`pkg/mcp/server.go:465-470`), but it passes on any HTTP status, and a status of 300 or
  more or a body that does not decode on `/spend/logs` reads as "no cost records yet"
  (`pkg/agentctl/cost.go:32-38`). So does a connection lost after the probe. Of several
  models only the first row is reported.
- `create_workload` of a name whose workload is being deleted answers `alreadyExisted`
  with the uid of the one that is going away.
- The csrf token of the dashboard is not bound to a user: a page shown to one user
  decides as another who has logged in since in the same browser. A 400 or 500 does
  not mean that nothing was decided: the call may have taken effect before it failed,
  and so may the decision before the list that follows it.
- In permissive mode a destructive action is allowed at a confidence of 0.80 to 0.94 and
  refused at 0.95 to 0.98: medium confidence has a rule of its own, and high confidence
  falls under the rule for destructive actions, which asks for 0.99. Claiming less
  confidence loosens the outcome there, although claims "may tighten a decision but must
  never loosen one" (`pkg/rules/threshold/evaluator.go:20-21`).
- Packs added, or the template annotation set, while an execution runs make the workload
  Failed and end its polling; what the execution comes to is not reported until the mark
  is removed.
- The readiness check makes its two reads at different times. Pods of an earlier
  execution count for the sandbox condition, since they carry the same workload UID.
- The network probe "proves whether a deny-egress NetworkPolicy blocks a TCP connection"
  (`internal/netpolicy/probe.go:69-70`), but a server that died unnoticed and a dial lost
  in the network count as enforcement, since every failed dial has one exit code
  (`netprobe/runner.go:98-102`), and a policy programmed late as its absence.

## 6. Proofs

The theorems hold for every value of the constants allowed by the named assumptions of
the modules (`ScaleAssumption`, `ControllerAssumption`, `WriterAssumption`, ...): any
sets of operators, users, policies, actions, clients, tenants, requests, recorders, any
thresholds, quotas, lifetimes and bounds. The assumptions say that bounds are natural
numbers and that the values standing for "nothing" (`None`, `Redacted`, "none") are not
among the real ones; the few others are what the code validates or could not run
without (some key, some record, non-zero thresholds of the breaker). Every invariant a
passing run checks, and every action property, is stated by a theorem.

The components that `MCControllers` and `MCServices` run one at a time are proved one
at a time, from their own `Init` and `Next`: `WebSpec`, `LedgerSpec` and the like name
that specification, without fairness, which no safety proof needs.

### `DecisionProofs`

`EscalatesOnly`, `ClaimsOnlyTighten`, `OverrideOnlyTightens`, `HumanApprovalScope`,
together `DecisionSound`, and `FindingsOnlyTighten` say of every scale what the run
`services` checks of a small one. They follow from the type invariant and from two
lemmas: what `Decide` returns, case by case, and that the model keeps an outcome or turns
an allow into an approval. `LayersTighten` adds the threshold evaluator, by
`RulesMonotone`: of its rules in a row, none allows at a lower health what it refused; and
that its rules, in their order, admit exactly the confidences and healths of the table
`admitted` (`BoundariesMeet`).

### `WorkloadControllerProofs` and `AuthorisationProofs`

- `TypeCorrect`: `Spec => []TypeOK`. The type invariant is not inductive. A restored
  status reads the decision log at a consumed id, so consumed ids must be ids of the
  log; an executed action must be an action, so a pending id must come with one and
  a reconcile under way must carry one. `TypeInv` adds this (`Known`): every id that
  the object, an informer copy or a reconcile's copy names is that of a *held*
  decision, a job on the direct path that of an *allowed* one.
- `AtMostOnce`: `Spec => []AtMostOncePerDecision`. `OnceInv` adds, in the order of
  the argument:
  - `Versions`: a copy with the stored resourceVersion is the stored object, so that
    a write that is accepted was computed from what is stored;
  - `Recorded`: between intent and execution the reconcile's copy is Recording, and
    not consumed;
  - `Bounded`, `NewPending`: ids in use are ids of the log, and an action about to be
    stored as pending is known to no one but its reconcile;
  - `OpenIsUnperformed`: a pending action that is neither consumed nor Executing was
    not performed, and no one is about to perform it. This is what `MarkExecuting`
    relies on, and what the state Executing, stored before the call, buys;
  - `Exclusive`: two reconciles about to execute have different ids, not performed.

  Direct and approved executions never share an id, since one is allowed and the
  other held. A restored status opens nothing, since its id is consumed. The bound of
  `consumed` (`maxConsumedApprovalIDs`) may drop an old id: the proof shows that it
  does no harm as long as statuses are restored from the ids still listed, which is
  what `RestorePending` models. A backup older than that is outside the theorem.
- `Authorised`, `ReceiptsFirst`, `ReceiptsAgree` (`AuthorisationProofs`): what an
  execution rests on. `AuthInv` adds to the above
  - `StampInv`: every copy of the workload, the informers' and the reconciles'
    included, carries either no readable stamp or one that the webhook made for a
    decision a user sent (`Sound`), and what `agentctl` read at the stored version is
    what is stored (`Views`): the conditional patch lands on what the human saw;
  - `EntitledInv`: a reconcile past its checks carries what entitles it, an allowing
    policy at the version it reserved or a stamped decision on a policy that does not
    block, and, when receipts are written ahead, the receipt. The executions made
    keep it, although stamps, policies and the log move on;
  - `FreezeInv`: with one operator the webhook's freeze lasts until the call is made;
  - `AgreeInv`: of the human resolutions recorded or about to be, those with one id
    are equal, and one whose action can still be released is the decision stamped on
    the stored object. The second half is needed: it is what a reconcile that records
    a second time reads.

- `RejectionFinal`, `HeldStays`: `~Gates /\ ~Restores => (Spec => RejectedIsTerminal)`,
  and the same for `HeldUntilDecided`. The conditions are those of the run
  `approval_resolution`; without the first the claim is false (`rejected_with_gates`),
  and a status restored by hand may put anything in place. `HeldInv` says that an
  action is pending in phase PendingApproval only, and of every reconcile that, if
  the object still is the version it read, the object is not rejected, and that what
  is pending is what the reconcile carries or has consumed: on any newer version its
  writes are refused.

`TypeInv`, `OnceInv` and the parts of `AuthInv` were also checked with TLC, in the
configurations of `approval_one_operator` and `approval_two_operators`, and `HeldInv` in
that of `approval_resolution`, with one operator and with two.

### `LocalWriterProofs` and `RemoteWriterProofs`

- `ChainSound`: the invariant says, for every program point of `Append` and `open`,
  what the two files hold and how much of it is synced: record `j` carries sequence
  number `j`, every receipt has its record, synced, in the same place and the hash of
  its predecessor, the head in memory is that of the file between two appends and
  one line ahead of it within one (`AtStep`), and what `Append` returned is synced. It
  is needed at every point because a power loss may happen there and keeps any part of
  what was not synced.
- `ChainRefined`: `LocalWriter` implements `ReceiptChain`. Every step is shown to be an
  abstract append, an acknowledgement, a loss of what was not acknowledged, or a
  stutter, under the refinement mapping of `LocalWriter`.
- `AcceptedSound`, `KnownHeadCurrent`: `RemoteWriter` moves its instance of the
  writer by the writer's own actions, so the writer's invariant holds there by the
  lemmas of `LocalWriterProofs`. The rest of the invariant follows a request: a
  request still on its way was neither taken by the writer nor answered (`ServedOnce`),
  every answer is a durable receipt and no two are the same one, the answer to the
  request the writer took last is the end of the chain until it takes another
  (`LastAnswered`), and a client that reads the head or waits for an answer does not
  claim to know the head.

### `RuntimeExecutionProofs`

`ReferenceSound`. A copy the operator holds is old or is the stored object
(`CopiesInv`), so an accepted write rests on what is stored and keeps its reference.
`GoneInv` is for the end of a workload: the finalizer is removed only by an operator
whose cache has seen the deletion, so no reconcile of a copy older than the reference
is left that could create again what was cleaned up. `CompletedInv` follows the word
"Completed" from the adapter to the status. The gates write Failed and keep the
reference, so they disturb none of it.

### `ResourceProofs`

- `SLASound`: `BreachIffBelowTarget` is inductive together with the types.
  `RecordSuccess` only ever clears the flag and `RecordFailure` only ever sets it, so
  the proof needs that a success never takes the rate below the target and a failure
  never back to it (`SuccessRaises`, `FailureLowers`); the scaling part that a rate
  below a percentage is not above a higher one (`AboveIsNotBelow`).
- `QuotaExact`: `Exact` relates a tracker to what was admitted today. The counter may
  be of an earlier day, but then nothing was admitted today, unless it is the same day
  of the year, when the code does not reset it; that is the exception the property
  names, and the proof shows that it is the only one.
- `CostHonest`: a call past the probe has no answer yet, and LiteLLM is not down unless
  the connection was lost since. What an erring LiteLLM answers is the property's
  exception, which the code makes necessary.
- `OperationSound`: the id of the routing under way is in the stored status and in
  the reconcile's copy, generations only grow, every delivered key stands for its own
  generation and is not above the stored one, and usage counts the distinct keys
  recorded, all of them delivered.
- `BreakerEarned`: the successes a half-open breaker counts are among those recorded
  since the last failure, the failures a closed one counts among those since the last
  success. Late results make both counters smaller than the history, never larger.
- `FlagsEarned`: while the reconcile's copy is the stored version, every flag it has
  beyond the stored ones stands for objects that exist.

### `ServiceProofs`

- `DashboardIdentity`: `Vetted` says how far a request has been checked at each
  middleware, and which users were accepted and permitted by then; a form's token was
  issued before, so it is not the cookie made for this request; requests under way have
  ids of their own, so that an answer is compared with its own decision.
- `CreateRetrySafe`: between `AlreadyExists` and the Get that follows it the workload
  exists or went away since, which the history `gone` records; uids only grow, so what
  a call answers was found when it began or made since.
- `EnforcedSeen`: inductive with the types. `EnforcingSeen`: `LateInv` says what is
  known of server, clients and policy at each call of the probe, a lost dial of the test
  client included, `VerdictInv` what an Enforcing verdict rests on, `OptionInv` that the
  options and the detection's result do not change under way.
- `SnapshotSound`: what a run has listed is of its kind and not younger than the
  list; a written temporary file is synced before it is renamed; the accounting is a
  statement about cardinalities of the projection.
- `VerifiedCurrent`: a complete cached view shows everything older than the last
  refresh (`LoaderInv`); a page inherits it for what is older than the TTL.
- `DatasetSound`, `VerdictWhole`: every line of the file binds to a receipt of the
  chain and no two have an id or a decision in common (`LinesOK`); the store knows the
  lines of the file unless it is broken; what was acknowledged is within the synced
  lines; the first half of an export binds to the chain the second half then shows,
  because the chain only grew. A prefix verifies as such only and is told from the whole
  by the signed manifest.
- `ReadinessRecent`: each piece of evidence a request found held at or after the time
  it began, and the cache's answer at or after its time less the webhook's timeout.
- `LedgerSound`: every entry is signed over its place, payload and predecessor, the
  heads recorders and checkpoints know are heads of the ledger. No induction over a
  dump is needed for `VerifiedIsPrefix`: a verified signature pins the whole entry, and
  with it its place, so the entry read at place `i` is the ledger's.

An inductive invariant was checked with TLC on the instance of its run wherever it was
not plain. The proofs led to a few changes of the model: `viewStatus` of `DecisionView`
was a `CASE` with overlapping guards, which leaves open which one is taken, and is now
the code's chain of ifs; the marker of redacted content in `ApprovalDataset` was not
known to differ from sensitive values; `ClientAssumption` and `TenantAssumption` lacked
what the code's types give; `readJSONL` of `AuditLedger` numbers lines directly.

### Only model-checked

Everything under fairness (`DecisionResolved`, `WriterRecovers`, `DeletionCompletes`,
`SuccessIsReported`, `WorkloadRouted`, `BreakerRecovers`, `TenantSettles`,
`CardConverges`, `DemoSourcesEnd`), which is out of the prover's reach, and with it
`AgentCards` and `DemoPage`, of which nothing else is asked. Everything else a
passing run checks is proved.

## 7. Not modelled

- Rule evaluation, policy packs, features, the learned model and the evaluation of
  outputs: functions of one input, textual or in floating point. They enter as
  arbitrary findings and scores.
- Rendering of manifests, metrics, traces, and of terminal and web pages: no state.
- Authentication of the receipt-writer, the parsing of its requests and JSON-RPC
  framing; cryptography is ideal, canonical JSON is equality of values, and time is
  nondeterminism or a bounded clock.
- Entry points and flags (`cmd/main.go`, `cmd/agentctl/root.go`), generated deep
  copies, charts: wiring and configuration. The defaults that matter (leader election
  off, the liveness probe) are used where a model needs them.
- The Python agents: graphs of calls to external services. Their A2A task store is the
  part worth a module next.
- `internal/anfsnapshot`, `ModelSelector` and `ResumeArgoWorkflow`, which nothing in
  the operator calls.
