---------------------------- MODULE NetworkProbe ----------------------------
(***************************************************************************)
(* agentctl doctor network-policy: passive CNI detection, and the active   *)
(* probe, which has a server, lets a control client reach it, denies       *)
(* egress and lets a test client try, while pods start, die and are        *)
(* evicted, the CNI programs the policy, the network loses a connection    *)
(* and any API call may fail or time out.                                  *)
(***************************************************************************)
EXTENDS Naturals, Sequences

CONSTANTS
  MaxProbeFaults     \* bound: API errors, timeouts, deaths, evictions, lost dials

ASSUME ProbeAssumption == MaxProbeFaults \in Nat

VARIABLES
  cni,       \* what the CNI does, and what detection sees of it
  probe,         \* the command: its options, where it stands, its result; seen
                 \* is history, the server at the verdict
  server,        \* the server pod: its process, and the phase the API shows
  clients,       \* clients[c]: none, running or its exit code
  policy,        \* the deny-egress policy: absent, created or programmed
  refused,       \* history: the policy refused the test's connection
  dropped,       \* history: the test's connection failed for another reason,
                 \* with the server up
  probeFaults

probeVars == <<cni, probe, server, clients, policy, refused, dropped, probeFaults>>

ExitSuccess == "0"
ExitDialFailed == "10"
ExitDNSFailed == "20"

ProbeInit ==
  /\ cni \in [enforces : BOOLEAN, groups : BOOLEAN,
                  daemonSets : SUBSET {"enforcing", "non-enforcing"}]
  /\ probe \in [at : {"detect"}, active : BOOLEAN, override : BOOLEAN, keep : BOOLEAN,
                namespace : {"none"}, verdict : {"none"}, seen : {"none"}, err : {FALSE},
                exit : {"none"}]
  /\ server = [up |-> FALSE, phase |-> "none"]
  /\ clients = [c \in {"control", "test"} |-> "none"]
  /\ policy = "absent" /\ refused = FALSE /\ dropped = FALSE /\ probeFaults = 0

ProbeFault == probeFaults < MaxProbeFaults /\ probeFaults' = probeFaults + 1

-----------------------------------------------------------------------------
(* Detection: API groups first, then the kube-system DaemonSets.           *)

DetectCNIEnforcement ==
  CASE cni.groups \/ "enforcing" \in cni.daemonSets -> "Enforcing"
    [] ~cni.groups /\ cni.daemonSets = {"non-enforcing"} -> "KnownNonEnforcing"
    [] OTHER -> "Unknown"

(* runNetworkPolicyDoctor: passive detection is reported and succeeds; the *)
(* probe refuses a CNI known not to enforce, unless overridden.            *)
DetectCNI ==
  /\ probe.at = "detect"
  /\ \/ /\ ~probe.active
        /\ probe' = [probe EXCEPT !.at = "exit", !.exit = "configured"]
     \/ /\ probe.active
        /\ probe' = IF DetectCNIEnforcement = "KnownNonEnforcing" /\ ~probe.override
                      THEN [probe EXCEPT !.at = "report", !.verdict = "Inconclusive"]
                      ELSE [probe EXCEPT !.at = "namespace"]
  /\ UNCHANGED <<cni, server, clients, policy, refused, dropped, probeFaults>>

DetectFails ==
  /\ probe.at = "detect" /\ ProbeFault
  /\ probe' = [probe EXCEPT !.at = "exit", !.err = TRUE, !.exit = "failure"]
  /\ UNCHANGED <<cni, server, clients, policy, refused, dropped>>

-----------------------------------------------------------------------------
(* RunActiveProbe, in its order.                                           *)

ProbeSteps == <<"namespace", "server", "service", "running", "endpoints", "control",
                "controlExit", "policy", "test", "testExit", "verify">>

afterStep(step) == LET i == CHOOSE i \in 1..Len(ProbeSteps) : ProbeSteps[i] = step
                   IN  ProbeSteps[i + 1]

Proceed == probe' = [probe EXCEPT !.at = afterStep(@)]

(* The deferred deletion runs on every return once there is a namespace.   *)
returnVerdict(verdict) ==
  probe' = [probe EXCEPT !.verdict = verdict, !.seen = server,
              !.at = IF probe.namespace = "there" /\ ~probe.keep THEN "cleanup" ELSE "report"]

CreateNamespace ==
  /\ probe.at = "namespace"
  /\ probe' = [probe EXCEPT !.at = "server", !.namespace = "there"]
  /\ UNCHANGED <<cni, server, clients, policy, refused, dropped, probeFaults>>

CreateServer ==
  /\ probe.at = "server" /\ server' = [up |-> FALSE, phase |-> "Pending"]
  /\ Proceed
  /\ UNCHANGED <<cni, clients, policy, refused, dropped, probeFaults>>

CreateService ==
  /\ probe.at = "service" /\ Proceed
  /\ UNCHANGED <<cni, server, clients, policy, refused, dropped, probeFaults>>

CreateClient(c) ==
  /\ probe.at = c /\ clients' = [clients EXCEPT ![c] = "running"]
  /\ Proceed
  /\ UNCHANGED <<cni, server, policy, refused, dropped, probeFaults>>

CreatePolicy ==
  /\ probe.at = "policy" /\ policy' = "created"
  /\ Proceed
  /\ UNCHANGED <<cni, server, clients, refused, dropped, probeFaults>>

(* waitForPodRunning(server): the phase the API shows.                     *)
waitForPodRunning ==
  /\ probe.at = "running" /\ server.phase \in {"Running", "Failed"}
  /\ IF server.phase = "Running" THEN Proceed ELSE returnVerdict("Inconclusive")
  /\ UNCHANGED <<cni, server, clients, policy, refused, dropped, probeFaults>>

(* The endpoint is there while the server is shown running.                *)
waitForServiceEndpoints ==
  /\ probe.at = "endpoints" /\ server.phase = "Running" /\ Proceed
  /\ UNCHANGED <<cni, server, clients, policy, refused, dropped, probeFaults>>

(* waitForPodExit: a failed pod without container status counts as 1.      *)
exited(c) == clients[c] \notin {"none", "running"}

ControlExits ==
  /\ probe.at = "controlExit" /\ exited("control")
  /\ IF clients["control"] = ExitSuccess THEN Proceed ELSE returnVerdict("Inconclusive")
  /\ UNCHANGED <<cni, server, clients, policy, refused, dropped, probeFaults>>

TestExits ==
  /\ probe.at = "testExit" /\ exited("test") /\ Proceed
  /\ UNCHANGED <<cni, server, clients, policy, refused, dropped, probeFaults>>

classifyProbeResult(code) ==
  CASE code = ExitSuccess -> "NotEnforcing"
    [] code = ExitDialFailed -> "Enforcing"
    [] OTHER -> "Inconclusive"

(* Mutant: the verdict does not look at the server again.                  *)
VerifyServer_Skipped ==
  /\ probe.at = "verify"
  /\ returnVerdict(classifyProbeResult(clients["test"]))
  /\ UNCHANGED <<cni, server, clients, policy, refused, dropped, probeFaults>>

VerifyServer ==
  /\ probe.at = "verify" /\ server.phase \in {"Running", "Failed"}
  /\ returnVerdict(IF server.phase = "Running" THEN classifyProbeResult(clients["test"])
                                               ELSE "Inconclusive")
  /\ UNCHANGED <<cni, server, clients, policy, refused, dropped, probeFaults>>

(* Any call fails, or the timeout passes in a wait: inconclusive.          *)
inconclusive ==
  /\ probe.at \in {ProbeSteps[i] : i \in 1..Len(ProbeSteps)} /\ ProbeFault
  /\ returnVerdict("Inconclusive")
  /\ UNCHANGED <<cni, server, clients, policy, refused, dropped>>

(* Deletion has its own context; its failure becomes the error returned.   *)
CleanUp ==
  /\ probe.at = "cleanup"
  /\ \/ /\ probe' = [probe EXCEPT !.at = "report", !.namespace = "deleted"]
        /\ UNCHANGED probeFaults
     \/ /\ ProbeFault
        /\ probe' = [probe EXCEPT !.at = "report", !.err = TRUE]
  /\ UNCHANGED <<cni, server, clients, policy, refused, dropped>>

ReportProbe ==
  /\ probe.at = "report"
  /\ probe' = [probe EXCEPT !.at = "exit",
       !.exit = IF ~probe.err /\ probe.verdict = "Enforcing" THEN "success" ELSE "failure"]
  /\ UNCHANGED <<cni, server, clients, policy, refused, dropped, probeFaults>>

-----------------------------------------------------------------------------
(* The cluster and netprobe's processes.                                   *)

ServerStarts ==
  /\ server.phase = "Pending" /\ server' = [up |-> TRUE, phase |-> "Running"]
  /\ UNCHANGED <<cni, probe, clients, policy, refused, dropped, probeFaults>>

(* serve ends, or its pod is killed; restartPolicy Never.                  *)
ServerDies ==
  /\ server.up /\ ProbeFault /\ server' = [server EXCEPT !.up = FALSE]
  /\ UNCHANGED <<cni, probe, clients, policy, refused, dropped>>

KubeletReports ==
  /\ server.phase = "Running" /\ ~server.up
  /\ server' = [server EXCEPT !.phase = "Failed"]
  /\ UNCHANGED <<cni, probe, clients, policy, refused, dropped, probeFaults>>

PolicyProgrammed ==
  /\ policy = "created" /\ cni.enforces /\ policy' = "programmed"
  /\ UNCHANGED <<cni, probe, server, clients, refused, dropped, probeFaults>>

(* dial: the name, then the connection.                                    *)
ClientDials(c) ==
  /\ clients[c] = "running"
  /\ LET blocked == policy = "programmed"
     IN  /\ clients' = [clients EXCEPT ![c] =
                          IF server.up /\ ~blocked THEN ExitSuccess ELSE ExitDialFailed]
         /\ refused' = (refused \/ (c = "test" /\ blocked))
  /\ UNCHANGED <<cni, probe, server, policy, dropped, probeFaults>>

(* The name does not resolve, the pod is evicted, or the dial fails all    *)
(* the same: the five seconds it shares with the lookup are used up, a     *)
(* packet is lost, the Service is not programmed on the client's node.     *)
ClientFails(c) ==
  /\ clients[c] = "running" /\ ProbeFault
  /\ \E code \in {ExitDNSFailed, ExitDialFailed, "1"} :
       /\ clients' = [clients EXCEPT ![c] = code]
       /\ dropped' = (dropped \/ (c = "test" /\ code = ExitDialFailed))
  /\ UNCHANGED <<cni, probe, server, policy, refused>>

ProbeNext ==
  \/ DetectCNI \/ DetectFails \/ CreateNamespace \/ CreateServer \/ CreateService
  \/ waitForPodRunning \/ waitForServiceEndpoints \/ ControlExits \/ CreatePolicy
  \/ TestExits \/ VerifyServer \/ inconclusive \/ CleanUp \/ ReportProbe
  \/ ServerStarts \/ ServerDies \/ KubeletReports \/ PolicyProgrammed
  \/ \E c \in {"control", "test"} : CreateClient(c) \/ ClientDials(c) \/ ClientFails(c)

-----------------------------------------------------------------------------
(* agentctl doctor network-policy --active-probe exits with success only   *)
(* if a control client had reached the server and the test client's dial   *)
(* failed under the policy: refused by it, lost in the network, which the  *)
(* exit code does not tell apart, or to a server whose death the API did   *)
(* not show yet.  No failed lookup, eviction, API error or timeout of the  *)
(* command passes for enforcement, nor a CNI known not to enforce unless   *)
(* overridden, and the scratch namespace is gone unless it was to be kept. *)
EnforcingWasSeen ==
  probe.exit = "success" =>
    /\ clients["control"] = ExitSuccess /\ policy # "absent"
    /\ refused \/ dropped \/ probe.seen = [up |-> FALSE, phase |-> "Running"]
    /\ DetectCNIEnforcement = "KnownNonEnforcing" => probe.override
    /\ probe.keep \/ probe.namespace = "deleted"
=============================================================================
