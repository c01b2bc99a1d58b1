------------------------------ MODULE McpTools ------------------------------
(***************************************************************************)
(* The MCP surface of pkg/mcp: a client's CallTool with its retries of 5xx *)
(* answers, a server whose create_workload and delete_workload are         *)
(* idempotent by name, and a tool server that performs execute_action.     *)
(* One workload name.  Every call of the server to the Kubernetes API may  *)
(* fail, with or without having done its work.                             *)
(***************************************************************************)
EXTENDS Naturals, FiniteSets

CONSTANTS
  McpCallers,      \* goroutines that call tools
  MaxToolRetries,      \* MCPClient.maxRetries
  MaxMcpCalls      \* bound: calls made

ASSUME McpAssumption == MaxToolRetries \in Nat /\ MaxMcpCalls \in Nat

VARIABLES
  uid,         \* the workload's uid, 0 when there is none
  lastUid,     \* the last uid given out
  terminating, \* the workload is deleted and waits for its finalizer
  mcpCall,     \* mcpCall[c]: tool, attempt, step and answer
  performed,   \* performed[c]: execute_action runs of the current call
  mcpCalls

mcpVars == <<uid, lastUid, terminating, mcpCall, performed, mcpCalls>>
cluster == <<uid, lastUid, terminating>>

(* The last four fields are history: the workload there was and the last   *)
(* uid given out when the call began, whether an API call of the latest    *)
(* attempt failed, and whether the workload that a Create found in its way *)
(* went away before the Get.                                               *)
NoCall == [tool |-> "none", attempt |-> 0, step |-> "idle", answer |-> "none", value |-> 0,
           found |-> 0, born |-> 0, failed |-> FALSE, gone |-> FALSE]

Tools == {"create_workload", "delete_workload", "get_workload_status",
          "execute_action", "no_such_tool"}

McpInit ==
  /\ uid = 0 /\ lastUid = 0 /\ terminating = FALSE
  /\ mcpCall = [c \in McpCallers |-> NoCall]
  /\ performed = [c \in McpCallers |-> 0]
  /\ mcpCalls = 0

-----------------------------------------------------------------------------
(* MCPClient.CallTool.                                                     *)

CallTool(c) ==
  /\ mcpCall[c].step = "idle" /\ mcpCalls < MaxMcpCalls
  /\ \E tool \in Tools :
       mcpCall' = [mcpCall EXCEPT ![c] = [NoCall EXCEPT !.tool = tool, !.step = "sent",
                                                        !.found = uid, !.born = lastUid]]
  /\ performed' = [performed EXCEPT ![c] = 0]
  /\ mcpCalls' = mcpCalls + 1
  /\ UNCHANGED cluster

(* The calls once c's handler is done, and once an API call of c's handler *)
(* returned an error, which is then the tool's.                            *)
ToolAnswered(c, answer, value) ==
  [mcpCall EXCEPT ![c].step = "answered", ![c].answer = answer, ![c].value = value,
                  ![c].failed = FALSE]
ToolErrored(c) ==
  [mcpCall EXCEPT ![c].step = "answered", ![c].answer = "tool_failed", ![c].value = 0,
                  ![c].failed = TRUE]

Answer200(c, answer, value) == mcpCall' = ToolAnswered(c, answer, value)
ApiError(c) == mcpCall' = ToolErrored(c)

Returned(c) == mcpCall' = [mcpCall EXCEPT ![c].step = "idle"]

(* The answer arrives: the call returns.                                   *)
ReturnAnswer(c) ==
  /\ mcpCall[c].step = "answered"
  /\ Returned(c)
  /\ UNCHANGED <<cluster, performed, mcpCalls>>

(* A 5xx arrives, before or after the server did its work: the request is  *)
(* sent again until the attempts are used up.                              *)
retryableStatus(c) ==
  /\ mcpCall[c].step \in {"sent", "answered"}
  /\ mcpCall' = IF mcpCall[c].attempt < MaxToolRetries
                  THEN [mcpCall EXCEPT ![c].attempt = @ + 1, ![c].step = "sent", ![c].answer = "none"]
                  ELSE [mcpCall EXCEPT ![c].answer = "http_status", ![c].step = "idle"]
  /\ UNCHANGED <<cluster, performed, mcpCalls>>

(* The connection fails: CallTool returns at once.                         *)
ConnectionLost(c) ==
  /\ mcpCall[c].step \in {"sent", "answered"}
  /\ mcpCall' = [mcpCall EXCEPT ![c].answer = "unreachable", ![c].step = "idle"]
  /\ UNCHANGED <<cluster, performed, mcpCalls>>

-----------------------------------------------------------------------------
(* Server.dispatch.                                                        *)

Dispatched(c, tool) == mcpCall[c].step = "sent" /\ mcpCall[c].tool = tool

Created == uid' = lastUid + 1 /\ lastUid' = lastUid + 1 /\ terminating' = FALSE

(* Mutant: AlreadyExists is an error.                                      *)
createWorkload_Strict(c) ==
  /\ Dispatched(c, "create_workload")
  /\ \/ uid = 0 /\ Created /\ Answer200(c, "created", uid')
     \/ uid # 0 /\ UNCHANGED cluster /\ Answer200(c, "tool_failed", 0)
     \/ ApiError(c) /\ (UNCHANGED cluster \/ (uid = 0 /\ Created))
  /\ UNCHANGED <<performed, mcpCalls>>

(* Create.  The name of a workload that is being deleted is taken too.     *)
createWorkload(c) ==
  /\ Dispatched(c, "create_workload")
  /\ \/ uid = 0 /\ Created /\ Answer200(c, "created", uid')
     \/ /\ uid # 0 /\ UNCHANGED cluster
        /\ mcpCall' = [mcpCall EXCEPT ![c].step = "exists", ![c].gone = FALSE]
     \/ ApiError(c) /\ (UNCHANGED cluster \/ (uid = 0 /\ Created))
  /\ UNCHANGED <<performed, mcpCalls>>

(* The Get after AlreadyExists.                                            *)
getExisting(c) ==
  /\ mcpCall[c].step = "exists"
  /\ \/ uid = 0 /\ Answer200(c, "tool_failed", 0)
     \/ uid # 0 /\ Answer200(c, "alreadyExisted", uid)
     \/ ApiError(c)
  /\ UNCHANGED <<cluster, performed, mcpCalls>>

(* Delete is asked of a workload.  One that the controller has not given   *)
(* its finalizer yet goes at once, any other is marked.                    *)
Removed(calls) ==
  /\ uid' = 0 /\ terminating' = FALSE /\ lastUid' = lastUid
  /\ mcpCall' = [d \in McpCallers |-> [calls[d] EXCEPT !.gone = TRUE]]

DeleteAsked(calls) ==
  \/ uid' = uid /\ terminating' = TRUE /\ lastUid' = lastUid /\ mcpCall' = calls
  \/ ~terminating /\ Removed(calls)

deleteWorkload(c) ==
  /\ Dispatched(c, "delete_workload")
  /\ \/ uid = 0 /\ Answer200(c, "not_found", 0) /\ UNCHANGED cluster
     \/ uid # 0 /\ DeleteAsked(ToolAnswered(c, "deleted", 0))
     \/ ApiError(c) /\ UNCHANGED cluster
     \/ uid # 0 /\ DeleteAsked(ToolErrored(c))
  /\ UNCHANGED <<performed, mcpCalls>>

(* The controller cleans up and removes the finalizer.                     *)
RemoveWorkload ==
  /\ terminating
  /\ Removed(mcpCall)
  /\ UNCHANGED <<performed, mcpCalls>>

getWorkloadStatus(c) ==
  /\ Dispatched(c, "get_workload_status")
  /\ \/ Answer200(c, IF uid = 0 THEN "tool_failed" ELSE "phase", uid)
     \/ ApiError(c)
  /\ UNCHANGED <<cluster, performed, mcpCalls>>

unknownTool(c) ==
  /\ Dispatched(c, "no_such_tool")
  /\ Answer200(c, "tool_failed", 0)
  /\ UNCHANGED <<cluster, performed, mcpCalls>>

(* The workload's own tool server.                                         *)
executeAction(c) ==
  /\ Dispatched(c, "execute_action")
  /\ performed' = [performed EXCEPT ![c] = @ + 1]
  /\ Answer200(c, "done", 0)
  /\ UNCHANGED <<cluster, mcpCalls>>

-----------------------------------------------------------------------------
McpCallerStep(c) ==
  \/ CallTool(c) \/ ReturnAnswer(c) \/ retryableStatus(c) \/ ConnectionLost(c)
  \/ createWorkload(c) \/ getExisting(c) \/ deleteWorkload(c) \/ getWorkloadStatus(c)
  \/ unknownTool(c) \/ executeAction(c)

McpNext == RemoveWorkload \/ \E c \in McpCallers : McpCallerStep(c)

-----------------------------------------------------------------------------
(* "Idempotent provisioning": an orchestrator may call create_workload     *)
(* again.  A call fails only if an API call of its last attempt failed, or *)
(* the workload it found in its way went before the Get: never because an  *)
(* earlier attempt, or another caller, had created it.  Whatever it        *)
(* answers names a workload that was there during the call, and no two     *)
(* calls are told they created the same one.                               *)
CreateIsRetrySafe ==
  \A c \in McpCallers :
    LET k == mcpCall[c]
    IN  k.tool = "create_workload" =>
          /\ k.answer = "tool_failed" => k.failed \/ k.gone
          /\ k.answer \in {"created", "alreadyExisted"} =>
               k.value # 0 /\ (k.value = k.found \/ k.value > k.born)
          /\ \A d \in McpCallers \ {c} :
               k.answer = "created" /\ mcpCall[d].answer = "created" =>
                 k.value # mcpCall[d].value

(* "It cannot execute twice" (docs/approvals.md): one CallTool runs        *)
(* execute_action at most once.                                            *)
ExecutedOncePerCall == \A c \in McpCallers : performed[c] <= 1

McpSpec == McpInit /\ [][McpNext]_mcpVars
=============================================================================
