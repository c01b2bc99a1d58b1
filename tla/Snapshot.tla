------------------------------ MODULE Snapshot ------------------------------
(***************************************************************************)
(* The anf-snapshot tool: runs list the five kinds of a namespace one      *)
(* after the other while the cluster changes, project what they listed     *)
(* into a document with its accounting, and replace the same output file   *)
(* through a temporary one; any step may fail and the host may lose power. *)
(***************************************************************************)
EXTENDS Naturals, Sequences, FiniteSets

CONSTANTS
  SnapRuns,        \* runs of the tool with the same --output
  MaxSnapEvents    \* bound: changes of the cluster and power losses

ASSUME SnapshotAssumption == MaxSnapEvents \in Nat

(* Capture reads the kinds in this order.                                  *)
Kinds == <<"deployments", "pods", "services", "jobs", "cronJobs">>

(* What the projection tells apart: a deployment's containers, the target  *)
(* of each service port, and which success and end marks a job carries.    *)
Shapes == [deployments |-> {0, 2}, pods |-> {0}, cronJobs |-> {0},
           services |-> {<<>>, <<"int">>, <<"named", "int">>},
           jobs |-> {{}, {"podSucceeded"}, {"completionTime", "Complete"}, {"podSucceeded", "Failed"}}]

VARIABLES
  nsObjects,     \* objects: kind, birth (which also names it) and shape
  snapTime,    \* the clock, moved by every change
  snapRun,     \* snapRun[r]: step, lists read so far, document and temporary
  artifact,    \* the file at the output path: no file, torn, or a document
  unsettled    \* what a power loss may put back at the output path

snapVars == <<nsObjects, snapTime, snapRun, artifact, unsettled>>

NoDoc == [whole |-> TRUE, by |-> "none"]
TornDoc == [whole |-> FALSE, by |-> "none"]
IdleRun == [step |-> "idle", lists |-> <<>>, doc |-> NoDoc, synced |-> FALSE]

SnapInit ==
  /\ nsObjects = {} /\ snapTime = 0 /\ artifact = NoDoc /\ unsettled = {}
  /\ snapRun = [r \in SnapRuns |-> IdleRun]

ClusterChanges ==
  /\ snapTime < MaxSnapEvents
  /\ snapTime' = snapTime + 1
  /\ \/ \E k \in DOMAIN Shapes : \E s \in Shapes[k] :
          nsObjects' = nsObjects \cup {[kind |-> k, born |-> snapTime + 1, shape |-> s]}
     \/ \E o \in nsObjects : nsObjects' = nsObjects \ {o}
     \/ \E o \in nsObjects : \E s \in Shapes.jobs :
          o.kind = "jobs" /\ nsObjects' = (nsObjects \ {o}) \cup {[o EXCEPT !.shape = s]}
  /\ UNCHANGED <<snapRun, artifact, unsettled>>

-----------------------------------------------------------------------------
(* The projection of what was listed.                                      *)

(* Mutant: a pod that succeeded once makes the job succeeded.              *)
translateJob_AnySuccess(marks) ==
  [completed |-> marks \cap {"completionTime", "Complete", "Failed"} # {},
   succeeded |-> marks \cap {"podSucceeded", "Complete"} # {}]

translateJob(marks) ==
  [completed |-> marks \cap {"completionTime", "Complete", "Failed"} # {},
   succeeded |-> marks \cap {"podSucceeded", "Complete"} # {} /\ "Failed" \notin marks]

(* A service shows its first port, and only with a numeric target.         *)
translateService(ports) == [port |-> Len(ports) > 0 /\ ports[1] = "int"]

translateDeployment(containers) == [image |-> containers > 0]

translate(o) ==
  CASE o.kind = "jobs" -> translateJob(o.shape)
    [] o.kind = "services" -> translateService(o.shape)
    [] o.kind = "deployments" -> translateDeployment(o.shape)
    [] o.kind = "cronJobs" -> [schedule |-> TRUE]

(* ageDays: nothing is older than the capture or born after it.            *)
ageDays(born, at) == IF born < at THEN at - born ELSE 0

buildNamespaceView(listed, at) ==
  {[kind |-> o.kind, born |-> o.born, age |-> ageDays(o.born, at), shown |-> translate(o)] :
     o \in {x \in listed : x.kind # "pods"}}

OfKind(listed, k) == {o \in listed : o.kind = k}

countProjectionOmissions(listed) ==
  [unprojectedPods |-> Cardinality(OfKind(listed, "pods")),
   omittedContainers |-> Cardinality({o \in OfKind(listed, "deployments") : o.shape = 2}),
   omittedServicePorts |-> Cardinality({o \in OfKind(listed, "services") : Len(o.shape) = 2}),
   omittedNamedTargetPorts |->
     Cardinality({o \in OfKind(listed, "services") : Len(o.shape) > 0 /\ o.shape[1] = "named"})]

document(r, listed, at) ==
  [whole |-> TRUE, by |-> r, at |-> at, listed |-> listed,
   view |-> buildNamespaceView(listed, at),
   sourceObjects |-> Cardinality(listed), projectedObjects |-> Cardinality(buildNamespaceView(listed, at)),
   omitted |-> countProjectionOmissions(listed)]

-----------------------------------------------------------------------------
(* A run of the tool.                                                      *)

Listed(r) == UNION {snapRun[r].lists[i] : i \in DOMAIN snapRun[r].lists}

ListNext(r) ==
  LET i == Len(snapRun[r].lists) + 1
  IN /\ snapRun[r].step \in {"idle", "listing"} /\ i <= Len(Kinds)
     /\ snapRun' = [snapRun EXCEPT ![r].step = "listing",
                                   ![r].lists = Append(@, OfKind(nsObjects, Kinds[i]))]
     /\ UNCHANGED <<nsObjects, snapTime, artifact, unsettled>>

(* The clock is read after the last list.                                  *)
Capture(r) ==
  /\ snapRun[r].step = "listing" /\ Len(snapRun[r].lists) = Len(Kinds)
  /\ snapRun' = [snapRun EXCEPT ![r].step = "captured",
                                ![r].doc = document(r, Listed(r), snapTime)]
  /\ UNCHANGED <<nsObjects, snapTime, artifact, unsettled>>

(* Mutant: the file is not synced before it is renamed.                    *)
WriteTemporary_NoSync(r) ==
  /\ snapRun[r].step = "captured"
  /\ snapRun' = [snapRun EXCEPT ![r].step = "written"]
  /\ UNCHANGED <<nsObjects, snapTime, artifact, unsettled>>

(* WriteArtifact up to the close: a file of its own, written and synced.   *)
WriteTemporary(r) ==
  /\ snapRun[r].step = "captured"
  /\ snapRun' = [snapRun EXCEPT ![r].step = "written", ![r].synced = TRUE]
  /\ UNCHANGED <<nsObjects, snapTime, artifact, unsettled>>

(* The rename is not followed by a sync of the directory: a power loss may *)
(* undo it, and loses the data of a file that was not synced.              *)
ReplaceArtifact(r) ==
  /\ snapRun[r].step = "written"
  /\ artifact' = snapRun[r].doc
  /\ unsettled' = unsettled \cup {artifact} \cup (IF snapRun[r].synced THEN {} ELSE {TornDoc})
  /\ snapRun' = [snapRun EXCEPT ![r].step = "done"]
  /\ UNCHANGED <<nsObjects, snapTime>>

(* A list error, or an error of WriteArtifact: the temporary is removed    *)
(* and the run exits with 1.                                               *)
FailRun(r) ==
  /\ snapRun[r].step \in {"idle", "listing", "captured", "written"}
  /\ snapRun' = [snapRun EXCEPT ![r] = [IdleRun EXCEPT !.step = "failed"]]
  /\ UNCHANGED <<nsObjects, snapTime, artifact, unsettled>>

LosePowerOnHost ==
  /\ snapTime < MaxSnapEvents
  /\ snapTime' = snapTime + 1
  /\ artifact' \in unsettled \cup {artifact} /\ unsettled' = {}
  /\ snapRun' = [r \in SnapRuns |->
       IF snapRun[r].step \in {"listing", "captured", "written"}
         THEN [IdleRun EXCEPT !.step = "failed"] ELSE snapRun[r]]
  /\ UNCHANGED nsObjects

SnapNext ==
  \/ \E r \in SnapRuns :
       ListNext(r) \/ Capture(r) \/ WriteTemporary(r) \/ ReplaceArtifact(r) \/ FailRun(r)
  \/ ClusterChanges \/ LosePowerOnHost

-----------------------------------------------------------------------------
(* At every moment, and after a power loss, the output path holds no file  *)
(* or the whole document of one run, never a torn one.                     *)
ArtifactIsWhole == artifact.whole

(* A document accounts for every listed object, as projected or as a pod   *)
(* left out, dates no object after the capture, and shows no failed job as *)
(* succeeded, whatever changed between the lists.                          *)
DocumentIsHonest ==
  \A r \in SnapRuns : LET doc == snapRun[r].doc IN doc # NoDoc =>
    /\ doc.sourceObjects = doc.projectedObjects + doc.omitted.unprojectedPods
    /\ \A v \in doc.view : v.born <= doc.at
    /\ \A o \in doc.listed : o.kind = "jobs" /\ "Failed" \in o.shape =>
         \A v \in doc.view : v.kind = "jobs" /\ v.born = o.born => ~v.shown.succeeded

(* The file at --output is a whole document, and each document is true.    *)
SnapshotIsSound == ArtifactIsWhole /\ DocumentIsHonest
=============================================================================
