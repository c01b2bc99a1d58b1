--------------------------- MODULE ReceiptRecords ---------------------------
(***************************************************************************)
(* The decision records of pkg/receipts, the signed export of a receipt    *)
(* chain and its offline verification.  A hash is the value it covers, so  *)
(* it is injective; a JSON number or key order never tells two apart.      *)
(***************************************************************************)
EXTENDS Naturals, Sequences, SequencesExt, FiniteSets

None == "none"

NoApproval == [label |-> None, approver |-> None, id |-> None, original |-> 0]

-----------------------------------------------------------------------------
(* record.go.                                                              *)

Labels == {"approve", "reject", "edit"}

OutcomeForLabel(label) ==
  CASE label = "approve" -> "approved"
    [] label = "reject" -> "rejected"
    [] label = "edit" -> "edited"
    [] OTHER -> None

(* The record's layer for the layer of a decision.Result.                  *)
mapResult(result) ==
  [outcome |-> result.outcome,
   layer |-> IF result.layer = "pack" THEN "rules" ELSE result.layer]

(* The payload digest is separated from every other hash by its domain.    *)
PayloadSHA256(payload) == <<"payload", payload>>

InputHash(payloadSHA) == <<"input", payloadSHA>>

NewDecisionRecord(result, payload) ==
  [layer |-> mapResult(result).layer, outcome |-> mapResult(result).outcome,
   payload |-> PayloadSHA256(payload), inputHash |-> InputHash(PayloadSHA256(payload)),
   approval |-> NoApproval]

(* approval: label, approver, the pending id and the seq of the decision   *)
(* that escalated.  Only the digest of the approver is kept.               *)
IdentityDigest(username) == [identity |-> username]

HumanRecordRefused(approval) == OutcomeForLabel(approval.label) = None \/ approval.approver = None

NewHumanRecord(approval, payload) ==
  [NewDecisionRecord([outcome |-> "allow", layer |-> "threshold"], payload) EXCEPT
     !.layer = "human",
     !.outcome = OutcomeForLabel(approval.label),
     !.approval = [approval EXCEPT !.approver = IdentityDigest(approval.approver)]]

PolicyDecision(outcome) ==
  IF outcome \in {"allow", "approved", "edited"} THEN "allow" ELSE "deny"

statusCode(outcome) ==
  CASE outcome \in {"allow", "approved", "edited"} -> 200
    [] outcome = "require_approval" -> 202
    [] OTHER -> 403

(* Fields refuses a human record that names no approver.                   *)
FieldsRefused(rec) ==
  rec.layer = "human" /\ rec.approval.label = None

Fields(rec) ==
  [principal |-> IF rec.layer = "human" THEN rec.approval.approver ELSE "operator",
   params |-> rec, decision |-> PolicyDecision(rec.outcome), status |-> statusCode(rec.outcome)]

-----------------------------------------------------------------------------
(* export.go.  A receipt is its fields, its seq and the fields before it   *)
(* (what the entry hash chains over).  An export has the receipts, the     *)
(* record lines and at most one signed manifest.                           *)

Receipt(records, i) ==
  [seq |-> i, fields |-> Fields(records[i]), prev |-> SubSeq(records, 1, i - 1)]

RecordLine(records, i) == [seq |-> i, record |-> records[i]]

(* LocalWriter.Export, with the head of the chain in the manifest.         *)
Export(records) ==
  [receipts |-> [i \in DOMAIN records |-> Receipt(records, i)],
   records |-> [i \in DOMAIN records |-> RecordLine(records, i)],
   manifest |-> {[head |-> Len(records), hash |-> records]}]

(* The manifest and the last n receipts and records are dropped.           *)
StripToPrefix(e, n) ==
  [receipts |-> SubSeq(e.receipts, 1, Len(e.receipts) - n),
   records |-> SubSeq(e.records, 1, Len(e.records) - n),
   manifest |-> {}]

(* receiptspec.VerifyBundle: every receipt chains to the one before, and a *)
(* manifest that is there must match the receipts.                         *)
chainOf(receipts) == [i \in DOMAIN receipts |-> receipts[i].fields.params]

VerifyBundle(e) ==
  /\ \A i \in DOMAIN e.receipts : e.receipts[i] = Receipt(chainOf(e.receipts), i)
  /\ e.manifest \subseteq {[head |-> Len(e.receipts), hash |-> chainOf(e.receipts)]}

(* Mutant: records left over after every receipt found one are ignored.    *)
VerifyRecords_NoOrphans(e) ==
  \A i \in DOMAIN e.receipts : \E j \in DOMAIN e.records :
    e.records[j] = [seq |-> e.receipts[i].seq, record |-> e.receipts[i].fields.params]

(* VerifyExport: one record per receipt, bound by its hash, and no other.  *)
VerifyRecords(e) ==
  /\ \A j, k \in DOMAIN e.records : e.records[j].seq = e.records[k].seq => j = k
  /\ \A i \in DOMAIN e.receipts : \E j \in DOMAIN e.records :
       e.records[j] = [seq |-> e.receipts[i].seq, record |-> e.receipts[i].fields.params]
  /\ \A j \in DOMAIN e.records : \E i \in DOMAIN e.receipts : e.receipts[i].seq = e.records[j].seq

PrefixOK(e) == VerifyBundle(e) /\ VerifyRecords(e)

Complete(e) == e.manifest # {}

(* agentctl receipts verify.                                               *)
completenessVerdict(prefixOK, complete, allowPrefix) == prefixOK /\ (complete \/ allowPrefix)
=============================================================================
