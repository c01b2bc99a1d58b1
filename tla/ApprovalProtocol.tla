--------------------------- MODULE ApprovalProtocol ---------------------------
(***************************************************************************)
(* The approval annotation protocol (pkg/approval) and the webhook rules   *)
(* that guard it, as pure operators shared by the webhook and the          *)
(* controller, as in the code.                                             *)
(*                                                                         *)
(* The six annotations are one record.  label, edit and reason are what a  *)
(* client sets (the free-text reason only ever travels with the label, so  *)
(* it is left out); by, for and mac are stamped by the webhook.  HMAC is   *)
(* modelled as an unforgeable injective function: a MAC is the record of   *)
(* the values it was computed over.                                        *)
(***************************************************************************)
EXTENDS Naturals

CONSTANTS Actions,   \* proposals (name, description, params, claims)
          NoAction,  \* the absent action
          Users,     \* who may be the admission request user
          NoUser,    \* an absent approval-by annotation
          HasKey     \* is a stamp key configured (APPROVAL_STAMP_KEY_FILE)

ASSUME ProtocolAssumption ==
  /\ NoAction \notin Actions
  /\ NoUser \notin Users
  /\ HasKey \in BOOLEAN

Labels == {"approve", "reject", "edit"}

(* A pending id is a positive number; 0 is the empty id of a workload that *)
(* holds no action.                                                        *)
Macs == [id : Nat, payload : Actions \cup {NoAction}, label : Labels \cup {""},
         edit : Actions \cup {NoAction}, by : Users \cup {NoUser}]

NoMac == [id |-> 0, payload |-> NoAction, label |-> "", edit |-> NoAction, by |-> NoUser]

Annotations == [label : Labels \cup {""}, edit : Actions \cup {NoAction},
                by : Users \cup {NoUser}, for : Nat, mac : Macs]

NoAnnotations == [label |-> "", edit |-> NoAction, by |-> NoUser, for |-> 0, mac |-> NoMac]

(* approval.MAC over the pending id, the decision digest (label, edit),    *)
(* the approver and the digest of the stored proposal.  The workload UID   *)
(* is constant here: one incarnation of one workload.                      *)
MAC(id, payload, ann) ==
  [id |-> id, payload |-> payload, label |-> ann.label, edit |-> ann.edit, by |-> ann.by]

(* Mutant: any MAC will do.                                                *)
VerifyMAC_Any(id, payload, ann) == HasKey

VerifyMAC(id, payload, ann) == HasKey /\ ann.mac = MAC(id, payload, ann)

(* validateFields: an edit decision carries an edit, no other one does.    *)
validateFields(ann) == ann.label \in Labels /\ (ann.label = "edit" <=> ann.edit # NoAction)

(* approval.Read for the pending action (id, payload), in the order of its *)
(* returns: "wait" is ok = FALSE, "ok" a decision to act on, anything else *)
(* the reason the controller holds with.                                   *)
Read(ann, id, payload) ==
  IF ann.label = "" \/ id = 0 THEN "wait"
  ELSE IF ann.by = NoUser THEN "MissingApprovalStamp"
  ELSE IF ann.for # id THEN "wait"
  ELSE IF ~HasKey THEN "ApprovalStampKeyMissing"
  ELSE IF ~VerifyMAC(id, payload, ann) THEN "ApprovalStampInvalid"
  ELSE IF ~validateFields(ann) THEN "InvalidDecision"
  ELSE "ok"

(* approval.Admit, the condition under which an update from old to new     *)
(* annotations is let through.                                             *)
Stamps(ann) == <<ann.by, ann.for, ann.mac>>

(* Mutant: a recorded decision may be replaced (no ErrFinal).              *)
Admits_Replace(old, new, id) ==
  \/ new = old
  \/ /\ new.by \in {NoUser, old.by} /\ new.for \in {0, old.for} /\ new.mac \in {NoMac, old.mac}
     /\ \/ new.label = "" /\ Stamps(new) = Stamps(NoAnnotations)
        \/ new.label # "" /\ id # 0 /\ validateFields(new) /\ HasKey

Admits(old, new, id) ==
  \/ new = old
  \/ /\ new.by \in {NoUser, old.by} /\ new.for \in {0, old.for} /\ new.mac \in {NoMac, old.mac}
     /\ ~(old.label # "" /\ id # 0 /\ old.for = id)
     /\ \/ new.label = "" /\ Stamps(new) = Stamps(NoAnnotations)
        \/ new.label # "" /\ id # 0 /\ validateFields(new) /\ HasKey

(* approval.Admit, the annotations it stores: a new decision is stamped    *)
(* with the request user, the pending id and the MAC.                      *)
Stamped(old, new, id, payload, user) ==
  IF new = old \/ new.label = "" THEN new
  ELSE LET stamped == [new EXCEPT !.by = user, !.for = id]
       IN  [stamped EXCEPT !.mac = MAC(id, payload, stamped)]
=============================================================================
