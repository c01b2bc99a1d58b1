-------------------------- MODULE ApprovalDataset --------------------------
(***************************************************************************)
(* The approval dataset of pkg/dataset, kept by the receipt-writer beside  *)
(* the receipt chain: concurrent POST /v1/approvals requests, failed       *)
(* writes and fsyncs, restarts, power losses, and an export that reads the *)
(* two files in two requests while both grow.                              *)
(***************************************************************************)
EXTENDS ReceiptRecords

CONSTANTS
  Posters,          \* requests in flight
  Actions,          \* actions a human decides on
  Sensitive,        \* the actions that hold a detected data class
  CaptureModes,     \* values of spec.approvalCapture.content in use
  HumanLabels,      \* labels in use
  MaxReceipts,      \* bound: receipts of the chain
  MaxPosts,         \* bound: requests
  MaxDatasetFaults  \* bound: failed writes, restarts and power losses

(* What takes the place of a detected data class, and is none itself.      *)
Redacted == "[class]"

ASSUME DatasetAssumption ==
  /\ Sensitive \subseteq Actions /\ Sensitive \cap {Redacted, None} = {}
  /\ HumanLabels \subseteq Labels
  /\ MaxReceipts \in Nat /\ MaxPosts \in Nat /\ MaxDatasetFaults \in Nat

VARIABLES
  decisions,      \* the records of the receipt chain
  approvals,      \* the whole lines of approvals.jsonl
  torn,           \* a torn last line follows them
  synced,         \* how many lines are on stable storage
  store,          \* Store: the seqs and ids it knows, broken
  post,           \* post[p]: the example a request carries, and its step
  stored,         \* examples a request was answered 200 for
  pulled,         \* the dataset export: approvals, then the chain export
  posts, datasetFaults

datasetVars ==
  <<decisions, approvals, torn, synced, store, post, stored, pulled, posts, datasetFaults>>

IdlePost == [step |-> "idle"]
NoPull == [step |-> "none"]

Opened(lines) == [seqs |-> {ex.seq : ex \in Range(lines)},
                  ids |-> {ex.id : ex \in Range(lines)}, broken |-> FALSE]

DatasetInit ==
  /\ decisions = <<>> /\ approvals = <<>> /\ torn = FALSE /\ synced = 0
  /\ store = Opened(<<>>)
  /\ post = [p \in Posters |-> IdlePost]
  /\ stored = {} /\ pulled = NoPull /\ posts = 0 /\ datasetFaults = 0

DatasetFault == datasetFaults < MaxDatasetFaults /\ datasetFaults' = datasetFaults + 1

-----------------------------------------------------------------------------
(* The chain grows: a decision that escalates, and the human decisions on  *)
(* it.  A reconcile that repeats leaves a second receipt for the same      *)
(* pending id, which is named here after the seq of the decision.          *)
AppendRecord ==
  /\ Len(decisions) < MaxReceipts
  /\ \E a \in Actions :
       \/ decisions' = Append(decisions,
            NewDecisionRecord([outcome |-> "require_approval", layer |-> "pack"], a))
       \/ \E label \in HumanLabels, orig \in DOMAIN decisions :
            LET approval == [label |-> label, approver |-> "alice", id |-> orig, original |-> orig]
            IN  /\ decisions[orig].layer # "human" /\ ~HumanRecordRefused(approval)
                /\ label # "edit" => decisions[orig].payload = PayloadSHA256(a)
                /\ ~FieldsRefused(NewHumanRecord(approval, a))
                /\ decisions' = Append(decisions, NewHumanRecord(approval, a))
  /\ UNCHANGED <<approvals, torn, synced, store, post, stored, pulled, posts, datasetFaults>>

-----------------------------------------------------------------------------
(* dataset.go.                                                             *)

redactString(a) == IF a \in Sensitive THEN Redacted ELSE a

(* The action's digest always, its text as the capture mode says.          *)
BuildContent(mode, a) ==
  [sha |-> a,
   shown |-> CASE mode = "redacted" -> redactString(a)
               [] mode = "full" -> a
               [] OTHER -> None]

FeaturesFromRecord(rec, originalSeq) ==
  [original |-> originalSeq, inputHash |-> rec.inputHash, escalatedBy |-> rec.layer]

(* a is the action that escalated, b the one the human let through.        *)
NewExample(i, mode, a, b) ==
  LET ap == decisions[i].approval
  IN  [id |-> ap.id, seq |-> i, hash |-> Receipt(decisions, i), label |-> ap.label,
       features |-> FeaturesFromRecord(decisions[ap.original], ap.original),
       approver |-> ap.approver, mode |-> mode, content |-> BuildContent(mode, a),
       editDiff |-> IF ap.label = "edit"
                      THEN {[changed |-> a # b, edited |-> BuildContent(mode, b)]} ELSE {},
       source |-> None]

(* What a request may carry: an example built from a human receipt, and    *)
(* one that is wrong in a field.                                           *)
WrongExamples(ex) ==
  {[ex EXCEPT !.source = "synthetic"], [ex EXCEPT !.seq = Len(decisions) + 1],
   [ex EXCEPT !.seq = ex.id, !.hash = Receipt(decisions, ex.id)], [ex EXCEPT !.id = ex.id + 1],
   [ex EXCEPT !.label = "unknown"], [ex EXCEPT !.label = "reject"],
   [ex EXCEPT !.editDiff = IF @ = {} THEN {[changed |-> FALSE, edited |-> ex.content]} ELSE {}]}

(* The example is well formed and binds to receipt r and record rec.       *)
Validate(ex, r, rec) ==
  /\ ex.source = None
  /\ ex.mode \in {"none", "redacted", "full"}
  /\ ex.seq = r.seq /\ ex.hash = r
  /\ r.fields.params = rec
  /\ OutcomeForLabel(ex.label) # None
  /\ rec.layer = "human"
  /\ rec.outcome = OutcomeForLabel(ex.label) /\ rec.approval.label = ex.label
  /\ rec.approval.id = ex.id /\ rec.approval.approver = ex.approver
  /\ rec.approval.original = ex.features.original
  /\ (ex.label = "edit") = (ex.editDiff # {})

(* LocalWriter.Lookup finds the receipt and its record.                    *)
Lookup(seq) == seq \in DOMAIN decisions

-----------------------------------------------------------------------------
(* Store.Append: the first half looks the receipt up and validates outside *)
(* the lock, the second half stores under it.                              *)

StartPost(p) ==
  /\ post[p].step = "idle" /\ posts < MaxPosts
  /\ \E i \in DOMAIN decisions, mode \in CaptureModes, a, b \in Actions :
       /\ decisions[i].layer = "human" /\ decisions[i].payload = PayloadSHA256(b)
       /\ decisions[decisions[i].approval.original].payload = PayloadSHA256(a)
       /\ LET ex == NewExample(i, mode, a, b)
          IN  \E e \in {ex} \cup WrongExamples(ex) :
                post' = IF Lookup(e.seq) /\ Validate(e, Receipt(decisions, e.seq), decisions[e.seq])
                          THEN [post EXCEPT ![p] = [step |-> "store", ex |-> e]]
                          ELSE post
  /\ posts' = posts + 1
  /\ UNCHANGED <<decisions, approvals, torn, synced, store, stored, pulled, datasetFaults>>

known(ex) == ex.seq \in store.seqs \/ ex.id \in store.ids

EndPost(p) == post' = [post EXCEPT ![p] = IdlePost]

(* A broken store answers 400.                                             *)
RefuseBroken(p) ==
  /\ post[p].step = "store" /\ store.broken
  /\ EndPost(p)
  /\ UNCHANGED <<decisions, approvals, torn, synced, store, stored, pulled, posts, datasetFaults>>

(* A known receipt or pending id answers 409, which the client takes for   *)
(* success.                                                                *)
RefuseDuplicate(p) ==
  /\ post[p].step = "store" /\ ~store.broken /\ known(post[p].ex)
  /\ EndPost(p)
  /\ UNCHANGED <<decisions, approvals, torn, synced, store, stored, pulled, posts, datasetFaults>>

(* Mutant: the duplicate check is made before the lock is taken.           *)
StoreExample_Unchecked(p) ==
  /\ post[p].step = "store" /\ ~store.broken
  /\ approvals' = Append(approvals, post[p].ex) /\ synced' = Len(approvals) + 1
  /\ store' = [store EXCEPT !.seqs = @ \cup {post[p].ex.seq}, !.ids = @ \cup {post[p].ex.id}]
  /\ stored' = stored \cup {post[p].ex}
  /\ EndPost(p)
  /\ UNCHANGED <<decisions, torn, pulled, posts, datasetFaults>>

(* Mutant: the file is not synced.                                         *)
StoreExample_NoSync(p) ==
  /\ post[p].step = "store" /\ ~store.broken /\ ~known(post[p].ex)
  /\ approvals' = Append(approvals, post[p].ex)
  /\ store' = [store EXCEPT !.seqs = @ \cup {post[p].ex.seq}, !.ids = @ \cup {post[p].ex.id}]
  /\ stored' = stored \cup {post[p].ex}
  /\ EndPost(p)
  /\ UNCHANGED <<decisions, synced, torn, pulled, posts, datasetFaults>>

StoreExample(p) ==
  /\ post[p].step = "store" /\ ~store.broken /\ ~known(post[p].ex)
  /\ approvals' = Append(approvals, post[p].ex) /\ synced' = Len(approvals) + 1
  /\ store' = [store EXCEPT !.seqs = @ \cup {post[p].ex.seq}, !.ids = @ \cup {post[p].ex.id}]
  /\ stored' = stored \cup {post[p].ex}
  /\ EndPost(p)
  /\ UNCHANGED <<decisions, torn, pulled, posts, datasetFaults>>

(* The write tears, or writes the whole line and the fsync fails.          *)
FailStore(p) ==
  /\ post[p].step = "store" /\ ~store.broken /\ ~known(post[p].ex)
  /\ DatasetFault
  /\ \/ torn' = TRUE /\ UNCHANGED approvals
     \/ approvals' = Append(approvals, post[p].ex) /\ UNCHANGED torn
  /\ store' = [store EXCEPT !.broken = TRUE]
  /\ EndPost(p)
  /\ UNCHANGED <<decisions, synced, stored, pulled, posts>>

(* dataset.Open after the process died: the torn line is cut, the lines    *)
(* are loaded and not synced.                                              *)
ReopenDataset ==
  /\ DatasetFault
  /\ torn' = FALSE /\ store' = Opened(approvals)
  /\ post' = [p \in Posters |-> IdlePost]
  /\ UNCHANGED <<decisions, approvals, synced, stored, pulled, posts>>

(* The machine died: of the lines not synced, any prefix is left.          *)
LosePower ==
  /\ DatasetFault
  /\ \E n \in synced .. Len(approvals) :
       /\ approvals' = SubSeq(approvals, 1, n) /\ synced' = n
       /\ store' = Opened(SubSeq(approvals, 1, n))
  /\ torn' = FALSE
  /\ post' = [p \in Posters |-> IdlePost]
  /\ UNCHANGED <<decisions, stored, pulled, posts>>

-----------------------------------------------------------------------------
(* agentctl dataset export: approvals first, then the receipt chain.       *)

(* Mutant: the chain is fetched first.                                     *)
PullFirst_Chain ==
  /\ pulled.step = "none"
  /\ pulled' = [step |-> "half", first |-> Export(decisions)]
  /\ UNCHANGED <<decisions, approvals, torn, synced, store, post, stored, posts, datasetFaults>>

PullFirst ==
  /\ pulled.step = "none"
  /\ pulled' = [step |-> "half", first |-> [lines |-> approvals, torn |-> torn]]
  /\ UNCHANGED <<decisions, approvals, torn, synced, store, post, stored, posts, datasetFaults>>

PullSecond ==
  /\ pulled.step = "half"
  /\ pulled' = IF "lines" \in DOMAIN pulled.first
                 THEN [step |-> "done", approvals |-> pulled.first, chain |-> Export(decisions)]
                 ELSE [step |-> "done", approvals |-> [lines |-> approvals, torn |-> torn],
                       chain |-> pulled.first]
  /\ UNCHANGED <<decisions, approvals, torn, synced, store, post, stored, posts, datasetFaults>>

DatasetNext ==
  \/ AppendRecord \/ ReopenDataset \/ LosePower \/ PullFirst \/ PullSecond
  \/ \E p \in Posters :
       StartPost(p) \/ RefuseBroken(p) \/ RefuseDuplicate(p) \/ StoreExample(p) \/ FailStore(p)

-----------------------------------------------------------------------------
(* dataset.Verify of an export: every line parses, names a receipt of the  *)
(* chain no earlier line named, and binds to it.                           *)
Bound(lines, e) ==
  /\ \A i, j \in DOMAIN lines : lines[i].seq = lines[j].seq => i = j
  /\ \A i \in DOMAIN lines :
       /\ lines[i].seq \in DOMAIN e.receipts
       /\ Validate(lines[i], e.receipts[lines[i].seq], e.records[lines[i].seq].record)

(* agentctl dataset verify without --allow-prefix.                         *)
datasetVerdict(a, e) ==
  completenessVerdict(PrefixOK(e) /\ ~a.torn /\ Bound(a.lines, e), Complete(e), FALSE)

(* One decision, one example: whatever requests race, fail or repeat, the  *)
(* file never holds two examples for a receipt or for a pending id, each   *)
(* binds to a human receipt of the chain, and none shows more of the       *)
(* action than its capture mode allows.                                    *)
OneExamplePerDecision ==
  /\ \A i, j \in DOMAIN approvals :
       approvals[i].seq = approvals[j].seq \/ approvals[i].id = approvals[j].id => i = j
  /\ \A i \in DOMAIN approvals :
       /\ approvals[i].seq \in DOMAIN decisions
       /\ decisions[approvals[i].seq].approval.id = approvals[i].id
       /\ \A c \in {approvals[i].content} \cup {d.edited : d \in approvals[i].editDiff} :
            c.shown \in Sensitive => approvals[i].mode = "full"

(* An example answered 200 outlives restarts, failed writes of others and  *)
(* power losses.                                                           *)
StoredSurvives == stored \subseteq Range(approvals)

(* A dataset export taken while the chain and the dataset grow verifies,   *)
(* unless it caught the torn line of a broken store.                       *)
ExportBinds ==
  pulled.step = "done" /\ ~pulled.approvals.torn => datasetVerdict(pulled.approvals, pulled.chain)

(* Through racing, repeated and failing requests, restarts and power       *)
(* losses: one example per decision, kept once stored, bound to its chain. *)
DatasetIsSound == OneExamplePerDecision /\ StoredSurvives /\ ExportBinds

(* Exports a verifier may be handed: cut short, a record dropped, repeated *)
(* or replaced, with or without the manifest.                              *)
Presented(e) ==
  LET cut == {StripToPrefix(e, n) : n \in 0 .. Len(e.receipts)}
      cuts == cut \cup {[c EXCEPT !.manifest = e.manifest] : c \in cut}
      all == Range(e.records)
  IN  cuts \cup {[e EXCEPT !.records = SubSeq(@, 1, n)] : n \in 0 .. Len(e.records)}
           \cup {[e EXCEPT !.records = Append(@, l)] : l \in all}
           \cup {[e EXCEPT !.records = Append(@, [l EXCEPT !.seq = Len(e.records) + 1])] : l \in all}
           \cup {[e EXCEPT !.records[i].record = l.record] : i \in DOMAIN e.records, l \in all}
           \cup {[e EXCEPT !.receipts = SubSeq(@, 2, Len(@)), !.records = SubSeq(@, 2, Len(@))]}

(* A pass of agentctl receipts verify without --allow-prefix means the     *)
(* whole chain up to the export, each receipt with its one record.         *)
VerdictMeansWhole ==
  pulled.step = "done" =>
    \A e \in Presented(pulled.chain) :
      completenessVerdict(PrefixOK(e), Complete(e), FALSE) =>
        e.receipts = pulled.chain.receipts /\ ToSet(e.records) = ToSet(pulled.chain.records)
        /\ Len(e.records) = Len(e.receipts)
=============================================================================
