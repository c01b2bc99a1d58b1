---------------------------- MODULE DecisionView ----------------------------
(***************************************************************************)
(* The decision pages of agentctl-web over pkg/decisionview: a loader that *)
(* verifies a receipt export, builds the view a page shows, and caches it  *)
(* through outages of the source.                                          *)
(***************************************************************************)
EXTENDS ReceiptRecords

CONSTANTS
  ViewTTL,       \* Loader.TTL
  Pinned,        \* a trust root is pinned
  MaxViewTime,   \* bound: clock
  MaxViewed      \* bound: receipts of the source

ASSUME ViewAssumption ==
  ViewTTL \in Nat \ {0} /\ Pinned \in BOOLEAN /\ MaxViewTime \in Nat /\ MaxViewed \in Nat

VARIABLES
  source,     \* the records of the source's chain, and when each was appended
  cut,        \* the export on disk lost its manifest and its last receipt
  sourceUp,   \* Source.Load answers
  loader,     \* last, have, lastTry
  page,       \* the view a page shows, its status and when
  viewClock

viewVars == <<source, cut, sourceUp, loader, page, viewClock>>

Never == MaxViewTime + 1

EmptyView == [rows |-> {}, held |-> {}, ok |-> FALSE, complete |-> FALSE, error |-> TRUE, err |-> FALSE]

NoPage == [view |-> EmptyView, status |-> "failed", at |-> 0]

ViewInit ==
  /\ source = [records |-> <<>>, when |-> <<>>] /\ cut = FALSE /\ sourceUp \in BOOLEAN
  /\ loader = [last |-> EmptyView, have |-> FALSE, lastTry |-> Never]
  /\ page = NoPage /\ viewClock = 0

-----------------------------------------------------------------------------
(* The source.                                                             *)

SourceAppends ==
  /\ Len(source.records) < MaxViewed
  /\ \E rec \in {NewDecisionRecord([outcome |-> "require_approval", layer |-> "pack"], "a")}
                  \cup {NewHumanRecord([label |-> "approve", approver |-> "alice", id |-> i,
                                        original |-> i], "a") :
                        i \in {k \in DOMAIN source.records : source.records[k].layer # "human"}} :
       source' = [records |-> Append(source.records, rec), when |-> Append(source.when, viewClock)]
  /\ UNCHANGED <<cut, sourceUp, loader, page, viewClock>>

SourceFlips ==
  /\ sourceUp' = ~sourceUp
  /\ UNCHANGED <<source, cut, loader, page, viewClock>>

SourceCut ==
  /\ source.records # <<>> /\ cut' = ~cut
  /\ UNCHANGED <<source, sourceUp, loader, page, viewClock>>

Loaded == IF cut THEN StripToPrefix(Export(source.records), 1) ELSE Export(source.records)

-----------------------------------------------------------------------------
(* decisionview.Build: the rows, and those no human decision has answered. *)
Build(e) ==
  LET answered == {e.records[j].record.approval.original : j \in DOMAIN e.records}
      rows == {e.receipts[i].seq : i \in DOMAIN e.receipts}
  IN  IF VerifyBundle(e)
        THEN [rows |-> rows,
              held |-> {i \in DOMAIN e.receipts :
                          e.records[i].record.outcome = "require_approval"} \ answered,
              ok |-> VerifyRecords(e), complete |-> Complete(e), error |-> FALSE, err |-> FALSE]
        ELSE EmptyView

viewStatus(v) ==
  IF v.error \/ ~v.ok THEN "failed"
  ELSE IF ~Pinned THEN "consistent"
  ELSE IF v.complete THEN "verified" ELSE "partial"

(* Loader.Current.                                                         *)
fresh == loader.lastTry # Never /\ viewClock - loader.lastTry < ViewTTL

(* Mutant: a failed refresh returns the last view as it was.               *)
refreshed_Quiet ==
  IF sourceUp THEN [last |-> Build(Loaded), have |-> TRUE, lastTry |-> viewClock]
  ELSE IF loader.have THEN [loader EXCEPT !.lastTry = viewClock]
  ELSE [loader EXCEPT !.last = [EmptyView EXCEPT !.err = TRUE], !.lastTry = viewClock]

refreshed ==
  IF sourceUp THEN [last |-> Build(Loaded), have |-> TRUE, lastTry |-> viewClock]
  ELSE IF loader.have THEN [loader EXCEPT !.last.err = TRUE, !.lastTry = viewClock]
  ELSE [loader EXCEPT !.last = [EmptyView EXCEPT !.err = TRUE], !.lastTry = viewClock]

Current ==
  /\ loader' = IF fresh THEN loader ELSE refreshed
  /\ page' = [view |-> loader'.last, status |-> viewStatus(loader'.last), at |-> viewClock]
  /\ UNCHANGED <<source, cut, sourceUp, viewClock>>

ViewTick ==
  /\ viewClock < MaxViewTime /\ viewClock' = viewClock + 1
  /\ UNCHANGED <<source, cut, sourceUp, loader, page>>

ViewNext == SourceAppends \/ SourceFlips \/ SourceCut \/ Current \/ ViewTick

-----------------------------------------------------------------------------
(* A page that says "Verified" and reports no failed refresh shows every   *)
(* receipt that was in the chain a TTL before, and shows no decision as    *)
(* held that a human had answered by then: an outage or a cut export makes *)
(* it say so.                                                              *)
VerifiedIsCurrent ==
  LET old == {i \in DOMAIN source.when : source.when[i] + ViewTTL <= page.at}
  IN  page.status = "verified" /\ ~page.view.err =>
        /\ Pinned
        /\ old \subseteq page.view.rows
        /\ \A i \in old : source.records[i].approval.original \notin page.view.held
=============================================================================
