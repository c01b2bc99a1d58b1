---------------------------- MODULE AuditLedger ----------------------------
(***************************************************************************)
(* The audit ledger of pkg/audit and the audit-verify command: recorders   *)
(* that continue one hash chain across restarts and key rotations, over a  *)
(* backend whose answer may be lost, the heads they publish as             *)
(* checkpoints, and the verifier's verdict on a presented ledger.          *)
(*                                                                         *)
(* A hash is the tuple of what it covers, so it is injective; a signature  *)
(* is the key and the hash it signs.                                       *)
(***************************************************************************)
EXTENDS Naturals, Sequences, SequencesExt, FiniteSets

CONSTANTS
  Recorders,        \* processes that append
  Payloads,         \* entry contents
  Altered,          \* a content no recorder wrote
  KIDs,             \* signer key ids
  MaxEntries,       \* bound: entries of the ledger
  MaxLedgerEvents   \* bound: restarts, failed and unanswered appends

ASSUME LedgerAssumption ==
  KIDs # {} /\ Altered \notin Payloads /\ MaxEntries \in Nat /\ MaxLedgerEvents \in Nat

VARIABLES
  ledger,       \* the backend's entries
  recorder,     \* recorder[r]: kid, lastSeq, lastHash
  published,    \* checkpoints
  ledgerEvents

ledgerVars == <<ledger, recorder, published, ledgerEvents>>

ZeroHash == <<>>

-----------------------------------------------------------------------------
(* ChainHasher.                                                            *)

computeEntryHash(e) == <<e.seq, e.payload, e.prev>>

Hash(e, kid) ==
  LET h == computeEntryHash(e)
  IN  [seq |-> e.seq, payload |-> e.payload, prev |-> e.prev,
       kid |-> kid, hash |-> h, sig |-> <<kid, h>>]

Verify(e, prev) ==
  /\ e.prev = prev
  /\ e.hash = computeEntryHash(e)
  /\ e.sig = <<e.kid, e.hash>>

-----------------------------------------------------------------------------
(* The backend and the recorders.                                          *)

LedgerHead(l) == IF l = <<>> THEN [seq |-> 0, hash |-> ZeroHash]
                        ELSE [seq |-> Last(l).seq, hash |-> Last(l).hash]

(* Mutant: the sequence number is not compared.                            *)
inOrder_Any(e) == TRUE

(* The backend's Append refuses an entry out of order.                     *)
inOrder(e) == e.seq = Len(ledger) + 1

LedgerInit ==
  /\ ledger = <<>>
  /\ recorder = [r \in Recorders |-> [kid |-> CHOOSE k \in KIDs : TRUE, head |-> LedgerHead(<<>>)]]
  /\ published = {} /\ ledgerEvents = 0

LedgerEvent == ledgerEvents < MaxLedgerEvents /\ ledgerEvents' = ledgerEvents + 1

(* NewRecorder: a restart, possibly with a rotated key, loads the head.    *)
NewRecorder(r) ==
  /\ LedgerEvent
  /\ \E kid \in KIDs : recorder' = [recorder EXCEPT ![r] = [kid |-> kid, head |-> LedgerHead(ledger)]]
  /\ UNCHANGED <<ledger, published>>

(* Append.  On an error the recorder keeps its head, also when the backend *)
(* stored the entry: it is then refused until the recorder is reopened.    *)
AppendEntry(r, p) ==
  LET last == recorder[r].head
      e == Hash([seq |-> last.seq + 1, payload |-> p, prev |-> last.hash], recorder[r].kid)
  IN  /\ Len(ledger) < MaxEntries
      /\ \/ /\ inOrder(e)
            /\ ledger' = Append(ledger, e)
            /\ \/ /\ recorder' = [recorder EXCEPT ![r].head = [seq |-> e.seq, hash |-> e.hash]]
                  /\ UNCHANGED ledgerEvents
               \/ LedgerEvent /\ UNCHANGED recorder
         \/ /\ ~inOrder(e) /\ UNCHANGED <<ledger, recorder, ledgerEvents>>
      /\ UNCHANGED published

(* The checkpoint job publishes the head a recorder holds.                 *)
PublishHead(r) ==
  /\ recorder[r].head.seq > 0
  /\ published' = published \cup {recorder[r].head}
  /\ UNCHANGED <<ledger, recorder, ledgerEvents>>

LedgerNext ==
  \E r \in Recorders : NewRecorder(r) \/ PublishHead(r) \/ \E p \in Payloads : AppendEntry(r, p)

-----------------------------------------------------------------------------
(* The verifier and audit-verify.                                          *)

(* The lines of a JSONL dump: entries, comments and lines that do not      *)
(* parse.                                                                  *)
Comment == [line |-> "comment"]
Malformed == [line |-> "malformed"]
Line(e) == [line |-> "entry", entry |-> e]

(* Comments are skipped: entry k is the k-th line that is none.            *)
readJSONL(lines) ==
  LET kept == {i \in DOMAIN lines : lines[i].line # "comment"}
      rank(i) == Cardinality({j \in kept : j <= i})
  IN  [k \in 1 .. Cardinality(kept) |-> lines[CHOOSE i \in kept : rank(i) = k].entry]

(* Walk has no first error.                                                *)
Walk(keys, es) ==
  \A i \in DOMAIN es :
    /\ es[i].seq = i
    /\ es[i].kid \in keys
    /\ Verify(es[i], IF i = 1 THEN ZeroHash ELSE es[i - 1].hash)

(* Mutant: a checkpoint beyond the ledger is skipped.                      *)
VerifyCheckpoints_Known(es, cps) ==
  \A c \in cps : \A i \in DOMAIN es : es[i].seq = c.seq => es[i].hash = c.hash

VerifyCheckpoints(es, cps) ==
  \A c \in cps : \E i \in DOMAIN es : es[i].seq = c.seq /\ es[i].hash = c.hash

(* run: 2 for input it cannot read, 1 for a mismatch, 0 for a pass.        *)
exitCode(lines, keys, cps) ==
  CASE keys = {} \/ \E i \in DOMAIN lines : lines[i].line = "malformed" -> 2
    [] OTHER -> IF Walk(keys, readJSONL(lines)) /\ VerifyCheckpoints(readJSONL(lines), cps)
                  THEN 0 ELSE 1

-----------------------------------------------------------------------------
Dump(l) == [i \in DOMAIN l |-> Line(l[i])]

(* The chain the recorders leave always verifies, with every checkpoint    *)
(* published so far: two recorders, restarts, rotated keys and unanswered  *)
(* appends never fork it or orphan a checkpoint.                           *)
LedgerVerifies == exitCode(Dump(ledger), KIDs, published) = 0

(* Entries a dump can hold: those of the ledger, and those with another    *)
(* content or predecessor, their hash recomputed or not.                   *)
Presentable ==
  LET own == Range(ledger)
      edited == {[e EXCEPT !.payload = Altered] : e \in own}
                  \cup {[e EXCEPT !.prev = ZeroHash, !.seq = 1] : e \in own}
  IN  {Line(e) : e \in own \cup edited \cup {[e EXCEPT !.hash = computeEntryHash(e)] : e \in edited}}
        \cup {Comment, Malformed}

(* audit-verify passes only a dump that is a prefix of the ledger and      *)
(* reaches every published checkpoint: an entry dropped from the middle,   *)
(* repeated, moved or edited is found, and a tail cut below a checkpoint.  *)
VerifiedIsPrefix ==
  \A d \in SeqOf(Presentable, Len(ledger)) :
    exitCode(d, KIDs, published) = 0 =>
      /\ IsPrefix(readJSONL(d), ledger)
      /\ \A c \in published : c.seq <= Len(readJSONL(d))

(* audit-verify accepts what the recorders wrote, and nothing else.        *)
LedgerIsSound == LedgerVerifies /\ VerifiedIsPrefix
=============================================================================
