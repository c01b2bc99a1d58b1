----------------------------- MODULE LocalWriter -----------------------------
(***************************************************************************)
(* receipts.LocalWriter: the two files of the receipt writer, the fsyncs   *)
(* between its writes, and what an open makes of the files after a crash.  *)
(*                                                                         *)
(* A file is its complete lines, how many of them are known to be on disk, *)
(* and whether a partial line follows them.  A killed process leaves the   *)
(* file as it is (the kernel has it); a power loss keeps the synced lines  *)
(* and any number of the later ones.  An fsync makes every line of its     *)
(* file durable.  The entry hash of a receipt stands for everything it was *)
(* computed over: it is the sequence of all records up to the receipt's.   *)
(***************************************************************************)
EXTENDS Naturals, Sequences

CONSTANTS Records,     \* decision records
          MaxAppends,  \* bound: calls of Append that reach the files
          MaxCrashes   \* bound: kills and power losses

ASSUME WriterAssumption == Records # {} /\ MaxAppends \in Nat /\ MaxCrashes \in Nat

VARIABLES
  receipts,  \* receipts.jsonl
  records,   \* records.jsonl
  pc,        \* where the process is; w.mu makes Append one at a time
  chain,     \* receiptspec.Chain, in memory: the last seq and entry hash handed out
  next,      \* the receipt Append is storing
  returned,  \* the receipts Append returned, in order
  appends, crashes

files == <<receipts, records>>
vars == <<files, pc, chain, next, returned, appends, crashes>>

Steps == {"down", "repair", "ready", "record", "syncRecord", "receipt", "syncReceipt", "broken"}

Hashes == Seq(Records)
Receipts == [seq : Nat, prev : Hashes, rec : Records]
RecordLines == [seq : Nat, rec : Records]
Files(L) == [lines : Seq(L), synced : Nat, torn : BOOLEAN]

(* receiptspec.ComputeEntryHash *)
entryHash(r) == Append(r.prev, r.rec)

EmptyFile == [lines |-> <<>>, synced |-> 0, torn |-> FALSE]
NewChain(seq, head) == [seq |-> seq, head |-> head]
AnyReceipt == [seq |-> 0, prev |-> <<>>, rec |-> CHOOSE r \in Records : TRUE]

Init ==
  /\ receipts = EmptyFile /\ records = EmptyFile
  /\ pc = "down"
  /\ chain = NewChain(0, <<>>)
  /\ next = AnyReceipt
  /\ returned = <<>>
  /\ appends = 0 /\ crashes = 0

-----------------------------------------------------------------------------
(* open.                                                                   *)

(* Line i carries seq i and chains to the line before it.                  *)
consistent(lines) ==
  \A i \in DOMAIN lines :
    /\ lines[i].seq = i
    /\ lines[i].prev = IF i = 1 THEN <<>> ELSE entryHash(lines[i - 1])

(* Mutant: the cut is not synced, so the disk still has what was cut.      *)
truncateTo_Unsynced(f, n) == [f EXCEPT !.lines = SubSeq(f.lines, 1, n), !.torn = FALSE]

(* truncateTo: cut after n lines and fsync; nothing is done to a file that *)
(* ends there already.                                                     *)
truncateTo(f, n) ==
  IF n = Len(f.lines) /\ ~f.torn THEN f
  ELSE [lines |-> SubSeq(f.lines, 1, n), synced |-> n, torn |-> FALSE]

headOf(lines) ==
  IF lines = <<>> THEN NewChain(0, <<>>)
  ELSE NewChain(lines[Len(lines)].seq, entryHash(lines[Len(lines)]))

(* The receipts are read, checked and cut to their complete lines.  An     *)
(* inconsistent chain is not opened at all.                                *)
openReceipts ==
  /\ pc = "down"
  /\ consistent(receipts.lines)
  /\ receipts' = truncateTo(receipts, Len(receipts.lines))
  /\ chain' = headOf(receipts.lines)
  /\ pc' = "repair"
  /\ UNCHANGED <<records, next, returned, appends, crashes>>

(* The records before the first one whose seq is past the chain's.         *)
keptRecords(seq) ==
  LET past == {i \in DOMAIN records.lines : records.lines[i].seq > seq}
  IN  IF past = {} THEN Len(records.lines)
      ELSE (CHOOSE i \in past : \A j \in past : i <= j) - 1

openRecords ==
  /\ pc = "repair"
  /\ records' = truncateTo(records, keptRecords(chain.seq))
  /\ pc' = "ready"
  /\ UNCHANGED <<receipts, chain, next, returned, appends, crashes>>

-----------------------------------------------------------------------------
(* Append: the next receipt of the chain, then record line, fsync, receipt *)
(* line, fsync.                                                            *)

chainNext(rec) ==
  /\ pc = "ready"
  /\ appends < MaxAppends
  /\ appends' = appends + 1
  /\ next' = [seq |-> chain.seq + 1, prev |-> chain.head, rec |-> rec]
  /\ chain' = NewChain(chain.seq + 1, entryHash(next'))
  /\ pc' = "record"
  /\ UNCHANGED <<files, returned, crashes>>

(* A write puts the whole line in the file, or fails with a partial line   *)
(* or with nothing.                                                        *)
written(f, line) == [f EXCEPT !.lines = Append(@, line)]
partly(f) == {f, [f EXCEPT !.torn = TRUE]}
fsynced(f) == [f EXCEPT !.synced = Len(f.lines)]

recordLine == [seq |-> next.seq, rec |-> next.rec]

writeRecord ==
  /\ pc = "record"
  /\ \/ records' = written(records, recordLine) /\ pc' = "syncRecord"
     \/ records' \in partly(records) /\ pc' = "broken"
  /\ UNCHANGED <<receipts, chain, next, returned, appends, crashes>>

(* Mutant: the record is not synced before the receipt is written.         *)
syncRecord_Skipped ==
  /\ pc = "syncRecord"
  /\ pc' = "receipt"
  /\ UNCHANGED <<receipts, records, chain, next, returned, appends, crashes>>

syncRecord ==
  /\ pc = "syncRecord"
  /\ \/ records' = fsynced(records) /\ pc' = "receipt"
     \/ records' = records /\ pc' = "broken"
  /\ UNCHANGED <<receipts, chain, next, returned, appends, crashes>>

(* Mutant: a failed receipt write does not break the writer.               *)
writeReceipt_Unbroken ==
  /\ pc = "receipt"
  /\ \/ receipts' = written(receipts, next) /\ pc' = "syncReceipt"
     \/ receipts' \in partly(receipts) /\ pc' = "ready"
  /\ UNCHANGED <<records, chain, next, returned, appends, crashes>>

writeReceipt ==
  /\ pc = "receipt"
  /\ \/ receipts' = written(receipts, next) /\ pc' = "syncReceipt"
     \/ receipts' \in partly(receipts) /\ pc' = "broken"
  /\ UNCHANGED <<records, chain, next, returned, appends, crashes>>

(* Mutant: Append returns whether or not the fsync succeeded.              *)
syncReceipt_Unchecked ==
  /\ pc = "syncReceipt"
  /\ receipts' \in {receipts, fsynced(receipts)}
  /\ pc' = "ready"
  /\ returned' = Append(returned, next)
  /\ UNCHANGED <<records, chain, next, appends, crashes>>

syncReceipt ==
  /\ pc = "syncReceipt"
  /\ \/ receipts' = fsynced(receipts) /\ pc' = "ready" /\ returned' = Append(returned, next)
     \/ receipts' = receipts /\ pc' = "broken" /\ returned' = returned
  /\ UNCHANGED <<records, chain, next, appends, crashes>>

-----------------------------------------------------------------------------
(* Failures.                                                               *)

Crash == crashes < MaxCrashes /\ crashes' = crashes + 1

(* The process is shut down, is killed, or fails to open.                  *)
Kill ==
  /\ Crash
  /\ pc # "down"
  /\ pc' = "down"
  /\ UNCHANGED <<files, chain, next, returned, appends>>

(* Mutant: healthz does not look at broken.                                *)
LivenessProbe_Healthy == FALSE /\ UNCHANGED vars

(* Ready is false for a broken writer, so GET /healthz fails and the       *)
(* liveness probe has the process restarted.                               *)
LivenessProbe ==
  /\ pc = "broken"
  /\ pc' = "down"
  /\ UNCHANGED <<files, chain, next, returned, appends, crashes>>

(* What a power loss may leave of a file.                                  *)
Survivors(f) ==
  UNION {{[lines |-> SubSeq(f.lines, 1, n), synced |-> n, torn |-> t] :
             t \in {FALSE, f.torn \/ n < Len(f.lines)}} : n \in f.synced .. Len(f.lines)}

PowerLoss ==
  /\ Crash
  /\ receipts' \in Survivors(receipts)
  /\ records' \in Survivors(records)
  /\ pc' = "down"
  /\ UNCHANGED <<chain, next, returned, appends>>

Append_ == writeRecord \/ syncRecord \/ writeReceipt \/ syncReceipt
Open == openReceipts \/ openRecords

Next == Open \/ (\E rec \in Records : chainNext(rec)) \/ Append_ \/ LivenessProbe \/ Kill \/ PowerLoss

Spec == Init /\ [][Next]_vars

(* A running Append goes on, the kubelet starts a stopped container and    *)
(* probes a running one.  Nothing makes anyone append, or crash.           *)
FairSpec == Spec /\ WF_vars(Open) /\ WF_vars(Append_) /\ WF_vars(LivenessProbe)

-----------------------------------------------------------------------------
(* Properties.                                                             *)

TypeOK ==
  /\ receipts \in Files(Receipts)
  /\ records \in Files(RecordLines)
  /\ receipts.synced <= Len(receipts.lines) /\ records.synced <= Len(records.lines)
  /\ pc \in Steps
  /\ chain \in [seq : Nat, head : Hashes]
  /\ next \in Receipts
  /\ returned \in Seq(Receipts)
  /\ appends \in 0 .. MaxAppends /\ crashes \in 0 .. MaxCrashes

hasRecord(r, n) ==
  \E j \in 1 .. n : records.lines[j] = [seq |-> r.seq, rec |-> r.rec]

(* "A crash never leaves a receipt without its record": at any moment, and *)
(* whatever a power loss may take, a complete receipt line has its record  *)
(* among the synced ones.                                                  *)
ReceiptHasRecord ==
  \A i \in DOMAIN receipts.lines : hasRecord(receipts.lines[i], records.synced)

(* A receipt that Append returned is on disk, in its place, for good.      *)
ReturnedIsDurable ==
  \A i \in DOMAIN returned :
    LET r == returned[i]
    IN  r.seq \in 1 .. receipts.synced /\ receipts.lines[r.seq] = r

(* The writer never writes itself into a chain it would refuse to resume,  *)
(* and when it is ready the files hold what it believes: the head is the   *)
(* last receipt, every receipt has exactly one record, nothing is torn.    *)
AlwaysResumable ==
  /\ consistent(receipts.lines)
  /\ pc = "ready" =>
       /\ chain = headOf(receipts.lines)
       /\ ~receipts.torn /\ ~records.torn
       /\ records.lines = [i \in DOMAIN receipts.lines |->
                             [seq |-> i, rec |-> receipts.lines[i].rec]]

(* Through failed and partial writes, crashes, kills and power losses:     *)
(* what was returned stays, every receipt has its record, and the files    *)
(* are ones the writer resumes from.                                       *)
ChainIsSound == TypeOK /\ ReturnedIsDurable /\ ReceiptHasRecord /\ AlwaysResumable

(* The writer implements the chain its callers rely on.                    *)
lastReturned == IF returned = <<>> THEN 0 ELSE returned[Len(returned)].seq
Abstract == INSTANCE ReceiptChain WITH
              stored <- [i \in DOMAIN receipts.lines |-> receipts.lines[i].rec],
              acked <- lastReturned
ImplementsChain == Abstract!Spec

(* A broken writer does not stay broken: it is restarted, opens what it    *)
(* left behind and is ready again, if the crashes end.                     *)
WriterRecovers == pc = "broken" ~> pc = "ready"
=============================================================================
