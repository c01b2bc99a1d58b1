-------------------------- MODULE LocalWriterProofs --------------------------
(***************************************************************************)
(* For any records, any number of appends and any number of crashes: the   *)
(* two files of the receipt writer stay sound, and the writer implements   *)
(* ReceiptChain, the chain its callers rely on.                            *)
(***************************************************************************)
EXTENDS LocalWriter, TLAPS

-----------------------------------------------------------------------------
(* The inductive invariant.                                                *)

(* Record j carries seq j, every receipt has its record in the same place, *)
(* and that record is synced.                                              *)
Recorded ==
  /\ Len(receipts.lines) <= records.synced
  /\ \A j \in 1 .. Len(records.lines) : records.lines[j].seq = j
  /\ \A i \in 1 .. Len(receipts.lines) : records.lines[i].rec = receipts.lines[i].rec

Whole == ~receipts.torn /\ ~records.torn

(* Between two appends: the head in memory is the one on disk, and neither *)
(* file is ahead of the other.                                             *)
Settled ==
  /\ Whole
  /\ chain = headOf(receipts.lines)
  /\ Len(records.lines) = Len(receipts.lines)

(* Append is storing next, which extends the chain on disk.                *)
Storing ==
  /\ Whole
  /\ next.seq = Len(receipts.lines) + 1
  /\ next.prev = headOf(receipts.lines).head
  /\ chain = NewChain(next.seq, entryHash(next))

(* The record of next is the last line of records.jsonl.                   *)
RecordWritten ==
  /\ Len(records.lines) = Len(receipts.lines) + 1
  /\ records.lines[Len(records.lines)] = recordLine

(* What the memory of the process knows of the files, step by step.        *)
AtStep ==
  /\ pc = "repair" => ~receipts.torn /\ chain = headOf(receipts.lines)
  /\ pc \in {"ready", "syncReceipt"} => Settled
  /\ pc = "syncReceipt" =>
       /\ receipts.lines # <<>> /\ next = receipts.lines[Len(receipts.lines)]
       /\ receipts.synced < Len(receipts.lines)
  /\ pc \in {"record", "syncRecord", "receipt"} => Storing
  /\ pc = "record" => Len(records.lines) = Len(receipts.lines)
  /\ pc \in {"syncRecord", "receipt"} => RecordWritten
  /\ pc = "receipt" => records.synced = Len(records.lines)

Inv == TypeOK /\ consistent(receipts.lines) /\ Recorded /\ ReturnedIsDurable /\ AtStep

-----------------------------------------------------------------------------
(* What the operators on files and lines return.                           *)

(* The first n elements of a sequence.                                     *)
LEMMA CutProperties ==
  ASSUME NEW S, NEW s \in Seq(S), NEW n \in 0 .. Len(s)
  PROVE  /\ SubSeq(s, 1, n) \in Seq(S)
         /\ Len(SubSeq(s, 1, n)) = n
         /\ DOMAIN SubSeq(s, 1, n) = 1 .. n
         /\ \A i \in 1 .. n : SubSeq(s, 1, n)[i] = s[i]
  OBVIOUS

(* Cutting nothing off changes nothing.                                    *)
LEMMA CutNothing ==
  ASSUME NEW S, NEW s \in Seq(S)
  PROVE  SubSeq(s, 1, Len(s)) = s
  OBVIOUS

(* One more element at the end.                                            *)
LEMMA AppendProperties ==
  ASSUME NEW S, NEW s \in Seq(S), NEW e \in S
  PROVE  /\ Append(s, e) \in Seq(S)
         /\ Len(Append(s, e)) = Len(s) + 1
         /\ Append(s, e) # <<>>
         /\ \A i \in 1 .. Len(s) : Append(s, e)[i] = s[i]
         /\ Append(s, e)[Len(s) + 1] = e
  OBVIOUS

(* The entry hash is a hash.                                               *)
LEMMA EntryHashType ==
  ASSUME NEW r \in Receipts
  PROVE  entryHash(r) \in Hashes
  BY DEF entryHash, Receipts, Hashes

(* The head of a consistent chain is its last line.                        *)
LEMMA HeadProperties ==
  ASSUME NEW s \in Seq(Receipts), consistent(s)
  PROVE  /\ headOf(s) \in [seq : Nat, head : Hashes]
         /\ headOf(s).seq = Len(s)
         /\ headOf(s).head = IF Len(s) = 0 THEN <<>> ELSE entryHash(s[Len(s)])
<1>1. CASE s = <<>>
  BY <1>1 DEF headOf, NewChain, Hashes
<1>2. CASE s # <<>>
  <2>1. Len(s) \in 1 .. Len(s) /\ DOMAIN s = 1 .. Len(s) /\ s[Len(s)] \in Receipts /\ Len(s) # 0
    BY <1>2
  <2>2. s[Len(s)].seq = Len(s)
    BY <2>1 DEF consistent
  <2> QED
    BY <1>2, <2>1, <2>2, EntryHashType DEF headOf, NewChain
<1> QED
  BY <1>1, <1>2

(* What is left of a consistent chain is consistent.                       *)
LEMMA ConsistentCut ==
  ASSUME NEW s \in Seq(Receipts), consistent(s), NEW n \in 0 .. Len(s)
  PROVE  consistent(SubSeq(s, 1, n))
<1> DEFINE t == SubSeq(s, 1, n)
<1>1. DOMAIN t = 1 .. n /\ \A i \in 1 .. n : t[i] = s[i]
  BY CutProperties
<1>2. DOMAIN s = 1 .. Len(s)
  OBVIOUS
<1> HIDE DEF t
<1>3. ASSUME NEW i \in 1 .. n
      PROVE  t[i].seq = i /\ t[i].prev = IF i = 1 THEN <<>> ELSE entryHash(t[i - 1])
  <2>1. i \in 1 .. Len(s) /\ (i # 1 => i - 1 \in 1 .. n)
    OBVIOUS
  <2> QED
    BY <1>1, <1>2, <2>1 DEF consistent
<1> QED
  BY <1>1, <1>3 DEF consistent, t

(* A chain extended by what Chain.Next hands out is consistent, and that   *)
(* is its head.                                                            *)
LEMMA ConsistentAppend ==
  ASSUME NEW s \in Seq(Receipts), consistent(s), NEW r \in Receipts,
         r.seq = Len(s) + 1, r.prev = headOf(s).head
  PROVE  /\ consistent(Append(s, r))
         /\ headOf(Append(s, r)) = NewChain(r.seq, entryHash(r))
<1> DEFINE t == Append(s, r)
<1>1. /\ t \in Seq(Receipts) /\ Len(t) = Len(s) + 1 /\ DOMAIN t = 1 .. Len(s) + 1 /\ t # <<>>
      /\ \A i \in 1 .. Len(s) : t[i] = s[i]
      /\ t[Len(s) + 1] = r
  BY AppendProperties
<1>2. DOMAIN s = 1 .. Len(s)
  OBVIOUS
<1>3. headOf(s).head = IF Len(s) = 0 THEN <<>> ELSE entryHash(s[Len(s)])
  BY HeadProperties
<1> HIDE DEF t
<1>4. ASSUME NEW i \in 1 .. Len(s) + 1
      PROVE  t[i].seq = i /\ t[i].prev = IF i = 1 THEN <<>> ELSE entryHash(t[i - 1])
  <2>1. CASE i = Len(s) + 1
    <3>1. i # 1 => i - 1 = Len(s) /\ Len(s) \in 1 .. Len(s)
      BY <2>1
    <3> QED
      BY <1>1, <1>3, <2>1, <3>1
  <2>2. CASE i # Len(s) + 1
    <3>1. i \in 1 .. Len(s) /\ (i # 1 => i - 1 \in 1 .. Len(s))
      BY <2>2
    <3> QED
      BY <1>1, <1>2, <3>1 DEF consistent
  <2> QED
    BY <2>1, <2>2
<1>5. consistent(t)
  BY <1>1, <1>4 DEF consistent
<1>6. headOf(t) = NewChain(r.seq, entryHash(r))
  BY <1>1 DEF headOf
<1> QED
  BY <1>5, <1>6 DEF t

(* truncateTo: the first n lines, nothing torn, and nothing durable that   *)
(* is kept becomes less durable.                                           *)
LEMMA TruncateProperties ==
  ASSUME NEW L, NEW f \in Files(L), f.synced <= Len(f.lines), NEW n \in 0 .. Len(f.lines)
  PROVE  /\ truncateTo(f, n) \in Files(L)
         /\ truncateTo(f, n).lines = SubSeq(f.lines, 1, n)
         /\ ~truncateTo(f, n).torn
         /\ truncateTo(f, n).synced <= n
         /\ \A k \in 0 .. n : k <= f.synced => k <= truncateTo(f, n).synced
<1>1. f.lines \in Seq(L) /\ f.synced \in Nat /\ f.torn \in BOOLEAN
  BY DEF Files
<1>2. CASE n = Len(f.lines) /\ ~f.torn
  BY <1>1, <1>2, CutNothing DEF truncateTo
<1>3. CASE ~(n = Len(f.lines) /\ ~f.torn)
  <2>1. truncateTo(f, n) = [lines |-> SubSeq(f.lines, 1, n), synced |-> n, torn |-> FALSE]
    BY <1>3 DEF truncateTo
  <2>2. SubSeq(f.lines, 1, n) \in Seq(L)
    BY <1>1, CutProperties
  <2> QED
    BY <2>1, <2>2 DEF Files
<1> QED
  BY <1>2, <1>3

(* What a power loss leaves of a file: a prefix with every synced line.    *)
LEMMA SurvivorProperties ==
  ASSUME NEW L, NEW f \in Files(L), f.synced <= Len(f.lines), NEW g \in Survivors(f)
  PROVE  /\ g \in Files(L)
         /\ g.synced \in f.synced .. Len(f.lines)
         /\ g.lines = SubSeq(f.lines, 1, g.synced)
         /\ Len(g.lines) = g.synced
<1>1. f.lines \in Seq(L) /\ f.synced \in Nat /\ f.torn \in BOOLEAN
  BY DEF Files
<1>2. PICK n \in f.synced .. Len(f.lines), t \in BOOLEAN :
             g = [lines |-> SubSeq(f.lines, 1, n), synced |-> n, torn |-> t]
  BY <1>1 DEF Survivors
<1>3. n \in 0 .. Len(f.lines)
  BY <1>1
<1>4. SubSeq(f.lines, 1, n) \in Seq(L) /\ Len(SubSeq(f.lines, 1, n)) = n
  BY <1>1, <1>3, CutProperties
<1> QED
  BY <1>1, <1>2, <1>3, <1>4 DEF Files

(* The records that are kept are those of the chain.                       *)
LEMMA KeptProperties ==
  ASSUME records.lines \in Seq(RecordLines), NEW n \in 0 .. Len(records.lines),
         \A j \in 1 .. Len(records.lines) : records.lines[j].seq = j
  PROVE  keptRecords(n) = n
<1> DEFINE past == {i \in DOMAIN records.lines : records.lines[i].seq > n}
           first == CHOOSE i \in past : \A j \in past : i <= j
<1>1. DOMAIN records.lines = 1 .. Len(records.lines)
  OBVIOUS
<1>2. \A i : i \in past <=> i \in 1 .. Len(records.lines) /\ i > n
  BY <1>1
<1>3. CASE n = Len(records.lines)
  <2>1. past = {}
    BY <1>2, <1>3
  <2> QED
    BY <1>3, <2>1 DEF keptRecords
<1>4. CASE n # Len(records.lines)
  <2> HIDE DEF past
  <2>1. n + 1 \in past /\ \A j \in past : n + 1 <= j
    BY <1>2, <1>4
  <2>2. first \in past /\ \A j \in past : first <= j
    BY <2>1
  <2>3. first = n + 1
    BY <1>2, <2>1, <2>2
  <2>4. keptRecords(n) = IF past = {} THEN Len(records.lines) ELSE first - 1
    BY DEF keptRecords, past
  <2> HIDE DEF first
  <2> QED
    BY <2>1, <2>3, <2>4
<1> QED
  BY <1>3, <1>4

-----------------------------------------------------------------------------
(* The invariant holds initially and every step keeps it.                  *)

(* The parts of the type invariant that the steps use.                     *)
LEMMA Types ==
  ASSUME TypeOK
  PROVE  /\ receipts \in Files(Receipts) /\ receipts.lines \in Seq(Receipts)
         /\ receipts.synced \in Nat /\ receipts.torn \in BOOLEAN
         /\ receipts.synced <= Len(receipts.lines)
         /\ DOMAIN receipts.lines = 1 .. Len(receipts.lines)
         /\ records \in Files(RecordLines) /\ records.lines \in Seq(RecordLines)
         /\ records.synced \in Nat /\ records.torn \in BOOLEAN
         /\ records.synced <= Len(records.lines)
         /\ DOMAIN records.lines = 1 .. Len(records.lines)
         /\ Len(receipts.lines) \in Nat /\ Len(records.lines) \in Nat
         /\ next.seq \in Nat /\ next.prev \in Hashes /\ next.rec \in Records
         /\ returned \in Seq(Receipts) /\ DOMAIN returned = 1 .. Len(returned)
  BY DEF TypeOK, Files, Receipts

LEMMA InitInv == Init => Inv
<1> SUFFICES ASSUME Init PROVE Inv
  OBVIOUS
<1>1. AnyReceipt \in Receipts
  BY WriterAssumption DEF AnyReceipt, Receipts, Hashes
<1>2. EmptyFile \in Files(Receipts) /\ EmptyFile \in Files(RecordLines)
  BY DEF EmptyFile, Files
<1>3. EmptyFile.lines = <<>> /\ EmptyFile.synced = 0
  BY DEF EmptyFile
<1>4. TypeOK
  BY <1>1, <1>2, <1>3, WriterAssumption DEF Init, TypeOK, Steps, NewChain, Hashes
<1>5. consistent(receipts.lines) /\ Recorded /\ ReturnedIsDurable /\ AtStep
  BY <1>3 DEF Init, consistent, Recorded, ReturnedIsDurable, AtStep
<1> QED
  BY <1>4, <1>5 DEF Inv

(* A step that touches neither file nor what was returned.                 *)
LEMMA FilesKept ==
  ASSUME Inv, TypeOK', AtStep', UNCHANGED <<receipts, records, returned>>
  PROVE  Inv'
  BY DEF Inv, Recorded, ReturnedIsDurable, consistent, entryHash

(* Synced lines that stay synced and in their place keep what was returned. *)
LEMMA DurableKept ==
  ASSUME Inv, TypeOK', returned' = returned, receipts.synced <= receipts'.synced,
         \A i \in 1 .. receipts.synced : receipts'.lines[i] = receipts.lines[i]
  PROVE  ReturnedIsDurable'
<1>1. receipts.synced \in Nat /\ receipts'.synced \in Nat
  BY DEF Inv, TypeOK, Files
<1>2. ASSUME NEW i \in DOMAIN returned
      PROVE  /\ returned[i].seq \in 1 .. receipts'.synced
             /\ receipts'.lines[returned[i].seq] = returned[i]
  <2>1. /\ returned[i].seq \in 1 .. receipts.synced
        /\ receipts.lines[returned[i].seq] = returned[i]
    BY DEF Inv, ReturnedIsDurable
  <2> QED
    BY <1>1, <2>1
<1> QED
  BY <1>2 DEF ReturnedIsDurable

(* Opening cuts a torn line only.                                          *)
LEMMA OpenReceiptsStep ==
  ASSUME Inv, openReceipts
  PROVE  Inv'
<1> USE DEF Inv
<1>1. /\ receipts'.lines = receipts.lines /\ ~receipts'.torn /\ receipts' \in Files(Receipts)
      /\ receipts'.synced <= Len(receipts.lines) /\ receipts.synced <= receipts'.synced
  <2>1. Len(receipts.lines) \in 0 .. Len(receipts.lines) /\ receipts.synced \in 0 .. Len(receipts.lines)
    BY Types
  <2> QED
    BY Types, <2>1, TruncateProperties, CutNothing DEF openReceipts
<1>2. headOf(receipts.lines) \in [seq : Nat, head : Hashes]
  BY Types, HeadProperties
<1>3. TypeOK'
  BY Types, <1>1, <1>2 DEF TypeOK, openReceipts, Steps
<1>4. consistent(receipts.lines)' /\ Recorded'
  BY <1>1 DEF openReceipts, consistent, Recorded, entryHash
<1>5. ReturnedIsDurable'
  BY Types, <1>1, <1>3, DurableKept DEF openReceipts
<1>6. AtStep'
  BY <1>1 DEF openReceipts, AtStep, headOf, entryHash, NewChain
<1> QED
  BY <1>3, <1>4, <1>5, <1>6

(* Repairing the records cuts those past the chain.                        *)
LEMMA OpenRecordsStep ==
  ASSUME Inv, openRecords
  PROVE  Inv'
<1> USE DEF Inv
<1> DEFINE n == Len(receipts.lines)
<1>1. chain = headOf(receipts.lines) /\ chain.seq = n /\ ~receipts.torn
  BY Types, HeadProperties DEF openRecords, AtStep
<1>2. n \in 0 .. Len(records.lines) /\ n <= records.synced
  BY Types DEF Recorded
<1>3. keptRecords(chain.seq) = n
  BY Types, <1>1, <1>2, KeptProperties DEF Recorded
<1>4. /\ records' \in Files(RecordLines) /\ ~records'.torn
      /\ records'.lines = SubSeq(records.lines, 1, n)
      /\ records'.synced <= n /\ n <= records'.synced
  BY Types, <1>2, <1>3, TruncateProperties DEF openRecords
<1>5. /\ Len(records'.lines) = n
      /\ \A i \in 1 .. n : records'.lines[i] = records.lines[i]
  BY Types, <1>2, <1>4, CutProperties
<1>6. TypeOK'
  BY <1>4, <1>5 DEF TypeOK, openRecords, Steps
<1>7. consistent(receipts.lines)' /\ ReturnedIsDurable'
  BY DEF openRecords, consistent, ReturnedIsDurable, entryHash
<1>8. Recorded'
  BY Types, <1>2, <1>4, <1>5 DEF openRecords, Recorded
<1>9. AtStep'
  BY <1>1, <1>4, <1>5 DEF openRecords, AtStep, Settled, Whole, headOf, entryHash, NewChain
<1> QED
  BY <1>6, <1>7, <1>8, <1>9

(* Chain.Next hands out the receipt that extends the chain on disk.        *)
LEMMA ChainNextStep ==
  ASSUME Inv, NEW rec \in Records, chainNext(rec)
  PROVE  Inv'
<1> USE DEF Inv
<1>1. Settled /\ chain.seq = Len(receipts.lines) /\ chain.head = headOf(receipts.lines).head
  BY Types, HeadProperties DEF chainNext, AtStep, Settled
<1>2. chain.seq \in Nat /\ chain.head \in Hashes
  BY DEF TypeOK
<1>3. next' \in Receipts
  BY <1>2 DEF chainNext, Receipts
<1>4. entryHash(next') \in Hashes
  BY <1>3, EntryHashType
<1>5. TypeOK'
  BY <1>2, <1>3, <1>4, WriterAssumption DEF chainNext, TypeOK, files, Steps, NewChain
<1>6. AtStep'
  BY <1>1, <1>2, <1>3
  DEF chainNext, AtStep, Settled, Storing, Whole, files, headOf, entryHash, NewChain
<1> QED
  BY <1>5, <1>6, FilesKept DEF chainNext, files

(* A line is written, or the writer is broken with the file as it was but  *)
(* perhaps torn.                                                           *)
LEMMA WriteRecordStep ==
  ASSUME Inv, writeRecord
  PROVE  Inv'
<1> USE DEF Inv
<1>1. Storing /\ Len(records.lines) = Len(receipts.lines)
  BY DEF writeRecord, AtStep
<1>2. recordLine \in RecordLines /\ recordLine.seq = next.seq
  BY Types DEF recordLine, RecordLines
<1>3. consistent(receipts.lines)' /\ ReturnedIsDurable'
  BY DEF writeRecord, consistent, ReturnedIsDurable, entryHash
<1>4. CASE records' = written(records, recordLine) /\ pc' = "syncRecord"
  <2>1. /\ records' \in Files(RecordLines) /\ records'.torn = records.torn
        /\ records'.synced = records.synced
        /\ records'.lines = Append(records.lines, recordLine)
    BY Types, <1>2, <1>4, AppendProperties DEF written, Files
  <2>2. /\ Len(records'.lines) = Len(records.lines) + 1
        /\ \A i \in 1 .. Len(records.lines) : records'.lines[i] = records.lines[i]
        /\ records'.lines[Len(records.lines) + 1] = recordLine
    BY Types, <1>2, <2>1, AppendProperties
  <2>3. TypeOK'
    BY Types, <1>4, <2>1, <2>2 DEF TypeOK, writeRecord, Steps
  <2>4. Recorded'
    BY Types, <1>1, <1>2, <2>1, <2>2 DEF Recorded, writeRecord, Storing
  <2>5. AtStep'
    BY Types, <1>1, <1>4, <2>1, <2>2
    DEF AtStep, writeRecord, Storing, RecordWritten, Whole, headOf, entryHash, NewChain, recordLine
  <2> QED
    BY <1>3, <2>3, <2>4, <2>5
<1>5. CASE records' \in partly(records) /\ pc' = "broken"
  <2>1. /\ records' \in Files(RecordLines) /\ records'.synced = records.synced
        /\ records'.lines = records.lines
    BY Types, <1>5 DEF partly, Files
  <2>2. TypeOK'
    BY Types, <1>5, <2>1 DEF TypeOK, writeRecord, Steps
  <2> QED
    BY <1>3, <1>5, <2>1, <2>2 DEF Recorded, AtStep, writeRecord
<1> QED
  BY <1>4, <1>5 DEF writeRecord

(* The record is durable before its receipt is written.                    *)
LEMMA SyncRecordStep ==
  ASSUME Inv, syncRecord
  PROVE  Inv'
<1> USE DEF Inv
<1>1. Storing /\ RecordWritten
  BY DEF syncRecord, AtStep
<1>2. consistent(receipts.lines)' /\ ReturnedIsDurable'
  BY DEF syncRecord, consistent, ReturnedIsDurable, entryHash
<1>3. CASE records' = fsynced(records) /\ pc' = "receipt"
  <2>1. /\ records' \in Files(RecordLines) /\ records'.lines = records.lines
        /\ records'.torn = records.torn /\ records'.synced = Len(records.lines)
    BY Types, <1>3 DEF fsynced, Files
  <2>2. TypeOK'
    BY Types, <1>3, <2>1 DEF TypeOK, syncRecord, Steps
  <2>3. Recorded'
    BY Types, <1>1, <2>1 DEF Recorded, RecordWritten, syncRecord
  <2>4. AtStep'
    BY Types, <1>1, <1>3, <2>1
    DEF AtStep, syncRecord, Storing, RecordWritten, Whole, headOf, entryHash, NewChain, recordLine
  <2> QED
    BY <1>2, <2>2, <2>3, <2>4
<1>4. CASE records' = records /\ pc' = "broken"
  <2>1. TypeOK' /\ AtStep'
    BY <1>4 DEF TypeOK, AtStep, syncRecord, Steps
  <2> QED
    BY <1>4, <2>1, FilesKept DEF syncRecord
<1> QED
  BY <1>3, <1>4 DEF syncRecord

(* The receipt that is written extends the chain, and has its record.      *)
LEMMA WriteReceiptStep ==
  ASSUME Inv, writeReceipt
  PROVE  Inv'
<1> USE DEF Inv
<1>1. Storing /\ RecordWritten /\ records.synced = Len(records.lines)
  BY DEF writeReceipt, AtStep
<1>2. next \in Receipts
  BY DEF TypeOK
<1>3. CASE receipts' = written(receipts, next) /\ pc' = "syncReceipt"
  <2>1. /\ receipts' \in Files(Receipts) /\ receipts'.torn = receipts.torn
        /\ receipts'.synced = receipts.synced
        /\ receipts'.lines = Append(receipts.lines, next)
    BY Types, <1>2, <1>3, AppendProperties DEF written, Files
  <2>2. /\ Len(receipts'.lines) = Len(receipts.lines) + 1 /\ receipts'.lines # <<>>
        /\ \A i \in 1 .. Len(receipts.lines) : receipts'.lines[i] = receipts.lines[i]
        /\ receipts'.lines[Len(receipts.lines) + 1] = next
    <3> DEFINE s == receipts.lines
    <3>1. s \in Seq(Receipts)
      BY Types
    <3> HIDE DEF s
    <3>2. /\ Len(Append(s, next)) = Len(s) + 1 /\ Append(s, next) # <<>>
          /\ \A i \in 1 .. Len(s) : Append(s, next)[i] = s[i]
          /\ Append(s, next)[Len(s) + 1] = next
      BY <1>2, <3>1, AppendProperties
    <3> QED
      BY <2>1, <3>2 DEF s
  <2>3. TypeOK'
    BY Types, <1>3, <2>1, <2>2 DEF TypeOK, writeReceipt, Steps
  <2>4. /\ consistent(receipts'.lines)
        /\ headOf(receipts'.lines) = NewChain(next.seq, entryHash(next))
    BY Types, <1>1, <1>2, <2>1, ConsistentAppend DEF Storing
  <2>5. Recorded'
    BY Types, <1>1, <2>1, <2>2 DEF Recorded, writeReceipt, RecordWritten, recordLine
  <2>6. ReturnedIsDurable'
    BY Types, <2>1, <2>2, <2>3, DurableKept DEF writeReceipt
  <2>7. AtStep'
    BY Types, <1>1, <1>3, <2>1, <2>2, <2>4
    DEF AtStep, writeReceipt, Storing, RecordWritten, Whole, Settled, headOf, entryHash
  <2> QED
    BY <2>3, <2>4, <2>5, <2>6, <2>7 DEF consistent, entryHash
<1>4. CASE receipts' \in partly(receipts) /\ pc' = "broken"
  <2>1. /\ receipts' \in Files(Receipts) /\ receipts'.synced = receipts.synced
        /\ receipts'.lines = receipts.lines
    BY Types, <1>4 DEF partly, Files
  <2>2. TypeOK'
    BY Types, <1>4, <2>1 DEF TypeOK, writeReceipt, Steps
  <2>3. ReturnedIsDurable'
    BY Types, <2>1, <2>2, DurableKept DEF writeReceipt
  <2> QED
    BY <1>4, <2>1, <2>2, <2>3 DEF Recorded, AtStep, writeReceipt, consistent, entryHash
<1> QED
  BY <1>3, <1>4 DEF writeReceipt

(* Append returns what its fsync made durable.                             *)
LEMMA SyncReceiptStep ==
  ASSUME Inv, syncReceipt
  PROVE  Inv'
<1> USE DEF Inv
<1>1. /\ Settled /\ receipts.lines # <<>> /\ next = receipts.lines[Len(receipts.lines)]
      /\ next \in Receipts
  BY DEF syncReceipt, AtStep, TypeOK
<1>2. Len(receipts.lines) \in 1 .. Len(receipts.lines)
  BY Types, <1>1
<1>3. next.seq = Len(receipts.lines)
  BY Types, <1>1, <1>2 DEF consistent
<1>4. CASE /\ receipts' = fsynced(receipts) /\ pc' = "ready"
           /\ returned' = Append(returned, next)
  <2>1. /\ receipts' \in Files(Receipts) /\ receipts'.lines = receipts.lines
        /\ receipts'.torn = receipts.torn /\ receipts'.synced = Len(receipts.lines)
    BY Types, <1>4 DEF fsynced, Files
  <2>2. /\ returned' \in Seq(Receipts) /\ DOMAIN returned' = 1 .. Len(returned) + 1
        /\ \A i \in 1 .. Len(returned) : returned'[i] = returned[i]
        /\ returned'[Len(returned) + 1] = next
    BY Types, <1>1, <1>4, AppendProperties
  <2>3. TypeOK'
    BY Types, <1>4, <2>1, <2>2 DEF TypeOK, syncReceipt, Steps
  <2>4. consistent(receipts.lines)' /\ Recorded'
    BY <2>1 DEF syncReceipt, consistent, Recorded, entryHash
  <2>5. ASSUME NEW i \in DOMAIN returned'
        PROVE  /\ returned'[i].seq \in 1 .. receipts'.synced
               /\ receipts'.lines[returned'[i].seq] = returned'[i]
    <3>1. CASE i = Len(returned) + 1
      BY <1>1, <1>2, <1>3, <2>1, <2>2, <3>1
    <3>2. CASE i # Len(returned) + 1
      <4>1. i \in 1 .. Len(returned)
        BY Types, <2>2, <3>2
      <4>2. /\ returned[i].seq \in 1 .. receipts.synced
            /\ receipts.lines[returned[i].seq] = returned[i]
        BY Types, <4>1 DEF ReturnedIsDurable
      <4> QED
        BY Types, <2>1, <2>2, <4>1, <4>2
    <3> QED
      BY <3>1, <3>2
  <2>6. ReturnedIsDurable'
    BY <2>5 DEF ReturnedIsDurable
  <2>7. AtStep'
    BY <1>1, <1>4, <2>1 DEF AtStep, syncReceipt, Settled, Whole, headOf, entryHash, NewChain
  <2> QED
    BY <2>3, <2>4, <2>6, <2>7
<1>5. CASE receipts' = receipts /\ pc' = "broken" /\ returned' = returned
  <2>1. TypeOK' /\ AtStep'
    BY <1>5 DEF TypeOK, AtStep, syncReceipt, Steps
  <2> QED
    BY <1>5, <2>1, FilesKept DEF syncReceipt
<1> QED
  BY <1>4, <1>5 DEF syncReceipt

(* The process stops: the files stay.                                      *)
LEMMA StopStep ==
  ASSUME Inv, Kill \/ LivenessProbe
  PROVE  Inv'
<1>1. TypeOK' /\ AtStep'
  BY WriterAssumption DEF Inv, TypeOK, AtStep, Kill, LivenessProbe, Crash, files, Steps
<1> QED
  BY <1>1, FilesKept DEF Kill, LivenessProbe, files

(* A power loss takes lines off the end of the files, none of them synced. *)
LEMMA PowerLossStep ==
  ASSUME Inv, PowerLoss
  PROVE  Inv'
<1> USE DEF Inv
<1> DEFINE n == receipts'.synced
           m == records'.synced
<1>1. /\ receipts' \in Files(Receipts) /\ n \in receipts.synced .. Len(receipts.lines)
      /\ receipts'.lines = SubSeq(receipts.lines, 1, n) /\ Len(receipts'.lines) = n
  BY Types, SurvivorProperties DEF PowerLoss
<1>2. /\ records' \in Files(RecordLines) /\ m \in records.synced .. Len(records.lines)
      /\ records'.lines = SubSeq(records.lines, 1, m) /\ Len(records'.lines) = m
  BY Types, SurvivorProperties DEF PowerLoss
<1>3. n \in 0 .. Len(receipts.lines) /\ m \in 0 .. Len(records.lines)
  BY Types, <1>1, <1>2
<1>4. \A i \in 1 .. n : receipts'.lines[i] = receipts.lines[i]
  BY Types, <1>1, <1>3, CutProperties
<1>5. \A i \in 1 .. m : records'.lines[i] = records.lines[i]
  BY Types, <1>2, <1>3, CutProperties
<1>6. TypeOK'
  BY Types, <1>1, <1>2, <1>3, WriterAssumption DEF TypeOK, PowerLoss, Crash, Steps
<1>7. consistent(receipts'.lines)
  BY Types, <1>1, <1>3, ConsistentCut
<1>8. Recorded'
  <2>1. n <= m /\ n <= Len(records.lines) /\ n \in Nat /\ m \in Nat
    BY Types, <1>1, <1>2, <1>3 DEF Recorded
  <2>2. \A j \in 1 .. m : j \in 1 .. Len(records.lines)
    BY Types, <1>3
  <2>3. \A i \in 1 .. n : i \in 1 .. Len(receipts.lines) /\ i \in 1 .. m
    BY Types, <1>3, <2>1
  <2> HIDE DEF n, m
  <2>4. \A j \in 1 .. m : records'.lines[j].seq = j
    BY <1>5, <2>2 DEF Recorded
  <2>5. \A i \in 1 .. n : records'.lines[i].rec = receipts'.lines[i].rec
    BY <1>4, <1>5, <2>3 DEF Recorded
  <2> QED
    BY <1>1, <1>2, <2>1, <2>4, <2>5 DEF Recorded, m
<1>9. ReturnedIsDurable'
  BY Types, <1>1, <1>3, <1>4, <1>6, DurableKept DEF PowerLoss
<1>10. AtStep'
  BY DEF AtStep, PowerLoss
<1> QED
  BY <1>6, <1>7, <1>8, <1>9, <1>10 DEF consistent, entryHash

LEMMA NextInv == Inv /\ [Next]_vars => Inv'
<1> SUFFICES ASSUME Inv, [Next]_vars PROVE Inv'
  OBVIOUS
<1>1. CASE Open
  BY <1>1, OpenReceiptsStep, OpenRecordsStep DEF Open
<1>2. CASE \E rec \in Records : chainNext(rec)
  BY <1>2, ChainNextStep
<1>3. CASE Append_
  BY <1>3, WriteRecordStep, SyncRecordStep, WriteReceiptStep, SyncReceiptStep DEF Append_
<1>4. CASE LivenessProbe \/ Kill
  BY <1>4, StopStep
<1>5. CASE PowerLoss
  BY <1>5, PowerLossStep
<1>6. CASE UNCHANGED vars
  <2>1. TypeOK' /\ AtStep'
    BY <1>6
    DEF vars, files, Inv, TypeOK, AtStep, Settled, Storing, RecordWritten, Whole, headOf,
        entryHash, NewChain, recordLine
  <2> QED
    BY <1>6, <2>1, FilesKept DEF vars, files
<1> QED
  BY <1>1, <1>2, <1>3, <1>4, <1>5, <1>6 DEF Next

-----------------------------------------------------------------------------
(* The theorems.                                                           *)

LEMMA InvHolds == Spec => []Inv
  BY InitInv, NextInv, PTL DEF Spec

(* The invariant says more than the property.                              *)
LEMMA InvImpliesSound == Inv => ChainIsSound
<1> SUFFICES ASSUME Inv PROVE ChainIsSound
  OBVIOUS
<1> USE DEF Inv
<1>1. ReceiptHasRecord
  <2> SUFFICES ASSUME NEW i \in DOMAIN receipts.lines
               PROVE  hasRecord(receipts.lines[i], records.synced)
    BY DEF ReceiptHasRecord
  <2>1. i \in 1 .. Len(receipts.lines) /\ i \in 1 .. records.synced /\ i \in 1 .. Len(records.lines)
    BY Types DEF Recorded
  <2>2. receipts.lines[i].seq = i
    BY DEF consistent
  <2>3. records.lines[i] \in RecordLines /\ records.lines[i].seq = i
        /\ records.lines[i].rec = receipts.lines[i].rec
    BY Types, <2>1 DEF Recorded
  <2>4. records.lines[i] = [seq |-> receipts.lines[i].seq, rec |-> receipts.lines[i].rec]
    BY <2>2, <2>3 DEF RecordLines
  <2> QED
    BY <2>1, <2>4 DEF hasRecord
<1>2. AlwaysResumable
  <2>1. ASSUME pc = "ready"
        PROVE  records.lines = [i \in DOMAIN receipts.lines |->
                                  [seq |-> i, rec |-> receipts.lines[i].rec]]
    <3>1. Len(records.lines) = Len(receipts.lines)
      BY <2>1 DEF AtStep, Settled
    <3>2. ASSUME NEW i \in 1 .. Len(records.lines)
          PROVE  records.lines[i] = [seq |-> i, rec |-> receipts.lines[i].rec]
      <4>1. records.lines[i] \in RecordLines
        BY Types
      <4>2. records.lines[i].seq = i /\ records.lines[i].rec = receipts.lines[i].rec
        BY <3>1 DEF Recorded
      <4> QED
        BY <4>1, <4>2 DEF RecordLines
    <3>3. DOMAIN receipts.lines = 1 .. Len(records.lines)
      BY Types, <3>1
    <3>4. records.lines \in [1 .. Len(records.lines) -> RecordLines]
      BY Types
    <3> QED
      BY <3>2, <3>3, <3>4
  <2>2. pc = "ready" => chain = headOf(receipts.lines) /\ ~receipts.torn /\ ~records.torn
    BY DEF AtStep, Settled, Whole
  <2> QED
    BY <2>1, <2>2 DEF AlwaysResumable
<1> QED
  BY <1>1, <1>2 DEF ChainIsSound

(* The two files of the receipt writer, for every set of records and       *)
(* through any number of failed and partial writes, failed fsyncs, kills   *)
(* and power losses (writer.go, Append and open): a receipt that Append    *)
(* returned stays on disk in its place, no receipt is ever without its     *)
(* synced record, and the files are always ones that open resumes from.    *)
THEOREM ChainSound == Spec => []ChainIsSound
  BY InvHolds, InvImpliesSound, PTL

-----------------------------------------------------------------------------
(* What a step may do to the receipts, for those who hold one.             *)

(* A synced receipt line stays synced, as it is and where it is.           *)
SyncedStays ==
  /\ receipts.synced <= receipts'.synced
  /\ \A i \in 1 .. receipts.synced : receipts'.lines[i] = receipts.lines[i]

(* Append returns: the receipt, not synced before this step, is now, and   *)
(* is the last line.                                                       *)
Returns ==
  /\ pc = "syncReceipt" /\ pc' = "ready"
  /\ returned' # returned /\ returned' = Append(returned, next)
  /\ receipts.synced < next.seq
  /\ next.seq = Len(receipts'.lines) /\ next.seq \in 1 .. receipts'.synced
  /\ receipts'.lines[next.seq] = next

Busy == {"record", "syncRecord", "receipt", "syncReceipt"}

LEMMA SyncedStaysStep ==
  ASSUME Inv, Next
  PROVE  SyncedStays
<1> USE DEF Inv
<1>1. CASE openReceipts
  <2>1. Len(receipts.lines) \in 0 .. Len(receipts.lines) /\ receipts.synced \in 0 .. Len(receipts.lines)
    BY Types
  <2>2. receipts'.lines = receipts.lines /\ receipts.synced <= receipts'.synced
    BY Types, <1>1, <2>1, TruncateProperties, CutNothing DEF openReceipts
  <2> QED
    BY <2>2 DEF SyncedStays
<1>2. CASE \/ openRecords \/ (\E rec \in Records : chainNext(rec)) \/ writeRecord \/ syncRecord
           \/ LivenessProbe \/ Kill
  BY <1>2, Types
  DEF openRecords, chainNext, writeRecord, syncRecord, LivenessProbe, Kill, files, SyncedStays
<1>3. CASE writeReceipt
  <2>1. CASE receipts' = written(receipts, next)
    <3>1. receipts'.lines = Append(receipts.lines, next) /\ receipts'.synced = receipts.synced
          /\ next \in Receipts
      BY Types, <2>1 DEF written, Files, TypeOK
    <3>2. \A i \in 1 .. Len(receipts.lines) : receipts'.lines[i] = receipts.lines[i]
      BY Types, <3>1, AppendProperties
    <3> QED
      BY Types, <3>1, <3>2 DEF SyncedStays
  <2>2. CASE receipts' \in partly(receipts)
    BY Types, <2>2 DEF partly, Files, SyncedStays
  <2> QED
    BY <1>3, <2>1, <2>2 DEF writeReceipt
<1>4. CASE syncReceipt
  <2>1. receipts'.lines = receipts.lines /\ receipts.synced <= receipts'.synced
    BY Types, <1>4 DEF syncReceipt, fsynced, Files
  <2> QED
    BY <2>1 DEF SyncedStays
<1>5. CASE PowerLoss
  <2> DEFINE n == receipts'.synced
  <2>1. n \in receipts.synced .. Len(receipts.lines) /\ receipts'.lines = SubSeq(receipts.lines, 1, n)
    BY Types, <1>5, SurvivorProperties DEF PowerLoss
  <2>2. n \in 0 .. Len(receipts.lines)
    BY Types, <2>1
  <2>3. \A i \in 1 .. n : receipts'.lines[i] = receipts.lines[i]
    BY Types, <2>1, <2>2, CutProperties
  <2> QED
    BY Types, <2>1, <2>3 DEF SyncedStays
<1> QED
  BY <1>1, <1>2, <1>3, <1>4, <1>5 DEF Next, Open, Append_

(* A step of the writer, other than taking a request, returns the receipt  *)
(* or returns nothing; and a writer that is not storing adds no line.      *)
LEMMA ServerStep ==
  ASSUME Inv, Append_ \/ Open \/ LivenessProbe \/ Kill \/ PowerLoss
  PROVE  /\ returned' = returned \/ Returns
         /\ pc \notin Busy => pc' \notin Busy /\ Len(receipts'.lines) <= Len(receipts.lines)
<1> USE DEF Inv
<1>1. CASE openReceipts
  <2>1. Len(receipts.lines) \in 0 .. Len(receipts.lines)
    BY Types
  <2>2. receipts'.lines = receipts.lines
    BY Types, <1>1, <2>1, TruncateProperties, CutNothing DEF openReceipts
  <2> QED
    BY Types, <1>1, <2>2 DEF openReceipts, Busy
<1>2. CASE openRecords \/ LivenessProbe \/ Kill
  BY Types, <1>2 DEF openRecords, LivenessProbe, Kill, files, Busy
<1>3. CASE writeRecord \/ syncRecord \/ writeReceipt
  BY <1>3 DEF writeRecord, syncRecord, writeReceipt, Busy
<1>4. CASE syncReceipt
  <2>1. CASE /\ receipts' = fsynced(receipts) /\ pc' = "ready"
             /\ returned' = Append(returned, next)
    <3>1. receipts'.lines = receipts.lines /\ receipts'.synced = Len(receipts.lines)
      BY Types, <2>1 DEF fsynced, Files
    <3>2. /\ receipts.lines # <<>> /\ next = receipts.lines[Len(receipts.lines)] /\ next \in Receipts
          /\ receipts.synced < Len(receipts.lines)
      BY <1>4 DEF syncReceipt, AtStep, TypeOK
    <3>3. Len(receipts.lines) \in DOMAIN receipts.lines
      BY Types, <3>2
    <3>4. next.seq = Len(receipts.lines)
      BY <3>2, <3>3 DEF consistent
    <3>5. Len(returned') = Len(returned) + 1
      BY Types, <2>1, <3>2, AppendProperties
    <3>6. returned' # returned
      BY Types, <3>5
    <3> QED
      BY Types, <1>4, <2>1, <3>1, <3>2, <3>3, <3>4, <3>6 DEF Returns, syncReceipt, Busy
  <2>2. CASE receipts' = receipts /\ pc' = "broken" /\ returned' = returned
    BY Types, <1>4, <2>2 DEF Busy, syncReceipt
  <2> QED
    BY <1>4, <2>1, <2>2 DEF syncReceipt
<1>5. CASE PowerLoss
  <2>1. /\ receipts'.synced \in receipts.synced .. Len(receipts.lines)
        /\ Len(receipts'.lines) = receipts'.synced
    BY Types, <1>5, SurvivorProperties DEF PowerLoss
  <2> QED
    BY Types, <1>5, <2>1 DEF PowerLoss, Busy
<1> QED
  BY <1>1, <1>2, <1>3, <1>4, <1>5 DEF Open, Append_

-----------------------------------------------------------------------------
(* The refinement: writeReceipt stores a record, syncReceipt returns it, a *)
(* power loss loses records, and every other step is a stutter.            *)

recordsOf(s) == [i \in DOMAIN s |-> s[i].rec]

LEMMA RecordsOfType ==
  ASSUME NEW s \in Seq(Receipts)
  PROVE  /\ recordsOf(s) \in Seq(Records) /\ Len(recordsOf(s)) = Len(s)
         /\ \A i \in 1 .. Len(s) : recordsOf(s)[i] = s[i].rec
<1>1. Len(s) \in Nat /\ DOMAIN s = 1 .. Len(s) /\ \A i \in 1 .. Len(s) : s[i] \in Receipts
  OBVIOUS
<1>2. \A r \in Receipts : r.rec \in Records
  BY DEF Receipts
<1>3. recordsOf(s) \in [1 .. Len(s) -> Records] /\ \A i \in 1 .. Len(s) : recordsOf(s)[i] = s[i].rec
  BY <1>1, <1>2 DEF recordsOf
<1> HIDE DEF recordsOf
<1> QED
  BY <1>1, <1>3

LEMMA RecordsOfAppend ==
  ASSUME NEW s \in Seq(Receipts), NEW r \in Receipts
  PROVE  recordsOf(Append(s, r)) = Append(recordsOf(s), r.rec)
<1> DEFINE t == recordsOf(Append(s, r))
           u == Append(recordsOf(s), r.rec)
<1>1. /\ Append(s, r) \in Seq(Receipts) /\ Len(Append(s, r)) = Len(s) + 1
      /\ \A i \in 1 .. Len(s) : Append(s, r)[i] = s[i]
      /\ Append(s, r)[Len(s) + 1] = r
  BY AppendProperties
<1>2. /\ t \in Seq(Records) /\ Len(t) = Len(s) + 1
      /\ \A i \in 1 .. Len(s) + 1 : t[i] = Append(s, r)[i].rec
  BY <1>1, RecordsOfType
<1>3. r.rec \in Records /\ recordsOf(s) \in Seq(Records) /\ Len(recordsOf(s)) = Len(s)
  BY RecordsOfType DEF Receipts
<1>4. /\ u \in Seq(Records) /\ Len(u) = Len(s) + 1
      /\ \A i \in 1 .. Len(s) : u[i] = recordsOf(s)[i]
      /\ u[Len(s) + 1] = r.rec
  BY <1>3, AppendProperties
<1>5. \A i \in 1 .. Len(s) : recordsOf(s)[i] = s[i].rec
  BY RecordsOfType
<1> HIDE DEF t, u
<1>6. ASSUME NEW i \in 1 .. Len(s) + 1 PROVE t[i] = u[i]
  <2>1. i \in 1 .. Len(s) \/ i = Len(s) + 1
    OBVIOUS
  <2> QED
    BY <1>1, <1>2, <1>4, <1>5, <2>1
<1> QED
  BY <1>2, <1>4, <1>6 DEF t, u

LEMMA RecordsOfCut ==
  ASSUME NEW s \in Seq(Receipts), NEW n \in 0 .. Len(s)
  PROVE  recordsOf(SubSeq(s, 1, n)) = SubSeq(recordsOf(s), 1, n)
<1> DEFINE t == recordsOf(SubSeq(s, 1, n))
           u == SubSeq(recordsOf(s), 1, n)
<1>1. /\ SubSeq(s, 1, n) \in Seq(Receipts) /\ Len(SubSeq(s, 1, n)) = n
      /\ \A i \in 1 .. n : SubSeq(s, 1, n)[i] = s[i]
  BY CutProperties
<1>2. t \in Seq(Records) /\ Len(t) = n /\ \A i \in 1 .. n : t[i] = SubSeq(s, 1, n)[i].rec
  BY <1>1, RecordsOfType
<1>3. /\ recordsOf(s) \in Seq(Records) /\ Len(recordsOf(s)) = Len(s)
      /\ \A i \in 1 .. Len(s) : recordsOf(s)[i] = s[i].rec
  BY RecordsOfType
<1>4. u \in Seq(Records) /\ Len(u) = n /\ \A i \in 1 .. n : u[i] = recordsOf(s)[i]
  BY <1>3, CutProperties
<1> HIDE DEF t, u
<1>5. \A i \in 1 .. n : t[i] = u[i]
  BY <1>1, <1>2, <1>3, <1>4
<1> QED
  BY <1>2, <1>4, <1>5 DEF t, u

(* What was returned last is on disk.                                      *)
LEMMA LastReturned ==
  ASSUME Inv
  PROVE  lastReturned \in 0 .. receipts.synced
<1> USE DEF Inv
<1>1. CASE returned = <<>>
  BY Types, <1>1 DEF lastReturned
<1>2. CASE returned # <<>>
  <2>1. Len(returned) \in DOMAIN returned
    BY Types, <1>2
  <2>2. returned[Len(returned)].seq \in 1 .. receipts.synced
    BY <2>1 DEF ReturnedIsDurable
  <2> QED
    BY Types, <1>2, <2>2 DEF lastReturned
<1> QED
  BY <1>1, <1>2

LEMMA InitRefines == Init => Abstract!Init
<1> SUFFICES ASSUME Init PROVE Abstract!Init
  OBVIOUS
<1>1. receipts.lines = <<>> /\ lastReturned = 0
  BY DEF Init, EmptyFile, lastReturned
<1>2. [i \in DOMAIN receipts.lines |-> receipts.lines[i].rec] = <<>>
  BY <1>1
<1> QED
  BY <1>1, <1>2 DEF Abstract!Init

(* A step that keeps the receipt lines and what was returned.              *)
LEMMA Stutters ==
  ASSUME receipts'.lines = receipts.lines, returned' = returned
  PROVE  UNCHANGED Abstract!vars
  BY DEF Abstract!vars, lastReturned

LEMMA NextRefines == Inv /\ [Next]_vars => [Abstract!Next]_(Abstract!vars)
<1> SUFFICES ASSUME Inv, [Next]_vars PROVE [Abstract!Next]_(Abstract!vars)
  OBVIOUS
<1> USE DEF Inv
<1>1. CASE openReceipts
  <2>1. Len(receipts.lines) \in 0 .. Len(receipts.lines)
    BY Types
  <2>2. receipts'.lines = receipts.lines
    BY Types, <1>1, <2>1, TruncateProperties, CutNothing DEF openReceipts
  <2> QED
    BY <1>1, <2>2, Stutters DEF openReceipts
<1>2. CASE \/ openRecords \/ (\E rec \in Records : chainNext(rec)) \/ writeRecord \/ syncRecord
           \/ LivenessProbe \/ Kill \/ UNCHANGED vars
  BY <1>2, Stutters
  DEF openRecords, chainNext, writeRecord, syncRecord, LivenessProbe, Kill, vars, files
<1>3. CASE writeReceipt
  <2>1. CASE receipts' = written(receipts, next)
    <3>1. receipts'.lines = Append(receipts.lines, next) /\ next \in Receipts
      BY Types, <2>1 DEF written, Files, TypeOK
    <3>2. recordsOf(receipts'.lines) = Append(recordsOf(receipts.lines), next.rec)
      BY Types, <3>1, RecordsOfAppend
    <3>3. UNCHANGED lastReturned
      BY <1>3 DEF writeReceipt, lastReturned
    <3>4. PICK rec \in Records : rec = next.rec
      BY Types
    <3>5. Abstract!Store(rec)
      BY <3>2, <3>3, <3>4 DEF Abstract!Store, recordsOf
    <3> QED
      BY <3>5 DEF Abstract!Next
  <2>2. CASE receipts' \in partly(receipts)
    <3>1. receipts'.lines = receipts.lines
      BY Types, <2>2 DEF partly, Files
    <3> QED
      BY <1>3, <3>1, Stutters DEF writeReceipt
  <2> QED
    BY <1>3, <2>1, <2>2 DEF writeReceipt
<1>4. CASE syncReceipt
  <2>1. CASE receipts' = fsynced(receipts) /\ returned' = Append(returned, next)
    <3>1. receipts'.lines = receipts.lines
      BY Types, <2>1 DEF fsynced, Files
    <3>2. receipts.lines # <<>> /\ next = receipts.lines[Len(receipts.lines)] /\ next \in Receipts
      BY <1>4 DEF syncReceipt, AtStep, TypeOK
    <3>3. Len(receipts.lines) \in DOMAIN receipts.lines
      BY Types, <3>2
    <3>4. next.seq = Len(receipts.lines)
      BY <3>2, <3>3 DEF consistent
    <3>5. returned' # <<>> /\ returned'[Len(returned')] = next
      BY Types, <2>1, <3>2, AppendProperties
    <3>6. lastReturned' = Len(recordsOf(receipts.lines))
      BY Types, <3>4, <3>5, RecordsOfType DEF lastReturned
    <3>7. Abstract!Return
      BY <3>1, <3>6 DEF Abstract!Return, recordsOf
    <3> QED
      BY <3>7 DEF Abstract!Next
  <2>2. CASE receipts' = receipts /\ returned' = returned
    BY <2>2, Stutters
  <2> QED
    BY <1>4, <2>1, <2>2 DEF syncReceipt
<1>5. CASE PowerLoss
  <2> DEFINE n == receipts'.synced
  <2>1. n \in receipts.synced .. Len(receipts.lines) /\ receipts'.lines = SubSeq(receipts.lines, 1, n)
    BY Types, <1>5, SurvivorProperties DEF PowerLoss
  <2>2. n \in 0 .. Len(receipts.lines) /\ n \in lastReturned .. Len(recordsOf(receipts.lines))
    BY Types, <2>1, LastReturned, RecordsOfType
  <2>3. recordsOf(receipts'.lines) = SubSeq(recordsOf(receipts.lines), 1, n)
    BY Types, <2>1, <2>2, RecordsOfCut
  <2>4. UNCHANGED lastReturned
    BY <1>5 DEF PowerLoss, lastReturned
  <2>5. Abstract!Lose
    BY <2>2, <2>3, <2>4 DEF Abstract!Lose, recordsOf
  <2> QED
    BY <2>5 DEF Abstract!Next
<1> QED
  BY <1>1, <1>2, <1>3, <1>4, <1>5 DEF Next, Open, Append_

(* What the callers of receipts.Writer rely on: the writer on its two      *)
(* files behaves as a chain that stores records one after the other, has   *)
(* stored a record when its Append returns, and loses none that it         *)
(* returned, whatever fails.                                               *)
THEOREM ChainRefined == Spec => ImplementsChain
<1>1. Init => Abstract!Init
  BY InitRefines
<1>2. Inv /\ [Next]_vars => [Abstract!Next]_(Abstract!vars)
  BY NextRefines
<1> QED
  BY <1>1, <1>2, InvHolds, PTL DEF Spec, ImplementsChain, Abstract!Spec

=============================================================================
