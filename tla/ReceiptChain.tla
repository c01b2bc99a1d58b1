---------------------------- MODULE ReceiptChain ----------------------------
(***************************************************************************)
(* What receipts.Writer promises its callers, and no more: records are     *)
(* stored one after the other, "Append must store the receipt durably      *)
(* before it returns, because the caller acts on it", and whatever goes    *)
(* wrong loses at most records whose Append has not returned.              *)
(***************************************************************************)
EXTENDS Naturals, Sequences

CONSTANT Records   \* decision records

VARIABLES stored,  \* the records of the chain, in order
          acked    \* the highest seq whose Append returned

vars == <<stored, acked>>

TypeOK == stored \in Seq(Records) /\ acked \in 0 .. Len(stored)

Init == stored = <<>> /\ acked = 0

Store(rec) == stored' = Append(stored, rec) /\ UNCHANGED acked

(* Append returns the receipt of the last record.                          *)
Return == acked' = Len(stored) /\ UNCHANGED stored

(* A failure cuts records off the end, none that an Append returned.       *)
Lose ==
  /\ \E n \in acked .. Len(stored) : stored' = SubSeq(stored, 1, n)
  /\ UNCHANGED acked

Next == (\E rec \in Records : Store(rec)) \/ Return \/ Lose

Spec == Init /\ [][Next]_vars
=============================================================================
