------------------------- MODULE RemoteWriterProofs -------------------------
(***************************************************************************)
(* For any number of operators, requests, restarts and crashes: a receipt  *)
(* that RemoteWriter.Append returned is its own and durable, and an        *)
(* operator is wrong about the head only when someone else moved it.  The  *)
(* proof uses what LocalWriterProofs shows of the writer.                  *)
(***************************************************************************)
EXTENDS RemoteWriter, TLAPS

W == INSTANCE LocalWriterProofs

-----------------------------------------------------------------------------
(* The inductive invariant.                                                *)

Durable(r) == r.seq \in 1 .. receipts.synced /\ receipts.lines[r.seq] = r

(* The receipts that were sent out, and the requests they answer.          *)
Answers == replies \cup accepted
Same(x, y) == x.c = y.c /\ x.n = y.n

(* Clients number their requests, and post while they may.                 *)
Numbered ==
  /\ \A x \in requests \cup owner \cup Answers : x.n <= client[x.c].n
  /\ \A c \in Clients : client[c].at \in {"sync", "post"} => client[c].n < MaxRequests

AnswersDurable == \A x \in Answers : Durable(x.receipt)

AnswersApart == \A x, y \in Answers : x.receipt.seq = y.receipt.seq => x = y

(* The writer serves one request at a time, and nothing before the first.  *)
OneOwner ==
  /\ \A q, r \in owner : q = r
  /\ owner = {} => Answers = {}

(* A request is served at most once: one still on its way was neither      *)
(* taken by the writer nor answered.                                       *)
ServedOnce ==
  \A q \in requests :
    /\ \A r \in requests : Same(q, r) => q = r
    /\ \A x \in owner \cup Answers : ~Same(q, x)

(* The request the writer took last, once answered, is the end of the      *)
(* chain until the writer takes another.                                   *)
LastAnswered ==
  \A q \in owner, x \in Answers :
    Same(q, x) => pc \notin W!Busy /\ x.receipt.seq = Len(receipts.lines)

(* An idle client that knows the head has it from its last request.        *)
HeadsKnown ==
  \A c \in Clients :
    client[c].at = "idle" /\ client[c].headKnown =>
      \E a \in accepted :
        /\ a.c = c /\ a.n = client[c].n
        /\ client[c].head = [seq |-> a.receipt.seq, head |-> Server!entryHash(a.receipt)]

(* A client that reads the head, or waits for an answer, does not know it. *)
Unsure ==
  \A c \in Clients : client[c].at \in {"sync", "wait"} => ~client[c].headKnown

Inv ==
  /\ W!Inv /\ TypeOK /\ Numbered /\ AnswersDurable /\ AnswersApart /\ OneOwner
  /\ ServedOnce /\ LastAnswered /\ HeadsKnown /\ Unsure

-----------------------------------------------------------------------------
(* The writer of the specification is the writer of LocalWriterProofs.     *)

LEMMA Assumed == W!WriterAssumption
  BY ClientAssumption DEF W!WriterAssumption

LEMMA SameTypes ==
  /\ Server!Hashes = W!Hashes /\ Server!Receipts = W!Receipts
  /\ Server!TypeOK <=> W!TypeOK
  BY DEF Server!Hashes, W!Hashes, Server!Receipts, W!Receipts, Server!TypeOK, W!TypeOK,
         Server!Files, W!Files, Server!RecordLines, W!RecordLines, Server!Steps, W!Steps

LEMMA SameInit == Server!Init => W!Init
  BY DEF Server!Init, W!Init, Server!EmptyFile, W!EmptyFile, Server!NewChain, W!NewChain,
         Server!AnyReceipt, W!AnyReceipt

LEMMA SameTake ==
  ASSUME NEW rec, Server!chainNext(rec)
  PROVE  W!chainNext(rec)
  BY DEF Server!chainNext, W!chainNext, Server!NewChain, W!NewChain, Server!entryHash,
         W!entryHash, Server!files, W!files

LEMMA SameOpen == Server!Open => W!Open
<1>1. Server!openReceipts => W!openReceipts
  BY DEF Server!openReceipts, W!openReceipts, Server!consistent, W!consistent,
         Server!entryHash, W!entryHash, Server!truncateTo, W!truncateTo, Server!NewChain,
         W!NewChain, Server!headOf, W!headOf
<1>2. Server!openRecords => W!openRecords
  BY DEF Server!openRecords, W!openRecords, Server!truncateTo, W!truncateTo,
         Server!keptRecords, W!keptRecords
<1> QED
  BY <1>1, <1>2 DEF Server!Open, W!Open

LEMMA SameAppend == Server!Append_ => W!Append_
  BY DEF Server!Append_, W!Append_, Server!writeRecord, W!writeRecord, Server!syncRecord,
         W!syncRecord, Server!writeReceipt, W!writeReceipt, Server!syncReceipt, W!syncReceipt,
         Server!written, W!written, Server!partly, W!partly, Server!fsynced, W!fsynced,
         Server!recordLine, W!recordLine

LEMMA SameFailures ==
  /\ Server!LivenessProbe => W!LivenessProbe
  /\ Server!Kill => W!Kill
  /\ Server!PowerLoss => W!PowerLoss
  BY DEF Server!LivenessProbe, W!LivenessProbe, Server!Kill, W!Kill, Server!PowerLoss,
         W!PowerLoss, Server!Crash, W!Crash, Server!Survivors, W!Survivors, Server!files, W!files

(* What the proofs below use of the writer.                                *)
LEMMA WriterInit == Server!Init => W!Inv
  BY SameInit, Assumed, W!InitInv

LEMMA WriterUnchanged ==
  ASSUME W!Inv, UNCHANGED serverVars
  PROVE  W!Inv'
<1>1. UNCHANGED W!vars
  BY DEF serverVars, W!vars, W!files
<1> QED
  BY <1>1, Assumed, W!NextInv

LEMMA WriterTakes ==
  ASSUME W!Inv, NEW rec \in Records, Server!chainNext(rec)
  PROVE  /\ W!Inv' /\ receipts' = receipts /\ pc' = "record"
<1>1. W!chainNext(rec)
  BY SameTake
<1>2. W!Inv'
  BY <1>1, Assumed, W!ChainNextStep
<1> QED
  BY <1>1, <1>2 DEF W!chainNext, W!files

LEMMA WriterServes ==
  ASSUME W!Inv,
         Server!Append_ \/ Server!Open \/ Server!LivenessProbe \/ Server!Kill \/ Server!PowerLoss
  PROVE  /\ W!Inv' /\ W!SyncedStays
         /\ returned' = returned \/ W!Returns
         /\ pc \notin W!Busy => pc' \notin W!Busy /\ Len(receipts'.lines) <= Len(receipts.lines)
<1>1. W!Append_ \/ W!Open \/ W!LivenessProbe \/ W!Kill \/ W!PowerLoss
  BY SameAppend, SameOpen, SameFailures
<1>2. W!Next
  BY <1>1 DEF W!Next
<1>3. W!Inv'
  BY <1>2, Assumed, W!NextInv
<1>4. W!SyncedStays
  BY <1>2, Assumed, W!SyncedStaysStep
<1>5. /\ returned' = returned \/ W!Returns
      /\ pc \notin W!Busy => pc' \notin W!Busy /\ Len(receipts'.lines) <= Len(receipts.lines)
  BY <1>1, Assumed, W!ServerStep
<1> QED
  BY <1>3, <1>4, <1>5

LEMMA WriterTypes ==
  ASSUME W!Inv
  PROVE  /\ Server!TypeOK
         /\ receipts.synced \in Nat /\ Len(receipts.lines) \in Nat
         /\ receipts.synced <= Len(receipts.lines)
         /\ chain \in Heads
         /\ next \in Server!Receipts
<1>1. W!TypeOK
  BY DEF W!Inv
<1>2. /\ receipts.synced \in Nat /\ Len(receipts.lines) \in Nat
      /\ receipts.synced <= Len(receipts.lines)
  BY <1>1, Assumed, W!Types
<1> QED
  BY <1>1, <1>2, SameTypes DEF W!TypeOK, Heads

LEMMA WriterTypesNext ==
  ASSUME W!Inv'
  PROVE  /\ Server!TypeOK'
         /\ receipts'.synced \in Nat /\ Len(receipts'.lines) \in Nat
         /\ receipts'.synced <= Len(receipts'.lines)
<1>1. W!TypeOK'
  BY DEF W!Inv
<1>2. Server!TypeOK'
  BY <1>1
  DEF Server!Hashes, W!Hashes, Server!Receipts, W!Receipts, Server!TypeOK, W!TypeOK,
      Server!Files, W!Files, Server!RecordLines, W!RecordLines, Server!Steps, W!Steps
<1>3. receipts'.lines \in Seq(W!Receipts) /\ receipts'.synced \in Nat
      /\ receipts'.synced <= Len(receipts'.lines)
  BY <1>1 DEF W!TypeOK, W!Files
<1> QED
  BY <1>2, <1>3

(* A ready writer's head is its last receipt.                              *)
LEMMA WriterReady ==
  ASSUME W!Inv, pc = "ready", NEW r, Durable(r), r.seq = Len(receipts.lines)
  PROVE  chain = [seq |-> r.seq, head |-> Server!entryHash(r)]
<1>1. chain = W!headOf(receipts.lines)
  BY DEF W!Inv, W!AtStep, W!Settled
<1>2. receipts.lines # <<>> /\ receipts.lines[Len(receipts.lines)] = r
  BY WriterTypes DEF Durable
<1> QED
  BY <1>1, <1>2 DEF W!headOf, W!NewChain, Server!entryHash, W!entryHash

-----------------------------------------------------------------------------
(* The invariant holds initially and every step keeps it.                  *)

LEMMA NewClientType ==
  ASSUME NEW n \in 0 .. MaxRequests
  PROVE  NewClient(n) \in States
<1>1. (CHOOSE r \in Records : TRUE) \in Records
  BY ClientAssumption
<1>2. NoHead \in Heads
  BY DEF NoHead, Heads, Server!Hashes
<1> QED
  BY <1>1, <1>2 DEF NewClient, States

LEMMA InitInv == Init => Inv
<1> SUFFICES ASSUME Init PROVE Inv
  OBVIOUS
<1>1. W!Inv
  BY WriterInit DEF Init
<1>2. TypeOK
  BY <1>1, WriterTypes, NewClientType, ClientAssumption DEF Init, TypeOK
<1>3. \A c \in Clients : client[c].at = "idle" /\ ~client[c].headKnown
  BY DEF Init, NewClient
<1> QED
  BY <1>1, <1>2, <1>3
  DEF Inv, Init, Numbered, AnswersDurable, AnswersApart, OneOwner, ServedOnce, LastAnswered,
      HeadsKnown, Unsure, Answers

(* A step of client c that sends nothing, takes no answer and does not end *)
(* knowing the head.                                                       *)
LEMMA QuietStep ==
  ASSUME Inv, UNCHANGED <<serverVars, owner, requests, replies, accepted>>,
         restarts' \in 0 .. MaxRestarts, NEW c \in Clients, NEW s \in States,
         client' = [client EXCEPT ![c] = s],
         s.n = client[c].n, s.at \in {"sync", "post"} => s.n < MaxRequests,
         s.at \in {"idle", "sync", "wait"} => ~s.headKnown
  PROVE  Inv'
<1> USE DEF Inv
<1>1. W!Inv'
  BY WriterUnchanged
<1>2. /\ client \in [Clients -> States]
      /\ client'[c] = s /\ \A d \in Clients : d # c => client'[d] = client[d]
  BY DEF TypeOK
<1>3. TypeOK'
  BY WriterTypesNext, <1>1, <1>2 DEF TypeOK
<1>4. \A x \in requests \cup owner \cup Answers : x.c \in Clients
  BY DEF TypeOK, Requests, Replies, Answers
<1>5. Numbered'
  BY <1>2, <1>4 DEF Numbered, Answers
<1>6. AnswersDurable' /\ AnswersApart' /\ OneOwner' /\ ServedOnce' /\ LastAnswered'
  BY DEF AnswersDurable, AnswersApart, OneOwner, ServedOnce, LastAnswered, Answers, Same, Durable,
         serverVars, W!Busy
<1>7. HeadsKnown' /\ Unsure'
  BY <1>2 DEF HeadsKnown, Unsure, Server!entryHash
<1> QED
  BY <1>1, <1>3, <1>5, <1>6, <1>7

LEMMA ClientType ==
  ASSUME TypeOK, NEW c \in Clients
  PROVE  /\ client[c] \in States /\ client \in [Clients -> States]
         /\ client[c].at \in {"idle", "sync", "post", "wait"} /\ client[c].headKnown \in BOOLEAN
         /\ client[c].head \in Heads /\ client[c].rec \in Records
         /\ client[c].n \in 0 .. MaxRequests
         /\ restarts \in 0 .. MaxRestarts
  BY DEF TypeOK, States

LEMMA StartStep ==
  ASSUME Inv, NEW c \in Clients, NEW rec \in Records, Start(c, rec)
  PROVE  Inv'
<1> DEFINE s == [client[c] EXCEPT !.rec = rec,
                                  !.at = IF client[c].headKnown THEN "post" ELSE "sync"]
<1>1. client[c] \in States /\ client \in [Clients -> States]
  BY ClientType DEF Inv
<1>2. /\ s \in States /\ s.n = client[c].n /\ client[c].n < MaxRequests
      /\ s.at = "post" \/ (s.at = "sync" /\ ~s.headKnown)
  BY <1>1 DEF Start, States
<1>3. client' = [client EXCEPT ![c] = s]
  BY <1>1 DEF Start, States
<1> HIDE DEF s
<1> QED
  BY <1>2, <1>3, QuietStep, ClientType DEF Inv, Start

LEMMA SyncHeadStep ==
  ASSUME Inv, NEW c \in Clients, syncHead(c)
  PROVE  Inv'
<1> DEFINE s == [client[c] EXCEPT !.head = chain, !.headKnown = TRUE, !.at = "post"]
<1>1. client[c] \in States /\ client \in [Clients -> States] /\ chain \in Heads
  BY ClientType, WriterTypes DEF Inv
<1>2. s \in States /\ s.n = client[c].n /\ s.at = "post" /\ client[c].n < MaxRequests
  BY <1>1 DEF syncHead, States, Inv, Numbered
<1>3. client' = [client EXCEPT ![c] = s]
  BY <1>1 DEF syncHead, States
<1> HIDE DEF s
<1> QED
  BY <1>2, <1>3, QuietStep, ClientType DEF Inv, syncHead

LEMMA FailsStep ==
  ASSUME Inv, NEW c \in Clients, fails(c)
  PROVE  Inv'
<1> DEFINE s == [client[c] EXCEPT !.at = "idle"]
<1>1. client[c] \in States /\ client \in [Clients -> States]
  BY ClientType DEF Inv
<1>2. s \in States /\ s.n = client[c].n /\ s.at = "idle" /\ s.headKnown = client[c].headKnown
  BY <1>1 DEF fails, States
<1>3. client' = [client EXCEPT ![c] = s] /\ ~client[c].headKnown
  BY <1>1 DEF fails, States, Inv, Unsure
<1> HIDE DEF s
<1> QED
  BY <1>2, <1>3, QuietStep, ClientType DEF Inv, fails

LEMMA RestartStep ==
  ASSUME Inv, NEW c \in Clients, Restart(c)
  PROVE  Inv'
<1> DEFINE s == NewClient(client[c].n)
<1>1. client[c].n \in 0 .. MaxRequests /\ restarts \in 0 .. MaxRestarts
  BY ClientType DEF Inv
<1>2. s \in States /\ s.n = client[c].n /\ s.at = "idle" /\ ~s.headKnown
  BY <1>1, NewClientType DEF NewClient
<1>3. restarts' \in 0 .. MaxRestarts
  BY <1>1, ClientAssumption DEF Restart
<1>4. client' = [client EXCEPT ![c] = s]
  BY DEF Restart
<1> HIDE DEF s
<1> QED
  BY <1>2, <1>3, <1>4, QuietStep DEF Restart

(* A new request: its number is new, and the client no longer knows the    *)
(* head.                                                                   *)
LEMMA PostStep ==
  ASSUME Inv, NEW c \in Clients, post(c)
  PROVE  Inv'
<1> USE DEF Inv
<1> DEFINE s == [client[c] EXCEPT !.headKnown = FALSE, !.at = "wait", !.n = @ + 1]
           q == [c |-> c, n |-> client[c].n + 1, rec |-> client[c].rec]
<1>1. W!Inv'
  BY WriterUnchanged DEF post
<1>2. client[c] \in States /\ client \in [Clients -> States] /\ client[c].n \in 0 .. MaxRequests
      /\ client[c].rec \in Records /\ client[c].n < MaxRequests
  BY ClientType DEF post, Numbered
<1>3. /\ s \in States /\ s.n = client[c].n + 1 /\ s.at = "wait" /\ ~s.headKnown
      /\ q \in Requests /\ q.c = c /\ q.n = client[c].n + 1
  <2>1. client[c].n + 1 \in 1 .. MaxRequests /\ client[c].n + 1 \in 0 .. MaxRequests
    BY <1>2, ClientAssumption
  <2>2. s \in States /\ s.n = client[c].n + 1 /\ s.at = "wait" /\ ~s.headKnown
    BY <1>2, <2>1 DEF States
  <2>3. q \in Requests /\ q.c = c /\ q.n = client[c].n + 1
    BY <1>2, <2>1 DEF Requests
  <2> QED
    BY <2>2, <2>3
<1>4. client' = [client EXCEPT ![c] = s] /\ requests' = requests \cup {q}
  BY <1>2 DEF post, States
<1> HIDE DEF s, q
<1>5. client'[c] = s /\ \A d \in Clients : d # c => client'[d] = client[d]
  BY <1>2, <1>4
<1>6. TypeOK'
  <2>1. client' \in [Clients -> States] /\ requests' \subseteq Requests
    BY <1>2, <1>3, <1>4 DEF TypeOK
  <2> QED
    BY WriterTypesNext, <1>1, <2>1 DEF TypeOK, post
<1>7. \A x \in requests \cup owner \cup Answers : x.c \in Clients /\ x.n \in Nat
  BY DEF TypeOK, Requests, Replies, Answers
<1>8. Numbered'
  <2>1. ASSUME NEW x \in requests \cup owner \cup Answers
        PROVE  x.n <= client'[x.c].n
    BY <1>2, <1>3, <1>5, <1>7 DEF Numbered
  <2>2. q.n <= client'[q.c].n
    BY <1>2, <1>3, <1>5
  <2>3. \A d \in Clients : client'[d].at \in {"sync", "post"} => client'[d].n < MaxRequests
    BY <1>3, <1>5 DEF Numbered
  <2> QED
    BY <1>4, <2>1, <2>2, <2>3 DEF Numbered, post, Answers
<1>9. AnswersDurable' /\ AnswersApart' /\ OneOwner' /\ LastAnswered'
  BY DEF post, AnswersDurable, AnswersApart, OneOwner, LastAnswered, Answers, Same, Durable,
         serverVars, W!Busy
<1>10. ServedOnce'
  <2>1. \A x \in requests \cup owner \cup Answers : ~Same(q, x) /\ ~Same(x, q)
    BY <1>2, <1>3, <1>7 DEF Numbered, Same
  <2> QED
    BY <1>4, <2>1 DEF ServedOnce, Answers, post, Same
<1>11. HeadsKnown' /\ Unsure'
  <2>1. \A d \in Clients : client'[d] = client[d] \/ (client'[d].at = "wait" /\ ~client'[d].headKnown)
    BY <1>3, <1>5
  <2>2. ASSUME NEW d \in Clients, client'[d].at = "idle", client'[d].headKnown
        PROVE  \E a \in accepted' :
                 /\ a.c = d /\ a.n = client'[d].n
                 /\ client'[d].head = [seq |-> a.receipt.seq, head |-> Server!entryHash(a.receipt)]
    <3>1. client'[d] = client[d] /\ accepted' = accepted
      BY <2>1, <2>2 DEF post
    <3>2. PICK a \in accepted :
            /\ a.c = d /\ a.n = client[d].n
            /\ client[d].head = [seq |-> a.receipt.seq, head |-> Server!entryHash(a.receipt)]
      BY <2>2, <3>1 DEF HeadsKnown
    <3> QED
      BY <3>1, <3>2
  <2>3. HeadsKnown'
    BY <2>2 DEF HeadsKnown, Server!entryHash
  <2> QED
    BY <2>1, <2>3 DEF Unsure
<1> QED
  BY <1>1, <1>6, <1>8, <1>9, <1>10, <1>11

(* The receipt of the client's own, last request: accepted, it is the head *)
(* the client knows; refused, the client does not know the head.           *)
LEMMA ReceiveStep ==
  ASSUME Inv, NEW c \in Clients, receive(c)
  PROVE  Inv'
<1> USE DEF Inv
<1>1. W!Inv'
  BY WriterUnchanged DEF receive
<1>2. PICK reply \in replies :
        /\ binds(c, reply)
        /\ replies' = replies \ {reply}
        /\ \/ /\ extends(c, reply.receipt)
              /\ client' = [client EXCEPT ![c].at = "idle", ![c].headKnown = TRUE,
                              ![c].head = [seq |-> reply.receipt.seq,
                                           head |-> Server!entryHash(reply.receipt)]]
              /\ accepted' = accepted \cup {[c |-> c, n |-> client[c].n, receipt |-> reply.receipt]}
           \/ /\ ~extends(c, reply.receipt)
              /\ client' = [client EXCEPT ![c].at = "idle"]
              /\ UNCHANGED accepted
  BY DEF receive
<1>3. /\ client[c] \in States /\ client \in [Clients -> States] /\ ~client[c].headKnown
      /\ client[c].at = "wait"
  BY ClientType DEF receive, Unsure
<1>4. reply \in Replies /\ reply = [c |-> c, n |-> client[c].n, receipt |-> reply.receipt]
  BY <1>2 DEF TypeOK, Replies, binds
<1>5. [seq |-> reply.receipt.seq, head |-> Server!entryHash(reply.receipt)] \in Heads
  BY <1>4 DEF Replies, Heads, Server!Receipts, Server!entryHash, Server!Hashes
<1>6. PICK s \in States :
        /\ client' = [client EXCEPT ![c] = s] /\ s.n = client[c].n /\ s.at = "idle"
        /\ s.headKnown => /\ reply \in accepted'
                          /\ s.head = [seq |-> reply.receipt.seq,
                                       head |-> Server!entryHash(reply.receipt)]
  <2>1. CASE extends(c, reply.receipt)
    <3> DEFINE s == [client[c] EXCEPT !.at = "idle", !.headKnown = TRUE,
                              !.head = [seq |-> reply.receipt.seq,
                                        head |-> Server!entryHash(reply.receipt)]]
    <3>1. s \in States /\ client' = [client EXCEPT ![c] = s] /\ s.n = client[c].n /\ s.at = "idle"
          /\ s.head = [seq |-> reply.receipt.seq, head |-> Server!entryHash(reply.receipt)]
      BY <1>2, <1>3, <1>5, <2>1 DEF States
    <3>2. reply \in accepted'
      BY <1>2, <1>4, <2>1
    <3> QED
      BY <3>1, <3>2
  <2>2. CASE ~extends(c, reply.receipt)
    <3> DEFINE s == [client[c] EXCEPT !.at = "idle"]
    <3>1. s \in States /\ client' = [client EXCEPT ![c] = s] /\ s.n = client[c].n /\ s.at = "idle"
          /\ ~s.headKnown
      BY <1>2, <1>3, <2>2 DEF States
    <3> QED
      BY <3>1
  <2> QED
    BY <2>1, <2>2
<1>7. /\ accepted \subseteq accepted' /\ accepted' \subseteq accepted \cup {reply}
      /\ replies' \subseteq replies /\ reply \in replies /\ Answers' \subseteq Answers
  BY <1>2, <1>4 DEF Answers
<1>8. client'[c] = s /\ \A d \in Clients : d # c => client'[d] = client[d]
  BY <1>3, <1>6
<1>9. TypeOK'
  BY WriterTypesNext, <1>1, <1>3, <1>6, <1>7 DEF TypeOK, receive
<1>10. \A x \in requests \cup owner \cup Answers : x.c \in Clients
  BY DEF TypeOK, Requests, Replies, Answers
<1>11. Numbered'
  BY <1>6, <1>7, <1>8, <1>10 DEF Numbered, receive
<1>12. AnswersDurable' /\ AnswersApart' /\ ServedOnce' /\ LastAnswered'
  BY <1>7
  DEF receive, AnswersDurable, AnswersApart, ServedOnce, LastAnswered, Same, Durable,
      serverVars, W!Busy
<1>13. OneOwner'
  BY <1>7 DEF receive, OneOwner
<1>14. HeadsKnown'
  <2>1. ASSUME NEW d \in Clients, client'[d].at = "idle", client'[d].headKnown
        PROVE  \E a \in accepted' :
                 /\ a.c = d /\ a.n = client'[d].n
                 /\ client'[d].head = [seq |-> a.receipt.seq, head |-> Server!entryHash(a.receipt)]
    <3>1. CASE d = c
      BY <1>2, <1>6, <1>8, <2>1, <3>1 DEF binds
    <3>2. CASE d # c
      <4>1. client'[d] = client[d]
        BY <1>8, <3>2
      <4>2. PICK a \in accepted :
              /\ a.c = d /\ a.n = client[d].n
              /\ client[d].head = [seq |-> a.receipt.seq, head |-> Server!entryHash(a.receipt)]
        BY <2>1, <4>1 DEF HeadsKnown
      <4> QED
        BY <1>7, <4>1, <4>2
    <3> QED
      BY <3>1, <3>2
  <2> QED
    BY <2>1 DEF HeadsKnown, Server!entryHash
<1>15. Unsure'
  BY <1>6, <1>8 DEF Unsure
<1> QED
  BY <1>1, <1>9, <1>11, <1>12, <1>13, <1>14, <1>15

(* Whoever keeps its clients keeps what they know.                         *)
LEMMA ClientsKept ==
  ASSUME Inv, UNCHANGED <<client, accepted>>
  PROVE  HeadsKnown' /\ Unsure'
  BY DEF Inv, HeadsKnown, Unsure, Server!entryHash

(* The writer takes a request that was never served before.                *)
LEMMA PostRecordStep ==
  ASSUME Inv, NEW req \in requests, postRecord(req)
  PROVE  Inv'
<1> USE DEF Inv
<1>1. req \in Requests /\ req.rec \in Records
  BY DEF TypeOK, Requests
<1>2. W!Inv' /\ receipts' = receipts /\ pc' = "record"
  BY <1>1, WriterTakes DEF postRecord
<1>3. TypeOK'
  BY WriterTypesNext, <1>1, <1>2 DEF TypeOK, postRecord
<1>4. Numbered' /\ AnswersDurable' /\ AnswersApart' /\ OneOwner'
  BY <1>2 DEF Numbered, AnswersDurable, AnswersApart, OneOwner, Answers, Durable, postRecord
<1>5. ServedOnce'
  BY DEF ServedOnce, Answers, Same, postRecord
<1>6. LastAnswered'
  BY DEF LastAnswered, ServedOnce, Answers, Same, postRecord
<1>7. HeadsKnown' /\ Unsure'
  BY ClientsKept DEF postRecord
<1> QED
  BY <1>2, <1>3, <1>4, <1>5, <1>6, <1>7

LEMMA LostStep ==
  ASSUME Inv, Lost
  PROVE  Inv'
<1> USE DEF Inv
<1>1. W!Inv'
  BY WriterUnchanged DEF Lost
<1>2. requests' \subseteq requests /\ Answers' \subseteq Answers /\ replies' \subseteq replies
  BY DEF Lost, Answers
<1>3. TypeOK'
  BY WriterTypesNext, <1>1, <1>2 DEF TypeOK, Lost
<1>4. Numbered' /\ AnswersDurable' /\ AnswersApart' /\ OneOwner'
  BY <1>2 DEF Numbered, AnswersDurable, AnswersApart, OneOwner, Durable, Lost, serverVars
<1>5. ServedOnce' /\ LastAnswered'
  BY <1>2 DEF ServedOnce, LastAnswered, Same, Lost, serverVars, W!Busy
<1>6. HeadsKnown' /\ Unsure'
  BY ClientsKept DEF Lost
<1> QED
  BY <1>1, <1>3, <1>4, <1>5, <1>6

(* The writer goes on, fails or restarts: what was answered stays durable. *)
(* When it returns, the answer goes to the request it serves, with a       *)
(* receipt no other answer has.                                            *)
LEMMA ServeStep ==
  ASSUME Inv, Serve
  PROVE  Inv'
<1> USE DEF Inv
<1>1. /\ W!Inv' /\ W!SyncedStays
      /\ returned' = returned \/ W!Returns
      /\ pc \notin W!Busy => pc' \notin W!Busy /\ Len(receipts'.lines) <= Len(receipts.lines)
  BY WriterServes DEF Serve
<1>2. /\ receipts.synced \in Nat /\ receipts'.synced \in Nat
      /\ Len(receipts.lines) \in Nat /\ Len(receipts'.lines) \in Nat
      /\ receipts'.synced <= Len(receipts'.lines) /\ next \in Server!Receipts
  BY <1>1, WriterTypes, WriterTypesNext
<1>3. UNCHANGED <<owner, client, requests, accepted, restarts>>
  BY DEF Serve
<1>4. \A x \in Answers : /\ Durable(x.receipt)'
                         /\ x.receipt.seq \in 1 .. receipts.synced
  <2> SUFFICES ASSUME NEW x \in Answers
               PROVE  Durable(x.receipt)' /\ x.receipt.seq \in 1 .. receipts.synced
    OBVIOUS
  <2>1. Durable(x.receipt)
    BY DEF AnswersDurable
  <2> QED
    BY <1>1, <1>2, <2>1 DEF Durable, W!SyncedStays
<1>5. HeadsKnown' /\ Unsure'
  BY <1>3, ClientsKept
<1>6. CASE returned' = returned
  <2>1. replies' = replies /\ Answers' = Answers
    BY <1>3, <1>6 DEF Serve, Answers
  <2>2. TypeOK'
    BY <1>1, <1>3, <2>1, WriterTypesNext DEF TypeOK
  <2>3. Numbered' /\ AnswersApart' /\ OneOwner' /\ ServedOnce'
    BY <1>3, <2>1 DEF Numbered, AnswersApart, OneOwner, ServedOnce, Same
  <2>4. AnswersDurable'
    BY <1>4, <2>1 DEF AnswersDurable, Durable
  <2>5. ASSUME NEW q \in owner, NEW x \in Answers, Same(q, x)
        PROVE  pc' \notin W!Busy /\ x.receipt.seq = Len(receipts'.lines)
    <3>1. pc \notin W!Busy /\ x.receipt.seq = Len(receipts.lines)
      BY <2>5 DEF LastAnswered
    <3>2. x.receipt.seq \in 1 .. receipts'.synced
      BY <1>4 DEF Durable
    <3> QED
      BY <1>1, <1>2, <3>1, <3>2
  <2>6. LastAnswered'
    BY <1>3, <2>1, <2>5 DEF LastAnswered, Same, W!Busy
  <2> QED
    BY <1>1, <1>5, <2>2, <2>3, <2>4, <2>6
<1>7. CASE W!Returns
  <2> DEFINE new == {[c |-> q.c, n |-> q.n, receipt |-> next] : q \in owner}
  <2>1. /\ replies' = replies \cup new /\ Answers' = Answers \cup new
        /\ pc = "syncReceipt" /\ pc' = "ready"
        /\ receipts.synced < next.seq /\ next.seq = Len(receipts'.lines)
        /\ next.seq \in 1 .. receipts'.synced /\ receipts'.lines[next.seq] = next
    BY <1>3, <1>7 DEF Serve, Answers, W!Returns
  <2>2. \A x \in new : /\ x \in Replies /\ x.receipt = next
                       /\ \E q \in owner : x.c = q.c /\ x.n = q.n
    BY <1>2 DEF TypeOK, Requests, Replies
  <2>3. \A x, y \in new : x = y
    BY DEF OneOwner
  <2>4. \A x \in new, y \in Answers : x.receipt.seq # y.receipt.seq
    BY <1>2, <1>4, <2>1, <2>2
  <2>5. owner = {} => new = {}
    OBVIOUS
  <2> HIDE DEF new
  <2>6. TypeOK'
    BY <1>1, <1>3, <2>1, <2>2, WriterTypesNext DEF TypeOK
  <2>7. Numbered'
    BY <1>3, <2>1, <2>2 DEF Numbered
  <2>8. AnswersDurable'
    BY <1>4, <2>1, <2>2 DEF AnswersDurable, Durable
  <2>9. AnswersApart' /\ OneOwner'
    BY <1>3, <2>1, <2>3, <2>4, <2>5 DEF AnswersApart, OneOwner
  <2>10. ServedOnce'
    BY <1>3, <2>1, <2>2 DEF ServedOnce, Same
  <2>11. \A q \in owner, x \in Answers : ~Same(q, x)
    BY <2>1 DEF LastAnswered, W!Busy
  <2>12. LastAnswered'
    BY <1>3, <2>1, <2>2, <2>11 DEF LastAnswered, Same, W!Busy
  <2> QED
    BY <1>1, <1>5, <2>6, <2>7, <2>8, <2>9, <2>10, <2>12
<1> QED
  BY <1>1, <1>6, <1>7

LEMMA NextInv == Inv /\ [Next]_vars => Inv'
<1> SUFFICES ASSUME Inv, [Next]_vars PROVE Inv'
  OBVIOUS
<1>1. ASSUME NEW c \in Clients,
             \/ \E rec \in Records : Start(c, rec)
             \/ syncHead(c) \/ post(c) \/ receive(c) \/ fails(c) \/ Restart(c)
      PROVE  Inv'
  BY <1>1, StartStep, SyncHeadStep, PostStep, ReceiveStep, FailsStep, RestartStep
<1>2. CASE \E req \in requests : postRecord(req)
  BY <1>2, PostRecordStep
<1>3. CASE Lost
  BY <1>3, LostStep
<1>4. CASE Serve
  BY <1>4, ServeStep
<1>5. CASE UNCHANGED vars
  <2>1. W!Inv'
    BY <1>5, WriterUnchanged DEF Inv, vars
  <2>2. TypeOK'
    BY <1>5, <2>1, WriterTypesNext DEF Inv, TypeOK, vars
  <2>3. HeadsKnown' /\ Unsure'
    BY <1>5, ClientsKept DEF vars
  <2> QED
    BY <1>5, <2>1, <2>2, <2>3
    DEF Inv, vars, serverVars, Numbered, AnswersDurable, AnswersApart, OneOwner, ServedOnce,
        LastAnswered, Answers, Same, Durable, W!Busy
<1> QED
  BY <1>1, <1>2, <1>3, <1>4, <1>5 DEF Next

-----------------------------------------------------------------------------
(* The theorems.                                                           *)

LEMMA InvHolds == Spec => []Inv
  BY InitInv, NextInv, PTL DEF Spec

(* Whatever is lost, times out, crashes or restarts, and however many      *)
(* operators share the writer (remote.go, Append): a receipt that          *)
(* RemoteWriter.Append returned is on the writer's disk in its place, and  *)
(* no two appends were given the same receipt.                             *)
THEOREM AcceptedSound == Spec => []AcceptedIsSound
<1>1. Inv => AcceptedIsSound
  BY DEF Inv, AcceptedIsSound, AcceptedIsDurable, OneReceiptPerAppend, AnswersDurable,
         AnswersApart, Answers, Durable
<1> QED
  BY <1>1, InvHolds, PTL

(* An idle operator that believes to know the head is right, unless the    *)
(* writer has since taken a request that is not this operator's last one   *)
(* (remote.go, headKnown): lost replies, timeouts, crashes of the writer   *)
(* and restarts never leave it with a head that all its appends would be   *)
(* refused for.                                                            *)
THEOREM KnownHeadCurrent == Spec => []KnownHeadIsCurrent
<1>1. Inv => KnownHeadIsCurrent
  <2> SUFFICES ASSUME Inv, NEW c \in Clients,
                      client[c].at = "idle", client[c].headKnown,
                      \A req \in owner : req.c = c /\ req.n = client[c].n,
                      pc = "ready"
               PROVE  client[c].head = chain
    BY DEF KnownHeadIsCurrent
  <2> USE DEF Inv
  <2>1. PICK a \in accepted :
          /\ a.c = c /\ a.n = client[c].n
          /\ client[c].head = [seq |-> a.receipt.seq, head |-> Server!entryHash(a.receipt)]
    BY DEF HeadsKnown
  <2>2. PICK q \in owner : Same(q, a)
    BY <2>1 DEF OneOwner, Answers, Same
  <2>3. Durable(a.receipt) /\ a.receipt.seq = Len(receipts.lines)
    BY <2>2 DEF LastAnswered, AnswersDurable, Answers
  <2> QED
    BY <2>1, <2>3, WriterReady
<1> QED
  BY <1>1, InvHolds, PTL

=============================================================================
