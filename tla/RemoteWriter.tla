---------------------------- MODULE RemoteWriter ----------------------------
(***************************************************************************)
(* receipts.RemoteWriter in the operators, talking over HTTP to the        *)
(* receipt-writer process (LocalWriter): requests that time out on the     *)
(* client while the writer still has them, replies that are lost, a writer *)
(* that crashes in the middle, operators that restart, and several         *)
(* operators that share one writer.  Keys are pinned, as required unless   *)
(* the demo setting is on; every receipt the writer signs verifies.        *)
(***************************************************************************)
EXTENDS Naturals, Sequences

CONSTANTS Clients,                 \* operator processes
          Records, MaxAppends, MaxCrashes,
          MaxRequests,             \* bound: POSTs per client
          MaxRestarts              \* bound: restarts of operators

ASSUME ClientAssumption ==
  /\ Records # {} /\ MaxAppends \in Nat /\ MaxCrashes \in Nat
  /\ MaxRequests \in Nat /\ MaxRestarts \in Nat

VARIABLES receipts, records, pc, chain, next, returned, appends, crashes,
          owner,     \* the request the writer is storing, or stored last
          client,    \* per client: its step, headKnown, headSeq and headHash, the record, requests sent
          requests,  \* POSTs on their way or waiting for the writer's mutex
          replies,   \* replies on their way
          accepted,  \* the receipts RemoteWriter.Append returned
          restarts

Server == INSTANCE LocalWriter

serverVars == <<receipts, records, pc, chain, next, returned, appends, crashes>>
vars == <<serverVars, owner, client, requests, replies, accepted, restarts>>

Requests == [c : Clients, n : 1 .. MaxRequests, rec : Records]
Replies == [c : Clients, n : 1 .. MaxRequests, receipt : Server!Receipts]
Heads == [seq : Nat, head : Server!Hashes]
States == [at : {"idle", "sync", "post", "wait"}, headKnown : BOOLEAN, head : Heads,
           rec : Records, n : 0 .. MaxRequests]

NoHead == [seq |-> 0, head |-> <<>>]
NewClient(n) == [at |-> "idle", headKnown |-> FALSE, head |-> NoHead,
                 rec |-> CHOOSE r \in Records : TRUE, n |-> n]

Init ==
  /\ Server!Init
  /\ owner = {}
  /\ client = [c \in Clients |-> NewClient(0)]
  /\ requests = {} /\ replies = {} /\ accepted = {}
  /\ restarts = 0

-----------------------------------------------------------------------------
(* RemoteWriter.Append.  w.mu makes it one at a time per client.           *)

(* A pinned writer without a known head reads it first.                    *)
Start(c, rec) ==
  /\ client[c].at = "idle"
  /\ client[c].n < MaxRequests
  /\ client' = [client EXCEPT ![c].rec = rec,
                              ![c].at = IF client[c].headKnown THEN "post" ELSE "sync"]
  /\ UNCHANGED <<serverVars, owner, requests, replies, accepted, restarts>>

(* GET /v1/head: LocalWriter.Head waits for the mutex and also answers for *)
(* a broken writer.                                                        *)
syncHead(c) ==
  /\ client[c].at = "sync"
  /\ pc \in {"ready", "broken"}
  /\ client' = [client EXCEPT ![c].head = chain, ![c].headKnown = TRUE, ![c].at = "post"]
  /\ UNCHANGED <<serverVars, owner, requests, replies, accepted, restarts>>

(* Mutant: the head is taken to be known until a reply says otherwise.     *)
post_HeadKept(c) ==
  /\ client[c].at = "post"
  /\ client' = [client EXCEPT ![c].at = "wait", ![c].n = @ + 1]
  /\ requests' = requests \cup {[c |-> c, n |-> client[c].n + 1, rec |-> client[c].rec]}
  /\ UNCHANGED <<serverVars, owner, replies, accepted, restarts>>

(* POST /v1/records: the head is unknown until a verified reply extends    *)
(* it.                                                                     *)
post(c) ==
  /\ client[c].at = "post"
  /\ client' = [client EXCEPT ![c].headKnown = FALSE, ![c].at = "wait", ![c].n = @ + 1]
  /\ requests' = requests \cup {[c |-> c, n |-> client[c].n + 1, rec |-> client[c].rec]}
  /\ UNCHANGED <<serverVars, owner, replies, accepted, restarts>>

(* The reply to this request, whose receipt binds to the record sent.      *)
binds(c, reply) ==
  reply.c = c /\ reply.n = client[c].n /\ reply.receipt.rec = client[c].rec

extends(c, r) == r.seq = client[c].head.seq + 1 /\ r.prev = client[c].head.head

(* A receipt that extends the head by one is accepted; any other reply is  *)
(* an error, and the head stays unknown.                                   *)
receive(c) ==
  /\ client[c].at = "wait"
  /\ \E reply \in replies :
       LET r == reply.receipt
       IN  /\ binds(c, reply)
           /\ replies' = replies \ {reply}
           /\ \/ /\ extends(c, r)
                 /\ client' = [client EXCEPT ![c].at = "idle", ![c].headKnown = TRUE,
                                 ![c].head = [seq |-> r.seq, head |-> Server!entryHash(r)]]
                 /\ accepted' = accepted \cup {[c |-> c, n |-> client[c].n, receipt |-> r]}
              \/ /\ ~extends(c, r)
                 /\ client' = [client EXCEPT ![c].at = "idle"]
                 /\ UNCHANGED accepted
  /\ UNCHANGED <<serverVars, owner, requests, restarts>>

(* The call fails or times out: Append returns the error.  What the client *)
(* sent may still be on its way.                                           *)
fails(c) ==
  /\ client[c].at \in {"sync", "wait"}
  /\ client' = [client EXCEPT ![c].at = "idle"]
  /\ UNCHANGED <<serverVars, owner, requests, replies, accepted, restarts>>

(* The operator process restarts.                                          *)
Restart(c) ==
  /\ restarts < MaxRestarts
  /\ restarts' = restarts + 1
  /\ client' = [client EXCEPT ![c] = NewClient(client[c].n)]
  /\ UNCHANGED <<serverVars, owner, requests, replies, accepted>>

-----------------------------------------------------------------------------
(* The receipt-writer.                                                     *)

(* postRecord: a waiting request gets the mutex, whether or not its client *)
(* still waits.                                                            *)
postRecord(req) ==
  /\ Server!chainNext(req.rec)
  /\ requests' = requests \ {req}
  /\ owner' = {req}
  /\ UNCHANGED <<client, replies, accepted, restarts>>

(* A request, or a reply, is lost; a broken writer refuses a request.      *)
Lost ==
  /\ \/ \E req \in requests : requests' = requests \ {req} /\ UNCHANGED replies
     \/ \E reply \in replies : replies' = replies \ {reply} /\ UNCHANGED requests
  /\ UNCHANGED <<serverVars, owner, client, accepted, restarts>>

(* The writer's own steps; when Append returns, the handler replies.       *)
Serve ==
  /\ Server!Append_ \/ Server!Open \/ Server!LivenessProbe \/ Server!Kill \/ Server!PowerLoss
  /\ replies' = IF returned' = returned THEN replies
                ELSE replies \cup {[c |-> req.c, n |-> req.n, receipt |-> next] : req \in owner}
  /\ UNCHANGED <<owner, client, requests, accepted, restarts>>

Next ==
  \/ \E c \in Clients :
       \/ \E rec \in Records : Start(c, rec)
       \/ syncHead(c) \/ post(c) \/ receive(c) \/ fails(c) \/ Restart(c)
  \/ \E req \in requests : postRecord(req)
  \/ Lost
  \/ Serve

Spec == Init /\ [][Next]_vars

-----------------------------------------------------------------------------
(* Properties.                                                             *)

TypeOK ==
  /\ Server!TypeOK
  /\ owner \subseteq Requests
  /\ client \in [Clients -> States]
  /\ requests \subseteq Requests
  /\ replies \subseteq Replies
  /\ accepted \subseteq Replies
  /\ restarts \in 0 .. MaxRestarts

(* What the controller acts on: a receipt RemoteWriter.Append returned is  *)
(* on the writer's disk, in its place, and stays there whatever crashes.   *)
AcceptedIsDurable ==
  \A a \in accepted :
    /\ a.receipt.seq \in 1 .. receipts.synced
    /\ receipts.lines[a.receipt.seq] = a.receipt

(* One receipt vouches for one decision: no two appends, of one operator   *)
(* or of two, were given the same place in the chain.                      *)
OneReceiptPerAppend ==
  \A a, b \in accepted : a.receipt.seq = b.receipt.seq => a = b

(* A receipt the controller acts on is its own and stays.                  *)
AcceptedIsSound == AcceptedIsDurable /\ OneReceiptPerAppend

(* A failure of any kind forces a resync: an operator that believes to     *)
(* know the head is wrong about it only if the writer stored someone       *)
(* else's record, or a request the operator had given up, after its last   *)
(* one.  Its own lost replies and the writer's crashes never leave it with *)
(* a head that every further append would be refused for.                  *)
KnownHeadIsCurrent ==
  \A c \in Clients :
    (/\ client[c].at = "idle" /\ client[c].headKnown
     /\ \A req \in owner : req.c = c /\ req.n = client[c].n
     /\ pc = "ready") => client[c].head = chain
=============================================================================
