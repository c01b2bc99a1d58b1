------------------------ MODULE AuthorisationProofs ------------------------
(***************************************************************************)
(* For any number of operators, users, policies and actions, and any       *)
(* bounds: no action is executed before its receipt is stored, none        *)
(* without the authority of a policy or of a stamped human decision, and   *)
(* the human receipts of one decision never disagree.  Where no gate fails *)
(* a rejection is final and a held action stays until it is decided.       *)
(***************************************************************************)
EXTENDS WorkloadControllerProofs

-----------------------------------------------------------------------------
(* The invariant.                                                          *)

(* A MAC was computed for a decision on the pending action its user read.  *)
Attested(m, dec) ==
  m.id # 0 => [id |-> m.id, seen |-> m.id, label |-> m.label, edit |-> m.edit] \in dec

(* A pending action is the one its decision was taken on.                  *)
Logged(w, lg) == w.pending.id # 0 => w.pending.action = lg[w.pending.id].action

(* An action that a human may still release: the policy is the one it was  *)
(* held under.                                                             *)
Releasable(w) == OnApprovalPath(w) /\ ~approvalConsumed(w, w.pending.id)
Reviewed(w, lg) == Releasable(w) => w.policy = lg[w.pending.id].policy

Sound(w, lg, dec, hook) == Attested(w.ann.mac, dec) /\ Logged(w, lg) /\ (hook => Reviewed(w, lg))

Copies ==
  /\ Sound(obj, log, decided, webhook)
  /\ \A o \in Operators : /\ Sound(cache[o], log, decided, webhook)
                          /\ Sound(wl[o], log, decided, webhook)

(* What agentctl read at the stored version is what is stored.             *)
Views ==
  \A u \in Users :
    /\ view[u].rv <= obj.rv
    /\ view[u].rv = obj.rv => obj.phase = "PendingApproval" /\ view[u].id = obj.pending.id

Deciding == DecidedWhatWasRead /\ (decided # {} => webhook)

StampInv == Copies /\ Views /\ Deciding

(* The decision behind a human label.                                      *)
Backed(id, label, action, lg, dec) ==
  \E d \in dec : /\ d.id = id /\ d.label = label
                 /\ action = IF d.label = "edit" THEN d.edit ELSE lg[id].action

Receipt(j) == [id |-> j.id, label |-> j.label, action |-> j.action]

WriteAhead == ReceiptsEnabled /\ ReceiptsRequired

(* What entitles the reconcile of o to go on: an allow of the policy its   *)
(* copy holds, and then of the policy that granted the reservation; or a   *)
(* decision that policy does not block.                                    *)
Allows(p, a) == Decide(LayersOf[p][a]).outcome = "allow"
Blocks(p, a) == humanBlocked(LayersOf[p][a])

DirectJob(at, w, j, lg) ==
  /\ j.label = ""
  /\ WriteAhead => lg[j.id].stored
  /\ Allows(IF at = "reserve" THEN w.policy ELSE j.granted, j.action)

HumanJob(at, w, j, lg, dec, hum) ==
  /\ Backed(j.id, j.label, j.action, lg, dec)
  /\ at # "run" => w.phase = "PendingApproval"
  /\ at # "receipt" => j.label # "reject" /\ (WriteAhead => Receipt(j) \in hum)
  /\ at # "receipt" \/ (j.label # "reject" /\ ~j.blocked) =>
       ~Blocks(IF at = "run" THEN j.granted ELSE w.policy, j.action)

OnDirect(at) == at \in {"reserve", "execute"}
OnHuman(at) == at \in {"receipt", "mark", "run"}

JobsEntitled ==
  \A o \in Operators :
    /\ OnDirect(pc[o]) => DirectJob(pc[o], wl[o], job[o], log)
    /\ OnHuman(pc[o]) => HumanJob(pc[o], wl[o], job[o], log, decided, human)

(* The same of what was executed.                                          *)
Entitled(e, lg, dec, hum) ==
  IF ByHuman(e)
  THEN /\ Backed(e.id, e.label, e.action, lg, dec) /\ e.label # "reject"
       /\ ~Blocks(e.granted, e.action)
       /\ WriteAhead => Receipt(e) \in hum
  ELSE Allows(e.granted, e.action) /\ (WriteAhead => lg[e.id].stored)

ExecsEntitled == \A i \in 1 .. Len(execs) : Entitled(execs[i], log, decided, human)

(* With one operator, the freeze lasts until the call is made.             *)
OneOperator == \A o, p \in Operators : o = p

FreezeInv ==
  OneOperator =>
    /\ ExecutedUnderReviewedPolicy
    /\ \A o \in Operators :
         pc[o] = "run" => webhook /\ OnApprovalPath(obj) /\ obj.policy = log[job[o].id].policy

(* The human resolutions, recorded or about to be.  One whose action can   *)
(* still be released is the decision stamped on the stored object.         *)
Resolutions == human \cup {Receipt(job[o]) : o \in {q \in Operators : OnHuman(pc[q])}}

Stands(r, w) ==
  Releasable(w) /\ w.pending.id = r.id =>
    Reads(w) = "ok" /\ w.ann.label = r.label /\ target(w) = r.action

AgreeInv ==
  /\ \A r \in human : r.id \in 1 .. Len(log)
  /\ \A o \in Operators, r \in human :
       pc[o] = "commit" /\ wl[o].pending.id # 0 => r.id # wl[o].pending.id
  /\ \A r \in Resolutions : Stands(r, obj)
  /\ \A r1, r2 \in Resolutions : r1.id = r2.id => r1 = r2

-----------------------------------------------------------------------------
(* Copies of the workload.                                                 *)

(* Entries of the log stay.                                                *)
LEMMA KeptEntries ==
  ASSUME log \in Seq(Entries), LogGrows
  PROVE  \A id \in 1 .. Len(log) : id \in 1 .. Len(log') /\ log'[id] = log[id]
<1>1. CASE log' = log
  BY <1>1
<1>2. CASE \E e \in Entries : log' = Append(log, e)
  BY <1>2
<1> QED
  BY <1>1, <1>2 DEF LogGrows

(* A longer log and more decisions keep a copy sound.                      *)
LEMMA SoundGrows ==
  ASSUME log \in Seq(Entries), LogGrows, NEW w, KnownIds(w, log), NEW dec, NEW more, dec \subseteq more,
         NEW hook, Sound(w, log, dec, hook)
  PROVE  Sound(w, log', more, hook)
<1>1. w.pending.id # 0 => log'[w.pending.id] = log[w.pending.id]
  BY KeptEntries DEF KnownIds, HeldId
<1> QED
  BY <1>1 DEF Sound, Attested, Logged, Reviewed, Releasable, OnApprovalPath

(* A copy of the same case: it differs in its version, phase and marks.    *)
SameCase(v, w) ==
  /\ v.policy = w.policy /\ v.ann = w.ann /\ v.last = w.last /\ v.consumed = w.consumed
  /\ v.pending.id = w.pending.id /\ v.pending.action = w.pending.action

Kept(v, w) == SameCase(v, w) /\ v.phase \in {w.phase, "Failed"}

(* Such a copy is as sound, unless it is back in phase PendingApproval.    *)
LEMMA SoundKept ==
  ASSUME NEW v, NEW w, Kept(v, w), NEW lg, NEW dec, NEW hook, Sound(w, lg, dec, hook)
  PROVE  Sound(v, lg, dec, hook)
BY DEF Kept, SameCase, Sound, Logged, Reviewed, Releasable, OnApprovalPath, approvalConsumed

(* A copy with nothing pending needs its annotations only.                 *)
LEMMA SoundEmpty ==
  ASSUME NEW v, v.pending.id = 0, NEW lg, NEW dec, NEW hook, Attested(v.ann.mac, dec)
  PROVE  Sound(v, lg, dec, hook)
BY DEF Sound, Logged, Reviewed, Releasable, OnApprovalPath

(* The absent workload is sound.                                           *)
LEMMA SoundAbsent ==
  ASSUME NEW lg, NEW dec, NEW hook
  PROVE  Sound(NoObject, lg, dec, hook)
<1>1. NoObject.pending.id = 0 /\ NoObject.ann.mac.id = 0
  BY DEF NoObject, NoPending, NoAnnotations, NoMac
<1> HIDE DEF NoObject
<1> QED
  BY <1>1, SoundEmpty DEF Attested

ObjectKept == obj' = obj \/ (obj'.rv = obj.rv + 1 /\ Kept(obj', obj))

(* Writing a changed copy of the stored version.                           *)
LEMMA KeptWrite ==
  ASSUME obj \in Objects, NEW w \in Objects, Fresh(w) => w = obj,
         NEW new \in Objects, Writes(new), new.rv = w.rv, Kept(new, w)
  PROVE  ObjectKept
<1>1. CASE obj' = obj
  BY <1>1 DEF ObjectKept
<1>2. CASE obj' # obj
  <2>1. w = obj /\ obj' = [new EXCEPT !.rv = obj.rv + 1]
    BY <1>2 DEF Writes, Fresh
  <2>2. obj.rv + 1 \in Nat
    BY DEF Objects
  <2>3. \A v \in Nat : LET n == [new EXCEPT !.rv = v]
                       IN  n.rv = v /\ SameCase(n, new) /\ n.phase = new.phase
    BY DEF SameCase, Objects
  <2> QED
    BY <2>1, <2>2, <2>3 DEF ObjectKept, Kept, SameCase
<1> QED
  BY <1>1, <1>2

(* Gates, failed proposals and holds write such a copy of the cache.       *)
LEMMA IdleKept ==
  ASSUME TypeInv, OnceInv, NEW o \in Operators,
         GateFails(o) \/ ProposeFails(o) \/ HoldReplay(o) \/ HoldUnverified(o)
  PROVE  ObjectKept
<1>1. obj \in Objects /\ cache[o] \in Objects
  BY TypeParts DEF TypeInv, OperatorType
<1>2. Fresh(cache[o]) => cache[o] = obj
  BY FreshIsObject
<1>3. CASE GateFails(o) \/ ProposeFails(o)
  <2> DEFINE new == [cache[o] EXCEPT !.phase = "Failed"]
  <2>1. new \in Objects /\ new.rv = cache[o].rv /\ Kept(new, cache[o])
    BY <1>1 DEF Objects, Phases, Kept, SameCase
  <2>2. Writes(new)
    BY <1>1, <1>3, <2>1, WriteCases DEF GateFails, ProposeFails
  <2> QED
    BY <1>1, <1>2, <2>1, <2>2, KeptWrite
<1>4. CASE HoldReplay(o) \/ HoldUnverified(o)
  <2>1. PICK reason \in Holds : holdApproval(cache[o], reason)
    BY <1>4, ReadsType DEF HoldReplay, HoldUnverified, Holds
  <2> DEFINE new == [cache[o] EXCEPT !.hold = reason]
  <2>2. new \in Objects /\ Writes(new)
    BY <1>1, <2>1, HoldCases
  <2>3. new.rv = cache[o].rv /\ Kept(new, cache[o])
    BY <1>1 DEF Objects, Kept, SameCase
  <2> QED
    BY <1>1, <1>2, <2>2, <2>3, KeptWrite
<1> QED
  BY <1>3, <1>4

(* So does the reservation, of the copy its decision was taken on.         *)
LEMMA ReserveKept ==
  ASSUME TypeInv, OnceInv, NEW o \in Operators, ReserveExecution(o)
  PROVE  ObjectKept
<1>1. obj \in Objects /\ wl[o] \in Objects
  BY TypeParts DEF TypeInv, OperatorType
<1>2. pc[o] = "reserve" /\ Writes(wl[o])
  BY ReserveEffect
<1>3. Fresh(wl[o]) => wl[o] = obj
  BY <1>2, FreshIsObject
<1>4. Kept(wl[o], wl[o])
  BY DEF Kept, SameCase
<1> QED
  BY <1>1, <1>2, <1>3, <1>4, KeptWrite

(* The intent is recorded over the stored version, in phase and policy.    *)
LEMMA RecordKept ==
  ASSUME TypeInv, OnceInv, NEW o \in Operators, RecordIntent(o)
  PROVE  ObjectKept /\ cache[o] = obj /\ obj'.phase = obj.phase /\ SameCase(obj', obj)
<1> DEFINE w == cache[o]
           new == [w EXCEPT !.pending.state = "Recording", !.pending.decision = w.ann.label]
<1>1. obj \in Objects /\ w \in Objects
  BY TypeParts DEF TypeInv, OperatorType
<1>2. Fresh(w) /\ obj' = Stored(new)
  BY DEF RecordIntent
<1>3. w = obj
  BY <1>2, FreshIsObject
<1>4. /\ new \in Objects /\ new.rv = w.rv /\ Kept(new, w) /\ new.phase = w.phase
  BY <1>1 DEF Objects, Pendings, States, Annotations, Kept, SameCase
<1> HIDE DEF new
<1>5. \/ obj' = obj
      \/ obj' = [new EXCEPT !.rv = obj.rv + 1]
  BY <1>1, <1>2, <1>4, StoredCases
<1>6. Writes(new)
  BY <1>3, <1>4, <1>5 DEF Writes, Fresh
<1>7. ObjectKept
  BY <1>1, <1>3, <1>4, <1>6, KeptWrite
<1>8. obj'.phase = obj.phase
  BY <1>3, <1>4, <1>5 DEF Objects
<1> QED
  BY <1>3, <1>7, <1>8 DEF ObjectKept, Kept, SameCase

(* A failed receipt puts the action back as it was held.                   *)
LEMMA HoldReceiptKept ==
  ASSUME TypeInv, OnceInv, NEW o \in Operators, HoldReceiptFailed(o)
  PROVE  ObjectKept
<1> DEFINE w == [wl[o] EXCEPT !.pending.state = "", !.pending.decision = ""]
           new == [w EXCEPT !.hold = "ReceiptFailed"]
<1>1. obj \in Objects /\ wl[o] \in Objects
  BY TypeParts DEF TypeInv, OperatorType
<1>2. w \in Objects /\ w.rv = wl[o].rv /\ Kept(w, wl[o])
  BY <1>1 DEF Objects, Pendings, States, Kept, SameCase
<1>3. pc[o] = "receipt" /\ holdApproval(w, "ReceiptFailed")
  BY DEF HoldReceiptFailed
<1> HIDE DEF w
<1>4. new \in Objects /\ Writes(new)
  BY <1>1, <1>2, <1>3, HoldCases DEF Holds
<1>5. new.rv = w.rv /\ Kept(new, w)
  BY <1>2 DEF Objects, Kept, SameCase
<1>6. new.rv = wl[o].rv /\ Kept(new, wl[o])
  BY <1>2, <1>5 DEF Kept, SameCase
<1>7. Fresh(wl[o]) => wl[o] = obj
  BY <1>3, FreshIsObject
<1> QED
  BY <1>1, <1>4, <1>6, <1>7, KeptWrite

(* Executing is stored over the stored version, in phase and policy.       *)
LEMMA MarkKept ==
  ASSUME TypeInv, OnceInv, NEW o \in Operators, MarkExecuting(o)
  PROVE  /\ ObjectKept
         /\ pc'[o] = "run" => /\ wl[o] = obj /\ obj'.phase = obj.phase /\ SameCase(obj', obj)
                              /\ wl'[o] = obj'
                              /\ job'[o] = [job[o] EXCEPT !.granted = obj.policy]
<1> DEFINE new == [wl[o] EXCEPT !.pending.state = "Executing"]
<1>1. obj \in Objects /\ wl[o] \in Objects /\ OperatorType
  BY TypeParts DEF TypeInv, OperatorType
<1>2. CASE Fresh(wl[o])
  <2>1. wl[o] = obj
    BY <1>2, FreshIsObject DEF MarkExecuting
  <2>2. new \in Objects /\ new.rv = wl[o].rv /\ Kept(new, wl[o]) /\ new.phase = wl[o].phase
    BY <1>1 DEF Objects, Pendings, States, Kept, SameCase
  <2>3. obj' = Stored(new) /\ wl' = [wl EXCEPT ![o] = obj'] /\ job' = [job EXCEPT ![o].granted = obj.policy]
    BY <1>2 DEF MarkExecuting
  <2> HIDE DEF new
  <2>4. \/ obj' = obj
        \/ obj' = [new EXCEPT !.rv = obj.rv + 1]
    BY <1>1, <2>2, <2>3, StoredCases
  <2>5. Writes(new)
    BY <2>1, <2>2, <2>4 DEF Writes, Fresh
  <2>6. ObjectKept
    BY <1>1, <2>1, <2>2, <2>5, KeptWrite
  <2>7. obj'.phase = obj.phase
    BY <2>1, <2>2, <2>4 DEF Objects
  <2>8. wl'[o] = obj' /\ job'[o] = [job[o] EXCEPT !.granted = obj.policy]
    BY <1>1, <2>3 DEF OperatorType
  <2> QED
    BY <2>1, <2>6, <2>7, <2>8 DEF ObjectKept, Kept, SameCase
<1>3. CASE ~Fresh(wl[o])
  <2>1. obj' = obj /\ EndReconcile(o)
    BY <1>3 DEF MarkExecuting
  <2> QED
    BY <1>1, <2>1 DEF ObjectKept, EndReconcile, OperatorType
<1> QED
  BY <1>2, <1>3

-----------------------------------------------------------------------------
(* The first part of the invariant: stamps, copies and views.              *)

(* What was read at the stored version is stored, while the version grows. *)
LEMMA ViewsStep ==
  ASSUME TypeInv, Views, view' = view, ObjectMoves
  PROVE  Views'
<1>1. obj.rv \in Nat /\ \A u \in Users : view[u].rv \in Nat
  BY TypeParts DEF TypeInv, ClientType, Objects
<1>2. CASE obj' = obj
  BY <1>2 DEF Views
<1>3. CASE obj'.rv = obj.rv + 1
  <2>1. \A u \in Users : view[u].rv <= obj'.rv /\ view[u].rv # obj'.rv
    BY <1>1, <1>3 DEF Views
  <2> QED
    BY <2>1 DEF Views
<1> QED
  BY <1>2, <1>3 DEF ObjectMoves

(* A kept object is as sound as it was.                                    *)
LEMMA KeptSound ==
  ASSUME TypeInv, Copies, LogGrows, ObjectKept
  PROVE  ObjectMoves /\ Sound(obj', log', decided, webhook)
<1>1. Sound(obj, log', decided, webhook)
  BY SoundGrows, TypeParts DEF TypeInv, Known, Copies
<1> QED
  BY <1>1, SoundKept DEF ObjectKept, ObjectMoves

(* A step of the reconcile of o.                                           *)
LEMMA StampStep ==
  ASSUME TypeInv, StampInv, NEW o \in Operators, Others(o), cache' = cache, LogGrows,
         UNCHANGED clientVars, ObjectMoves, Sound(obj', log', decided, webhook),
         Sound(wl'[o], log', decided, webhook)
  PROVE  StampInv'
<1>1. Views' /\ Deciding'
  BY ViewsStep DEF StampInv, Deciding, DecidedWhatWasRead, clientVars
<1>2. log \in Seq(Entries)
  BY TypeParts DEF TypeInv
<1>3. ASSUME NEW q \in Operators PROVE Sound(cache'[q], log', decided', webhook')
  <2>1. Sound(cache[q], log', decided, webhook)
    BY <1>2, SoundGrows DEF TypeInv, Known, StampInv, Copies
  <2> QED
    BY <2>1 DEF clientVars
<1>4. ASSUME NEW q \in Operators PROVE Sound(wl'[q], log', decided', webhook')
  <2>1. CASE q = o
    BY <2>1 DEF clientVars
  <2>2. CASE q # o
    <3>1. Sound(wl[q], log', decided, webhook)
      BY <1>2, SoundGrows DEF TypeInv, Known, StampInv, Copies
    <3> QED
      BY <2>2, <3>1 DEF Others, clientVars
  <2> QED
    BY <2>1, <2>2
<1>5. Sound(obj', log', decided', webhook')
  BY DEF clientVars
<1> QED
  BY <1>1, <1>3, <1>4, <1>5 DEF StampInv, Copies

(* Reconciles that end, having written a kept object.                      *)
LEMMA EndStamp ==
  ASSUME TypeInv, StampInv, NEW o \in Operators, EndReconcile(o), ObjectMoves,
         Sound(obj', log', decided, webhook), UNCHANGED <<cache, log, clientVars>>
  PROVE  StampInv'
<1>1. Others(o) /\ wl'[o] = NoObject
  BY EndStep
<1> QED
  BY <1>1, SoundAbsent, StampStep DEF LogGrows

(* Idle reconciles write a kept object.                                    *)
LEMMA IdleStamp ==
  ASSUME TypeInv, StampInv, NEW o \in Operators, ObjectMoves, Sound(obj', log', decided, webhook),
         UNCHANGED <<opVars, log, clientVars>>
  PROVE  StampInv'
<1>1. Others(o) /\ cache' = cache /\ LogGrows /\ wl'[o] = wl[o]
  BY DEF Others, opVars, LogGrows
<1>2. Sound(wl'[o], log', decided, webhook)
  BY <1>1 DEF StampInv, Copies
<1> QED
  BY <1>1, <1>2, StampStep

(* finishApproval leaves nothing pending.                                  *)
LEMMA FinishSound ==
  ASSUME NEW w \in Objects, NEW phase \in Phases, NEW lg, NEW lg2, NEW dec, NEW hook, Sound(w, lg, dec, hook)
  PROVE  Sound(finishApproval(w, phase), lg2, dec, hook)
<1> DEFINE f == finishApproval(w, phase)
<1>1. f.ann = w.ann
  BY DEF finishApproval, Objects
<1>2. f.pending.id = 0
  <2>1. NoPending.id = 0
    BY DEF NoPending
  <2> QED
    BY <2>1, FinishType
<1> HIDE DEF f
<1>3. Sound(f, lg2, dec, hook)
  BY <1>1, <1>2, SoundEmpty DEF Sound
<1> QED
  BY <1>3 DEF f

(* A decision just taken: allowed on the direct path by the policy of the  *)
(* copy, its receipt stored where that is required, or held under it.      *)
LEMMA ProposeJob ==
  ASSUME TypeInv, NEW o \in Operators, ProposeAndDecide(o)
  PROVE  /\ pc'[o] = "reserve" => DirectJob("reserve", wl'[o], job'[o], log')
         /\ pc'[o] = "commit" =>
              /\ wl'[o].ann = cache[o].ann /\ wl'[o].rv = cache[o].rv
              /\ wl'[o].pending.id # 0 =>
                   /\ wl'[o].pending.id = Len(log) + 1
                   /\ wl'[o].pending.action = log'[Len(log) + 1].action
                   /\ wl'[o].policy = log'[Len(log) + 1].policy
                   /\ wl'[o].phase = "PendingApproval"
<1>1. PICK a \in Actions, ready \in Readiness, escal \in BOOLEAN, app \in Appends :
        LET w == cache[o]
            id == Len(log) + 1
            r == decideAction(w.policy, a, ready, escal, app)
        IN  /\ Outcome(<<ready, app>>, <<TRUE, Good>>)
            /\ log' = Append(log, [action |-> a, policy |-> w.policy, outcome |-> r.outcome,
                                   stored |-> app \in {"ok", "lost"}])
            /\ IF r.outcome = "allow"
               THEN /\ pc' = [pc EXCEPT ![o] = "reserve"]
                    /\ wl' = [wl EXCEPT ![o] = w]
                    /\ job' = [job EXCEPT ![o] = [id |-> id, action |-> a, label |-> "",
                                                  blocked |-> FALSE, receipted |-> app = "ok",
                                                  granted |-> w.policy]]
               ELSE /\ pc' = [pc EXCEPT ![o] = "commit"]
                    /\ wl' = [wl EXCEPT ![o] = notAllowed(w, id, a, r.outcome)]
                    /\ job' = [job EXCEPT ![o] = NoJob]
  BY DEF ProposeAndDecide
<1> DEFINE w == cache[o]
           id == Len(log) + 1
           out == decideAction(w.policy, a, ready, escal, app).outcome
           e == [action |-> a, policy |-> w.policy, outcome |-> out, stored |-> app \in {"ok", "lost"}]
           j == [id |-> id, action |-> a, label |-> "", blocked |-> FALSE,
                 receipted |-> app = "ok", granted |-> w.policy]
           x == notAllowed(w, id, a, out)
<1>2. w \in Objects /\ w.policy \in Policies /\ log \in Seq(Entries) /\ OperatorType /\ Len(log) \in Nat
  BY TypeParts DEF TypeInv, OperatorType, Objects
<1>3. e \in Entries
  BY <1>2, DecideOutcome DEF Entries
<1>4. log' = Append(log, e)
  BY <1>1
<1>5. e.action = a /\ e.policy = w.policy /\ e.stored = (app \in {"ok", "lost"})
  OBVIOUS
<1> HIDE DEF e
<1>6. log'[id] = e
  BY <1>2, <1>3, <1>4, LongerLog
<1>7. CASE out = "allow"
  <2>1. pc'[o] = "reserve" /\ wl'[o] = w /\ job'[o] = j
    BY <1>1, <1>2, <1>7 DEF OperatorType
  <2> DEFINE l == evaluateLayers(w.policy, a, ready)
  <2>2. LayersOf[w.policy][a] \in Layers
    BY <1>2, ControllerAssumption
  <2>3. l \in Layers /\ (LayersOf[w.policy][a].inv => l.inv)
        /\ l = [LayersOf[w.policy][a] EXCEPT !.inv = l.inv]
    BY <2>2 DEF evaluateLayers, Layers
  <2>6. ~(ReceiptsRequired /\ app \in {"lost", "failed"})
    <3>1. \A k \in Layers : failClosed(k).outcome # "allow"
      BY DEF failClosed, Decide, Layers
    <3> QED
      BY <1>7, <2>3, <3>1 DEF decideAction
  <2>7. Allows(w.policy, a)
    <3>1. Decide(l).outcome = "allow"
      BY <1>7, <2>6 DEF decideAction, ApplyModel
    <3>2. ~l.inv
      BY <3>1 DEF Decide
    <3>3. LayersOf[w.policy][a] = l
      BY <2>2, <2>3, <3>2 DEF Layers
    <3> QED
      BY <3>1, <3>3 DEF Allows
  <2>4. WriteAhead => e.stored
    BY <1>5, <2>6 DEF WriteAhead, Appends
  <2>5. j.label = "" /\ j.id = id /\ j.action = a
    OBVIOUS
  <2> HIDE DEF j, w
  <2> QED
    BY <1>6, <2>1, <2>4, <2>5, <2>7 DEF DirectJob
<1>8. CASE out # "allow"
  <2>1. pc'[o] = "commit" /\ wl'[o] = x
    BY <1>1, <1>2, <1>8 DEF OperatorType
  <2>2. /\ x.ann = w.ann /\ x.rv = w.rv /\ x.policy = w.policy
        /\ x.pending = NoPending \/ (x.pending.id = id /\ x.pending.action = a)
    BY <1>2, NotAllowedType DEF notAllowed, Objects
  <2>3. NoPending.id = 0
    BY DEF NoPending
  <2>4. x.pending = NoPending \/ x.phase = "PendingApproval"
    BY <1>2 DEF notAllowed, Objects
  <2> HIDE DEF x
  <2> QED
    BY <1>5, <1>6, <2>1, <2>2, <2>3, <2>4
<1> QED
  BY <1>7, <1>8

(* A proposal: the copy goes on, or holds the new decision.                *)
LEMMA ProposeStamp ==
  ASSUME TypeInv, StampInv, NEW o \in Operators, ProposeAndDecide(o)
  PROVE  StampInv'
<1>1. /\ Others(o) /\ LogGrows /\ UNCHANGED <<obj, cache, clientVars>>
      /\ \/ pc'[o] = "reserve" /\ wl'[o] = cache[o]
         \/ pc'[o] = "commit"
  BY ProposeType
<1>2. log \in Seq(Entries) /\ KnownIds(cache[o], log) /\ Sound(cache[o], log, decided, webhook)
  BY TypeParts DEF TypeInv, Known, StampInv, Copies
<1>3. Sound(cache[o], log', decided, webhook)
  BY <1>1, <1>2, SoundGrows
<1>4. ASSUME pc'[o] = "commit" PROVE Sound(wl'[o], log', decided, webhook)
  <2>1. CASE wl'[o].pending.id = 0
    BY <1>2, <1>4, <2>1, ProposeJob, SoundEmpty DEF Sound
  <2>2. CASE wl'[o].pending.id # 0
    BY <1>2, <1>4, <2>2, ProposeJob DEF Sound, Logged, Reviewed
  <2> QED
    BY <2>1, <2>2
<1>5. ObjectMoves /\ Sound(obj', log', decided, webhook)
  BY <1>1, KeptSound DEF StampInv, ObjectKept
<1> QED
  BY <1>1, <1>3, <1>4, <1>5, StampStep

(* The reservation, the intent and Executing go on with what is stored.    *)
LEMMA StoredStamp ==
  ASSUME TypeInv, OnceInv, StampInv, NEW o \in Operators,
         ReserveExecution(o) \/ RecordIntent(o) \/ MarkExecuting(o)
  PROVE  StampInv'
<1>1. /\ Others(o) /\ UNCHANGED <<cache, log, clientVars>>
      /\ wl'[o] = obj' \/ EndReconcile(o)
  BY ReserveEffect, RecordEffect, MarkEffect
<1>2. ObjectKept /\ LogGrows
  BY <1>1, ReserveKept, RecordKept, MarkKept DEF LogGrows
<1>3. ObjectMoves /\ Sound(obj', log', decided, webhook)
  BY <1>2, KeptSound DEF StampInv
<1>4. CASE wl'[o] = obj'
  BY <1>1, <1>2, <1>3, <1>4, StampStep
<1>5. CASE EndReconcile(o)
  BY <1>1, <1>3, <1>5, EndStamp
<1> QED
  BY <1>1, <1>4, <1>5

(* The calls and the human receipt: the copy goes on or is finished.       *)
LEMMA CallStamp ==
  ASSUME TypeInv, StampInv, NEW o \in Operators,
         ExecuteAllowed(o) \/ HumanReceipt(o) \/ RunApproved(o)
  PROVE  StampInv'
<1>1. /\ wl[o] \in Objects /\ Sound(wl[o], log, decided, webhook) /\ log \in Seq(Entries)
      /\ KnownIds(wl[o], log)
  BY TypeParts DEF TypeInv, OperatorType, Known, StampInv, Copies
<1>2. CASE ExecuteAllowed(o)
  <2>1. Others(o) /\ UNCHANGED <<obj, cache, log, clientVars>> /\ wl'[o].pending = NoPending
    BY <1>2, ExecuteEffect
  <2>2. wl'[o].ann = wl[o].ann
    <3>1. PICK ph : wl' = [wl EXCEPT ![o].phase = ph, ![o].pending = NoPending]
      BY <1>2 DEF ExecuteAllowed
    <3>2. OperatorType
      BY TypeParts DEF TypeInv
    <3> QED
      BY <1>1, <3>1, <3>2 DEF OperatorType, Objects
  <2>3. NoPending.id = 0
    BY DEF NoPending
  <2>4. Sound(wl'[o], log', decided, webhook)
    BY <1>1, <2>1, <2>2, <2>3, SoundEmpty DEF Sound
  <2>5. ObjectMoves /\ LogGrows /\ Sound(obj', log', decided, webhook)
    BY <2>1, KeptSound DEF StampInv, ObjectKept, LogGrows
  <2> QED
    BY <2>1, <2>4, <2>5, StampStep
<1>3. CASE HumanReceipt(o) \/ RunApproved(o)
  <2>1. /\ Others(o) /\ UNCHANGED <<obj, cache, clientVars>> /\ LogGrows
        /\ (\E phase \in Phases : wl'[o] = finishApproval(wl[o], phase)) \/ wl'[o] = wl[o]
    BY <1>3, HumanReceiptEffect, RunEffect DEF LogGrows
  <2>2. Sound(wl'[o], log', decided, webhook)
    BY <1>1, <2>1, FinishSound, SoundGrows
  <2>3. ObjectMoves /\ Sound(obj', log', decided, webhook)
    BY <2>1, KeptSound DEF StampInv, ObjectKept
  <2> QED
    BY <2>1, <2>2, <2>3, StampStep
<1> QED
  BY <1>2, <1>3

(* A write of a sound copy stores one.                                     *)
LEMMA SoundWrite ==
  ASSUME TypeInv, StampInv, NEW new \in Objects, Writes(new), Sound(new, log, decided, webhook), log' = log
  PROVE  ObjectMoves /\ Sound(obj', log', decided, webhook)
<1>1. obj \in Objects /\ Sound(obj, log, decided, webhook)
  BY TypeParts DEF TypeInv, StampInv, Copies
<1>2. ObjectMoves
  BY <1>1, WritesMove
<1>3. obj.rv + 1 \in Nat
  BY <1>1 DEF Objects
<1>4. \A v \in Nat : Kept([new EXCEPT !.rv = v], new)
  BY DEF Kept, SameCase, Objects
<1> QED
  BY <1>1, <1>2, <1>3, <1>4, SoundKept DEF Writes

(* Every step of a reconcile keeps the first part.                         *)
LEMMA ReconcileStamp ==
  ASSUME TypeInv, OnceInv, StampInv, NEW o \in Operators, Reconcile(o)
  PROVE  StampInv'
<1>1. CASE GateFails(o) \/ ProposeFails(o) \/ HoldReplay(o) \/ HoldUnverified(o)
  <2>1. UNCHANGED <<opVars, log, clientVars>>
    BY <1>1, IdleWrites
  <2> QED
    BY <1>1, <2>1, IdleKept, KeptSound, IdleStamp DEF StampInv, LogGrows
<1>2. CASE FinishUnknown(o)
  <2>1. cache[o] \in Objects /\ "Failed" \in Phases /\ Sound(cache[o], log, decided, webhook)
    BY TypeParts DEF TypeInv, OperatorType, Phases, StampInv, Copies
  <2>2. UNCHANGED <<opVars, log, clientVars>>
    BY <1>2 DEF FinishUnknown
  <2>3. finishApproval(cache[o], "Failed") \in Objects
        /\ Sound(finishApproval(cache[o], "Failed"), log, decided, webhook)
        /\ Writes(finishApproval(cache[o], "Failed"))
    BY <1>2, <2>1, FinishType, FinishSound, FinishUnknownType
  <2> QED
    BY <2>2, <2>3, SoundWrite, IdleStamp
<1>3. CASE Commit(o)
  <2>1. /\ wl[o] \in Objects /\ Sound(wl[o], log, decided, webhook) /\ Writes(wl[o])
        /\ EndReconcile(o) /\ UNCHANGED <<cache, log, clientVars>>
    BY <1>3, CommitEffect, TypeParts DEF TypeInv, OperatorType, StampInv, Copies
  <2> QED
    BY <2>1, SoundWrite, EndStamp
<1>4. CASE HoldReceiptFailed(o)
  <2>1. EndReconcile(o) /\ UNCHANGED <<cache, log, clientVars>>
    BY <1>4, HoldReceiptEffect
  <2> QED
    BY <1>4, <2>1, HoldReceiptKept, KeptSound, EndStamp DEF StampInv, LogGrows
<1> QED
  BY <1>1, <1>2, <1>3, <1>4, ProposeStamp, StoredStamp, CallStamp DEF Reconcile

(* An informer or a crash keeps the first part.                            *)
LEMMA SyncStamp ==
  ASSUME TypeInv, StampInv, NEW o \in Operators, Sync(o) \/ Crash(o)
  PROVE  StampInv'
<1>1. CASE Sync(o)
  <2>1. /\ UNCHANGED <<obj, wl, log, view, decided, webhook>>
        /\ \A q \in Operators : cache'[q] = cache[q] \/ cache'[q] = obj
    BY <1>1, TypeParts DEF TypeInv, OperatorType, Sync, clientVars
  <2>2. Copies'
    BY <2>1 DEF StampInv, Copies
  <2> QED
    BY <2>1, <2>2 DEF StampInv, Views, Deciding, DecidedWhatWasRead
<1>2. CASE Crash(o)
  <2>1. obj' = obj /\ EndReconcile(o) /\ UNCHANGED <<cache, log, clientVars>>
    BY <1>2 DEF Crash
  <2> QED
    BY <2>1, KeptSound, EndStamp DEF StampInv, ObjectKept, LogGrows
<1> QED
  BY <1>1, <1>2

(* A client: more decisions, and another object.                           *)
LEMMA ClientStamp ==
  ASSUME TypeInv, StampInv, UNCHANGED <<opVars, log, webhook>>, decided \subseteq decided',
         Deciding', Views', Sound(obj', log, decided', webhook)
  PROVE  StampInv'
<1>1. log \in Seq(Entries) /\ LogGrows
  BY TypeParts DEF TypeInv, LogGrows
<1>2. \A o \in Operators : Sound(cache[o], log', decided', webhook) /\ Sound(wl[o], log', decided', webhook)
  BY <1>1, SoundGrows DEF TypeInv, Known, StampInv, Copies
<1>3. Copies'
  BY <1>2 DEF Copies, opVars
<1> QED
  BY <1>3 DEF StampInv

(* agentctl reads what is stored.                                          *)
LEMMA ReadStamp ==
  ASSUME TypeInv, StampInv, NEW u \in Users, ReadPending(u)
  PROVE  StampInv'
<1>1. /\ UNCHANGED <<obj, opVars, log, decided, webhook>> /\ obj.phase = "PendingApproval"
      /\ view' = [view EXCEPT ![u] = [rv |-> obj.rv, id |-> obj.pending.id]]
  BY DEF ReadPending
<1>2. obj.rv \in Nat /\ ClientType
  BY TypeParts DEF TypeInv, Objects
<1>3. Views'
  BY <1>1, <1>2 DEF ClientType, StampInv, Views
<1>4. Deciding'
  BY <1>1 DEF StampInv, Deciding, DecidedWhatWasRead
<1>5. Sound(obj', log, decided', webhook)
  BY <1>1 DEF StampInv, Copies
<1> QED
  BY <1>1, <1>3, <1>4, <1>5, ClientStamp

(* A patch at the version that was read decides what was read.             *)
LEMMA PatchStamp ==
  ASSUME TypeInv, StampInv, NEW u \in Users, NEW l \in Labels, NEW e \in Actions \cup {NoAction},
         PatchDecision(u, l, e)
  PROVE  StampInv'
<1> DEFINE new == [NoAnnotations EXCEPT !.label = l, !.edit = e]
           a == Stamped(obj.ann, new, webhookPending, obj.pending.action, u)
           d == [id |-> webhookPending, seen |-> view[u].id, label |-> l, edit |-> e]
<1>1. /\ webhook /\ view[u].rv = obj.rv /\ decided' = decided \cup {d}
      /\ UNCHANGED <<opVars, log, view, webhook>>
      /\ obj' = [obj EXCEPT !.ann = a, !.rv = @ + 1]
  BY DEF PatchDecision
<1>2. obj \in Objects /\ obj.rv \in Nat
  BY TypeParts DEF TypeInv, Objects
<1>3. webhookPending = view[u].id
  BY <1>1 DEF StampInv, Views, webhookPending
<1>4. d.id = d.seen
  BY <1>3
<1>5. Attested(a.mac, decided')
  <2>1. a.mac.id = 0 \/ (a.mac.id = webhookPending /\ a.mac.label = l /\ a.mac.edit = e)
    BY DEF Stamped, NoAnnotations, MAC, NoMac
  <2> HIDE DEF a
  <2>2. a.mac.id # 0 => d = [id |-> a.mac.id, seen |-> a.mac.id, label |-> a.mac.label, edit |-> a.mac.edit]
    BY <1>3, <2>1
  <2> HIDE DEF d
  <2>3. d \in decided'
    BY <1>1
  <2> QED
    BY <2>2, <2>3 DEF Attested
<1>6. Deciding'
  <2> HIDE DEF d
  <2> QED
    BY <1>1, <1>4 DEF StampInv, Deciding, DecidedWhatWasRead
<1> HIDE DEF a, d
<1>7. /\ obj'.rv = obj.rv + 1 /\ obj'.ann = a /\ obj'.policy = obj.policy
      /\ obj'.phase = obj.phase /\ obj'.pending = obj.pending
      /\ obj'.last = obj.last /\ obj'.consumed = obj.consumed
  BY <1>1, <1>2 DEF Objects
<1>8. Views'
  BY <1>1, <1>7, ViewsStep DEF StampInv, ObjectMoves
<1>9. Sound(obj, log, decided, webhook)
  BY DEF StampInv, Copies
<1>10. Sound(obj', log, decided', webhook)
  BY <1>5, <1>7, <1>9 DEF Sound, Logged, Reviewed, Releasable, OnApprovalPath, approvalConsumed
<1> QED
  BY <1>1, <1>6, <1>8, <1>10, ClientStamp

(* Annotations without a stamp, cleared or unadmitted, attest nothing.     *)
LEMMA UnstampedStamp ==
  ASSUME TypeInv, StampInv, NEW a, a.mac = NoMac, obj' = [obj EXCEPT !.ann = a, !.rv = @ + 1],
         UNCHANGED <<opVars, log, view, decided, webhook>>
  PROVE  StampInv'
<1>1. obj \in Objects /\ obj.rv \in Nat
  BY TypeParts DEF TypeInv, Objects
<1>2. /\ obj'.rv = obj.rv + 1 /\ obj'.ann = a /\ obj'.policy = obj.policy
      /\ obj'.phase = obj.phase /\ obj'.pending = obj.pending
      /\ obj'.last = obj.last /\ obj'.consumed = obj.consumed
  BY <1>1 DEF Objects
<1>3. Views' /\ Deciding'
  BY <1>2, ViewsStep DEF StampInv, ObjectMoves, Deciding, DecidedWhatWasRead
<1>4. obj'.ann.mac.id = 0
  <2>1. NoMac.id = 0
    BY DEF NoMac
  <2> QED
    BY <1>2, <2>1
<1>5. Sound(obj, log, decided, webhook)
  BY DEF StampInv, Copies
<1>6. Sound(obj', log, decided', webhook)
  BY <1>2, <1>4, <1>5 DEF Sound, Attested, Logged, Reviewed, Releasable, OnApprovalPath, approvalConsumed
<1> QED
  BY <1>3, <1>6, ClientStamp

(* The policy of a held action is frozen.                                  *)
LEMMA EditStamp ==
  ASSUME TypeInv, StampInv, NEW p \in Policies, EditPolicy(p)
  PROVE  StampInv'
<1>1. /\ webhook => ~frozen
      /\ obj' = [obj EXCEPT !.policy = p, !.rv = @ + 1]
      /\ UNCHANGED <<opVars, log, view, decided, webhook>>
  BY DEF EditPolicy
<1>2. obj \in Objects /\ obj.rv \in Nat
  BY TypeParts DEF TypeInv, Objects
<1>3. /\ obj'.rv = obj.rv + 1 /\ obj'.ann = obj.ann
      /\ obj'.phase = obj.phase /\ obj'.pending = obj.pending
      /\ obj'.last = obj.last /\ obj'.consumed = obj.consumed
  BY <1>1, <1>2 DEF Objects
<1>4. Views' /\ Deciding'
  BY <1>1, <1>3, ViewsStep DEF StampInv, ObjectMoves, Deciding, DecidedWhatWasRead
<1>5. Sound(obj, log, decided, webhook)
  BY DEF StampInv, Copies
<1>6. Sound(obj', log, decided', webhook)
  BY <1>1, <1>3, <1>5 DEF Sound, Logged, Reviewed, Releasable, OnApprovalPath, frozen
<1> QED
  BY <1>1, <1>4, <1>6, ClientStamp

(* A restored action is the logged one, and was consumed.                  *)
LEMMA RestoreStamp ==
  ASSUME TypeInv, StampInv, RestorePending
  PROVE  StampInv' /\ obj'.ann = obj.ann /\ obj'.policy = obj.policy /\ OnApprovalPath(obj') /\ ~Releasable(obj')
<1>1. PICK i \in 1 .. Len(obj.consumed) :
        obj' = [obj EXCEPT !.phase = "PendingApproval", !.rv = @ + 1,
                           !.pending = [id |-> obj.consumed[i], action |-> log[obj.consumed[i]].action,
                                        policy |-> log[obj.consumed[i]].policy,
                                        state |-> "", decision |-> ""]]
  BY DEF RestorePending
<1>2. obj \in Objects /\ obj.rv \in Nat /\ KnownIds(obj, log)
  BY TypeParts DEF TypeInv, Objects, Known
<1>3. /\ obj'.rv = obj.rv + 1 /\ obj'.ann = obj.ann /\ obj'.policy = obj.policy
      /\ obj'.phase = "PendingApproval" /\ obj'.consumed = obj.consumed
      /\ obj'.pending.id = obj.consumed[i] /\ obj'.pending.action = log[obj.consumed[i]].action
  BY <1>1, <1>2 DEF Objects
<1>4. UNCHANGED <<opVars, log, view, decided, webhook>>
  BY DEF RestorePending, clientVars
<1>5. OnApprovalPath(obj') /\ ~Releasable(obj')
  BY <1>2, <1>3 DEF Releasable, OnApprovalPath, approvalConsumed, KnownIds, HeldId
<1>6. Views' /\ Deciding'
  BY <1>3, <1>4, ViewsStep DEF StampInv, ObjectMoves, Deciding, DecidedWhatWasRead
<1>7. Sound(obj, log, decided, webhook)
  BY DEF StampInv, Copies
<1>8. Sound(obj', log, decided', webhook)
  BY <1>3, <1>4, <1>5, <1>7 DEF Sound, Logged, Reviewed
<1> QED
  BY <1>3, <1>4, <1>5, <1>6, <1>8, ClientStamp

(* Every step keeps the first part.                                        *)
LEMMA StampNext == TypeInv /\ OnceInv /\ StampInv /\ [Next]_vars => StampInv'
<1> SUFFICES ASSUME TypeInv, OnceInv, StampInv, [Next]_vars PROVE StampInv'
  OBVIOUS
<1>1. CASE UNCHANGED vars
  BY <1>1 DEF vars, StampInv, Copies, Views, Deciding, DecidedWhatWasRead
<1>2. CASE ClearDecision
  <2>1. /\ obj' = [obj EXCEPT !.ann = NoAnnotations, !.rv = @ + 1]
        /\ UNCHANGED <<opVars, log, view, decided, webhook>> /\ NoAnnotations.mac = NoMac
    BY <1>2 DEF ClearDecision, NoAnnotations
  <2> QED
    BY <2>1, UnstampedStamp
<1>3. ASSUME NEW by, NEW l, AnnotateUnadmitted(by, l) PROVE StampInv'
  <2> DEFINE a == [NoAnnotations EXCEPT !.label = l, !.by = by, !.for = obj.pending.id]
  <2>1. /\ obj' = [obj EXCEPT !.ann = a, !.rv = @ + 1]
        /\ UNCHANGED <<opVars, log, view, decided, webhook>> /\ a.mac = NoMac
    BY <1>3 DEF AnnotateUnadmitted, NoAnnotations
  <2> HIDE DEF a
  <2> QED
    BY <2>1, UnstampedStamp
<1>4. CASE Client
  BY <1>2, <1>3, <1>4, ReadStamp, PatchStamp, EditStamp, RestoreStamp DEF Client
<1> QED
  BY <1>1, <1>4, ReconcileStamp, SyncStamp DEF Next

(* The initial states satisfy the first part.                              *)
LEMMA StampInit == Init => StampInv
<1> SUFFICES ASSUME Init PROVE StampInv
  OBVIOUS
<1>1. PICK p \in Policies : obj = [NoObject EXCEPT !.rv = 1, !.policy = p]
  BY DEF Init
<1>2. obj.rv = 1 /\ obj.pending.id = 0 /\ obj.ann.mac.id = 0
  BY <1>1 DEF NoObject, NoPending, NoAnnotations, NoMac
<1>3. Sound(obj, log, decided, webhook)
  BY <1>2, SoundEmpty DEF Attested
<1>4. \A o \in Operators : Sound(cache[o], log, decided, webhook) /\ Sound(wl[o], log, decided, webhook)
  BY <1>3, SoundAbsent DEF Init
<1>5. Views /\ Deciding
  BY <1>2 DEF Init, Views, Deciding, DecidedWhatWasRead
<1> QED
  BY <1>3, <1>4, <1>5 DEF StampInv, Copies

-----------------------------------------------------------------------------
(* The second part: what entitles a reconcile to execute.                  *)

EntitledInv == JobsEntitled /\ ExecsEntitled

(* What only grows.                                                        *)
Grows == LogGrows /\ human \subseteq human' /\ decided \subseteq decided'

(* Grounds are kept while logs, decisions and receipts grow.               *)
LEMMA BackedGrows ==
  ASSUME log \in Seq(Entries), Grows, NEW id \in 1 .. Len(log), NEW l, NEW a,
         Backed(id, l, a, log, decided)
  PROVE  Backed(id, l, a, log', decided')
BY KeptEntries DEF Grows, Backed

(* So is the entitlement of a reconcile on the direct path ...             *)
LEMMA DirectGrows ==
  ASSUME log \in Seq(Entries), Grows, NEW at, NEW w, NEW j, j.id \in 1 .. Len(log),
         DirectJob(at, w, j, log)
  PROVE  DirectJob(at, w, j, log')
BY KeptEntries DEF Grows, DirectJob

(* ... and of one on the approval path ...                                 *)
LEMMA HumanGrows ==
  ASSUME log \in Seq(Entries), Grows, NEW at, NEW w, NEW j, j.id \in 1 .. Len(log),
         HumanJob(at, w, j, log, decided, human)
  PROVE  HumanJob(at, w, j, log', decided', human')
<1>1. Backed(j.id, j.label, j.action, log', decided')
  BY BackedGrows DEF HumanJob
<1> QED
  BY <1>1 DEF Grows, HumanJob

(* ... and of an execution.                                                *)
LEMMA ExecGrows ==
  ASSUME log \in Seq(Entries), Grows, NEW e, e.id \in 1 .. Len(log), Entitled(e, log, decided, human)
  PROVE  Entitled(e, log', decided', human')
<1>1. CASE ByHuman(e)
  <2>1. Backed(e.id, e.label, e.action, log', decided')
    BY <1>1, BackedGrows DEF Entitled
  <2> QED
    BY <1>1, <2>1 DEF Grows, Entitled
<1>2. CASE ~ByHuman(e)
  BY <1>2, KeptEntries DEF Grows, Entitled
<1> QED
  BY <1>1, <1>2

(* The job of a reconcile under way names a decision of the log.           *)
LEMMA JobIds ==
  ASSUME TypeInv, NEW o \in Operators
  PROVE  OnDirect(pc[o]) \/ OnHuman(pc[o]) => job[o].id \in 1 .. Len(log)
BY DEF TypeInv, Known, Carries, KnownIds, AllowedId, HeldId, OnDirect, OnHuman

(* A step of the reconcile of o.                                           *)
LEMMA JobsStep ==
  ASSUME TypeInv, JobsEntitled, Grows, NEW o \in Operators, Others(o),
         OnDirect(pc'[o]) => DirectJob(pc'[o], wl'[o], job'[o], log'),
         OnHuman(pc'[o]) => HumanJob(pc'[o], wl'[o], job'[o], log', decided', human')
  PROVE  JobsEntitled'
<1>1. ASSUME NEW q \in Operators
      PROVE  /\ OnDirect(pc'[q]) => DirectJob(pc'[q], wl'[q], job'[q], log')
             /\ OnHuman(pc'[q]) => HumanJob(pc'[q], wl'[q], job'[q], log', decided', human')
  <2>1. CASE q = o
    BY <2>1
  <2>2. CASE q # o
    <3>1. pc'[q] = pc[q] /\ wl'[q] = wl[q] /\ job'[q] = job[q]
      BY <2>2 DEF Others
    <3>2. log \in Seq(Entries)
      BY TypeParts DEF TypeInv
    <3>3. OnDirect(pc[q]) => DirectJob(pc[q], wl[q], job[q], log')
      BY <3>2, JobIds, DirectGrows DEF JobsEntitled
    <3>4. OnHuman(pc[q]) => HumanJob(pc[q], wl[q], job[q], log', decided', human')
      BY <3>2, JobIds, HumanGrows DEF JobsEntitled
    <3> QED
      BY <3>1, <3>3, <3>4
  <2> QED
    BY <2>1, <2>2
<1> QED
  BY <1>1 DEF JobsEntitled

(* The executions of before.                                               *)
LEMMA ExecsKept ==
  ASSUME TypeInv, OnceInv, ExecsEntitled, Grows
  PROVE  \A i \in 1 .. Len(execs) : Entitled(execs[i], log', decided', human')
<1>1. log \in Seq(Entries)
  BY TypeParts DEF TypeInv
<1>2. \A i \in 1 .. Len(execs) : execs[i].id \in 1 .. Len(log)
  BY DEF OnceInv, Bounded
<1> QED
  BY <1>1, <1>2, ExecGrows DEF ExecsEntitled

(* A step that executes nothing.                                           *)
LEMMA QuietEntitled ==
  ASSUME TypeInv, OnceInv, EntitledInv, Grows, execs' = execs, NEW o \in Operators, Others(o),
         OnDirect(pc'[o]) => DirectJob(pc'[o], wl'[o], job'[o], log'),
         OnHuman(pc'[o]) => HumanJob(pc'[o], wl'[o], job'[o], log', decided', human')
  PROVE  EntitledInv'
BY JobsStep, ExecsKept DEF EntitledInv, ExecsEntitled

(* A step that changes no reconcile.                                       *)
LEMMA IdleEntitled ==
  ASSUME TypeInv, OnceInv, EntitledInv, UNCHANGED <<pc, wl, job, log, human, execs>>,
         decided \subseteq decided'
  PROVE  EntitledInv'
<1>1. Grows /\ log \in Seq(Entries)
  BY TypeParts DEF TypeInv, Grows, LogGrows
<1>2. ExecsEntitled'
  BY <1>1, ExecsKept DEF EntitledInv, ExecsEntitled
<1>3. ASSUME NEW q \in Operators
      PROVE  /\ OnDirect(pc[q]) => DirectJob(pc[q], wl[q], job[q], log')
             /\ OnHuman(pc[q]) => HumanJob(pc[q], wl[q], job[q], log', decided', human')
  BY <1>1, JobIds, DirectGrows, HumanGrows DEF EntitledInv, JobsEntitled
<1>4. JobsEntitled'
  BY <1>3 DEF JobsEntitled
<1> QED
  BY <1>2, <1>4 DEF EntitledInv

(* A step that ends the reconcile of o.                                    *)
LEMMA EndEntitled ==
  ASSUME TypeInv, OnceInv, EntitledInv, NEW o \in Operators, EndReconcile(o), Grows,
         cache' = cache, execs' = execs
  PROVE  EntitledInv'
<1>1. Others(o) /\ pc'[o] = "idle"
  BY EndStep
<1> QED
  BY <1>1, QuietEntitled DEF OnDirect, OnHuman

(* The reservation is granted by the policy the decision was taken under.  *)
LEMMA ReserveEntitled ==
  ASSUME TypeInv, OnceInv, EntitledInv, NEW o \in Operators, ReserveExecution(o)
  PROVE  EntitledInv'
<1>1. /\ pc[o] = "reserve" /\ Others(o) /\ UNCHANGED <<cache, log, human, execs, clientVars>>
  BY ReserveEffect
<1>2. Grows
  BY <1>1 DEF Grows, LogGrows, clientVars
<1>3. CASE Fresh(wl[o])
  <2>1. wl[o] = obj
    BY <1>1, <1>3, FreshIsObject
  <2>2. OperatorType /\ job[o] \in Jobs
    BY TypeParts DEF TypeInv, OperatorType
  <2>3. pc'[o] = "execute" /\ job'[o] = [job[o] EXCEPT !.granted = obj.policy]
    BY <1>3, <2>2 DEF ReserveExecution, OperatorType
  <2>4. /\ job'[o].label = job[o].label /\ job'[o].id = job[o].id /\ job'[o].action = job[o].action
        /\ job'[o].granted = obj.policy
    BY <2>2, <2>3 DEF Jobs
  <2>5. DirectJob("reserve", wl[o], job[o], log)
    BY <1>1 DEF EntitledInv, JobsEntitled, OnDirect
  <2>6. DirectJob("execute", wl'[o], job'[o], log')
    BY <1>1, <2>1, <2>4, <2>5 DEF DirectJob
  <2> QED
    BY <1>1, <1>2, <2>3, <2>6, QuietEntitled DEF OnHuman
<1>4. CASE ~Fresh(wl[o])
  BY <1>1, <1>2, <1>4, EndEntitled DEF ReserveExecution
<1> QED
  BY <1>3, <1>4

(* An execution takes over the grounds of the job.                         *)
LEMMA CallEntitled ==
  ASSUME TypeInv, OnceInv, EntitledInv, NEW o \in Operators, NEW res, Ran(o, res), Others(o),
         pc[o] \in {"execute", "run"}, pc'[o] = "commit", UNCHANGED <<log, human, decided>>
  PROVE  EntitledInv'
<1> DEFINE e == [id |-> job[o].id, label |-> job[o].label, action |-> job[o].action,
                 granted |-> job[o].granted, policy |-> obj.policy]
           E == [id : Nat, label : Labels \cup {""}, action : Actions,
                 granted : Policies, policy : Policies]
<1>1. Grows
  BY DEF Grows, LogGrows
<1>2. JobsEntitled'
  BY <1>1, JobsStep DEF EntitledInv, OnDirect, OnHuman
<1>3. /\ e.id = job[o].id /\ e.label = job[o].label /\ e.action = job[o].action /\ e.granted = job[o].granted
      /\ Receipt(e) = Receipt(job[o])
  BY DEF Receipt
<1>4. execs' = execs \/ execs' = Append(execs, e)
  BY DEF Ran
<1>5. obj \in Objects /\ job[o] \in Jobs /\ execs \in Seq(E) /\ Carries(o)
  BY TypeParts DEF TypeInv, OperatorType, ExecType, Known
<1>6. e \in E
  BY <1>5 DEF Objects, Jobs, Carries
<1> HIDE DEF e, E
<1>7. Entitled(e, log', decided', human')
  <2>1. CASE pc[o] = "execute"
    <3>1. DirectJob("execute", wl[o], job[o], log)
      BY <2>1 DEF EntitledInv, JobsEntitled, OnDirect
    <3> QED
      BY <1>3, <3>1 DEF DirectJob, Entitled, ByHuman
  <2>2. CASE pc[o] = "run"
    <3>1. HumanJob("run", wl[o], job[o], log, decided, human) /\ job[o].label \in Labels
      BY <1>5, <2>2 DEF EntitledInv, JobsEntitled, OnHuman, Carries
    <3> QED
      BY <1>3, <3>1 DEF HumanJob, Entitled, ByHuman, Labels
  <2> QED
    BY <2>1, <2>2
<1>8. ExecsEntitled'
  <2>1. CASE execs' = execs
    BY <1>1, <2>1, ExecsKept DEF EntitledInv, ExecsEntitled
  <2>2. CASE execs' = Append(execs, e)
    <3>1. \A i \in 1 .. Len(execs') : execs'[i] = e \/ (i \in 1 .. Len(execs) /\ execs'[i] = execs[i])
      BY <1>5, <1>6, <2>2
    <3> QED
      BY <1>1, <1>7, <3>1, ExecsKept DEF EntitledInv, ExecsEntitled
  <2> QED
    BY <1>4, <2>1, <2>2
<1> QED
  BY <1>2, <1>8 DEF EntitledInv

(* A decision that approval.Read accepts was stamped on this very action.  *)
LEMMA ReadIsBacked ==
  ASSUME NEW w, NEW lg, NEW dec, NEW hook, Sound(w, lg, dec, hook), w.pending.id # 0, Reads(w) = "ok"
  PROVE  Backed(w.pending.id, w.ann.label, target(w), lg, dec) /\ dec # {}
<1> DEFINE m == w.ann.mac
           d == [id |-> m.id, seen |-> m.id, label |-> m.label, edit |-> m.edit]
<1>1. m = MAC(w.pending.id, w.pending.action, w.ann)
  BY DEF Reads, Read, VerifyMAC
<1>2. m.id = w.pending.id /\ m.label = w.ann.label /\ m.edit = w.ann.edit
  BY <1>1 DEF MAC
<1> HIDE DEF m
<1>3. d \in dec
  BY <1>2 DEF Sound, Attested, m
<1>4. d.id = w.pending.id /\ d.label = w.ann.label /\ d.edit = w.ann.edit
  BY <1>2
<1>5. w.pending.action = lg[w.pending.id].action
  BY DEF Sound, Logged
<1> HIDE DEF d
<1> QED
  BY <1>3, <1>4, <1>5 DEF Backed, target

(* The intent carries the stamped decision, and what the policy says of it.*)
LEMMA RecordJob ==
  ASSUME TypeInv, OnceInv, NEW o \in Operators, RecordIntent(o)
  PROVE  /\ Receipt(job'[o]) = [id |-> obj.pending.id, label |-> obj.ann.label, action |-> target(obj)]
         /\ job'[o].label # "reject" /\ ~job'[o].blocked => ~Blocks(obj.policy, target(obj))
         /\ Releasable(obj) /\ Reads(obj) = "ok"
<1> DEFINE w == cache[o]
           J(ready) == [id |-> w.pending.id, action |-> target(w), label |-> w.ann.label,
                 blocked |-> w.ann.label # "reject" /\ humanBlocked(evaluateLayers(w.policy, target(w), ready)),
                 receipted |-> FALSE, granted |-> w.policy]
<1>1. w = obj /\ obj \in Objects /\ KnownIds(obj, log) /\ OperatorType
  BY RecordKept, TypeParts DEF TypeInv, Known
<1>2. PICK ready \in Readiness : job' = [job EXCEPT ![o] = J(ready)]
  BY DEF RecordIntent
<1>3. job'[o] = J(ready)
  BY <1>1, <1>2 DEF OperatorType
<1>4. /\ job'[o].id = w.pending.id /\ job'[o].action = target(w) /\ job'[o].label = w.ann.label
      /\ job'[o].blocked = (w.ann.label # "reject" /\ humanBlocked(evaluateLayers(w.policy, target(w), ready)))
  BY <1>3
<1>5. Releasable(w) /\ Reads(w) = "ok" /\ w.pending.id # 0
  BY DEF RecordIntent, Undecided, Releasable, OnApprovalPath
<1>6. w.pending.action \in Actions /\ w.policy \in Policies
  BY <1>1, <1>5 DEF KnownIds, Objects
<1>7. target(w) \in Actions
  BY <1>1, <1>5, <1>6, ReadsOk
<1>8. LayersOf[w.policy][target(w)] \in Layers
  BY <1>6, <1>7, ControllerAssumption
<1>9. humanBlocked(LayersOf[w.policy][target(w)]) => humanBlocked(evaluateLayers(w.policy, target(w), ready))
  BY <1>8 DEF humanBlocked, evaluateLayers, Layers
<1> HIDE DEF w, J
<1> QED
  BY <1>1, <1>4, <1>5, <1>9 DEF Blocks, Receipt

(* The intent is entitled by the stamp.                                    *)
LEMMA RecordEntitled ==
  ASSUME TypeInv, OnceInv, StampInv, EntitledInv, NEW o \in Operators, RecordIntent(o)
  PROVE  EntitledInv'
<1>1. /\ pc'[o] = "receipt" /\ wl'[o] = obj' /\ Others(o)
      /\ UNCHANGED <<cache, log, human, execs, clientVars>>
  BY RecordEffect
<1>2. obj'.phase = obj.phase /\ SameCase(obj', obj)
  BY RecordKept
<1>3. Releasable(obj) /\ Reads(obj) = "ok" /\ Receipt(job'[o]).id = obj.pending.id
      /\ Receipt(job'[o]).label = obj.ann.label /\ Receipt(job'[o]).action = target(obj)
  BY RecordJob
<1>4. /\ job'[o].id = obj.pending.id /\ job'[o].label = obj.ann.label /\ job'[o].action = target(obj)
      /\ obj.pending.id # 0 /\ obj.phase = "PendingApproval"
  BY <1>3 DEF Receipt, Releasable, OnApprovalPath
<1>5. Backed(obj.pending.id, obj.ann.label, target(obj), log, decided)
  BY <1>3, <1>4, ReadIsBacked DEF StampInv, Copies
<1>6. HumanJob("receipt", wl'[o], job'[o], log', decided', human')
  BY <1>1, <1>2, <1>4, <1>5, RecordJob DEF HumanJob, SameCase, clientVars
<1>7. Grows
  BY <1>1 DEF Grows, LogGrows, clientVars
<1> QED
  BY <1>1, <1>6, <1>7, QuietEntitled DEF OnDirect

(* Past the receipt: it is stored where it is required, and the decision   *)
(* is neither a rejection nor blocked.                                     *)
LEMMA ReceiptEntitled ==
  ASSUME TypeInv, OnceInv, EntitledInv, NEW o \in Operators, HumanReceipt(o)
  PROVE  EntitledInv'
<1>1. /\ pc[o] = "receipt" /\ Others(o) /\ LogGrows
      /\ UNCHANGED <<obj, cache, job, execs, clientVars>>
      /\ pc'[o] = "commit" \/ (pc'[o] = "mark" /\ wl'[o] = wl[o])
  BY HumanReceiptEffect
<1>2. PICK app \in Appends : ~ReceiptRefused(app) /\ human' = withReceipt(o, app)
  BY DEF HumanReceipt
<1>3. Grows
  BY <1>1, <1>2 DEF Grows, withReceipt, clientVars
<1>4. HumanJob("receipt", wl[o], job[o], log, decided, human)
  BY <1>1 DEF EntitledInv, JobsEntitled, OnHuman
<1>5. HumanJob("receipt", wl[o], job[o], log', decided', human')
  BY <1>1, <1>3, <1>4, HumanGrows, JobIds, TypeParts DEF TypeInv, OnHuman
<1>6. ASSUME pc'[o] = "mark" PROVE HumanJob("mark", wl'[o], job'[o], log', decided', human')
  <2>1. job[o].label # "reject" /\ ~job[o].blocked
    <3>1. pc' = [pc EXCEPT ![o] = "mark"] \/ pc' = [pc EXCEPT ![o] = "commit"]
      BY DEF HumanReceipt
    <3>2. OperatorType
      BY TypeParts DEF TypeInv
    <3>3. pc' # [pc EXCEPT ![o] = "commit"]
      BY <1>6, <3>2 DEF OperatorType
    <3> QED
      BY <3>3 DEF HumanReceipt
  <2>2. WriteAhead => Receipt(job[o]) \in human'
    BY <1>2 DEF WriteAhead, ReceiptRefused, Appends, withReceipt, Receipt
  <2> QED
    BY <1>1, <1>5, <1>6, <2>1, <2>2 DEF HumanJob
<1> QED
  BY <1>1, <1>3, <1>6, QuietEntitled DEF OnDirect, OnHuman

(* Executing is granted by the stored policy, the one that was evaluated.  *)
LEMMA MarkEntitled ==
  ASSUME TypeInv, OnceInv, EntitledInv, NEW o \in Operators, MarkExecuting(o)
  PROVE  EntitledInv'
<1>1. /\ pc[o] = "mark" /\ Others(o) /\ UNCHANGED <<cache, log, human, execs, clientVars>>
      /\ pc'[o] = "run" \/ EndReconcile(o)
  BY MarkEffect
<1>2. Grows
  BY <1>1 DEF Grows, LogGrows, clientVars
<1>3. CASE pc'[o] = "run"
  <2>1. wl[o] = obj /\ job'[o] = [job[o] EXCEPT !.granted = obj.policy]
    BY <1>3, MarkKept
  <2>2. job[o] \in Jobs
    BY TypeParts DEF TypeInv, OperatorType
  <2>3. /\ job'[o].label = job[o].label /\ job'[o].id = job[o].id /\ job'[o].action = job[o].action
        /\ job'[o].granted = obj.policy
    BY <2>1, <2>2 DEF Jobs
  <2>4. HumanJob("mark", wl[o], job[o], log, decided, human)
    BY <1>1 DEF EntitledInv, JobsEntitled, OnHuman
  <2>5. HumanJob("run", wl'[o], job'[o], log', decided', human')
    BY <1>1, <2>1, <2>3, <2>4 DEF HumanJob, Receipt, clientVars
  <2> QED
    BY <1>1, <1>2, <1>3, <2>5, QuietEntitled DEF OnDirect
<1>4. CASE EndReconcile(o)
  BY <1>1, <1>2, <1>4, EndEntitled
<1> QED
  BY <1>1, <1>3, <1>4

(* Every step keeps the second part.                                       *)
LEMMA EntitledNext == TypeInv /\ OnceInv /\ StampInv /\ EntitledInv /\ [Next]_vars => EntitledInv'
<1> SUFFICES ASSUME TypeInv, OnceInv, StampInv, EntitledInv, [Next]_vars PROVE EntitledInv'
  OBVIOUS
<1>1. CASE UNCHANGED vars
  BY <1>1, IdleEntitled DEF vars
<1>2. CASE Client
  <2>1. UNCHANGED <<pc, wl, job, log, human, execs>>
    BY <1>2, ClientEffect, RestoreEffect DEF opVars
  <2>2. decided \subseteq decided'
    BY <1>2 DEF Client, ReadPending, PatchDecision, ClearDecision, AnnotateUnadmitted, EditPolicy,
                RestorePending, clientVars
  <2> QED
    BY <2>1, <2>2, IdleEntitled
<1>3. ASSUME NEW o \in Operators, Reconcile(o) PROVE EntitledInv'
  <2>1. CASE \/ GateFails(o) \/ ProposeFails(o) \/ HoldReplay(o) \/ HoldUnverified(o)
             \/ FinishUnknown(o)
    <3>1. UNCHANGED <<opVars, log, human, execs, clientVars>>
      BY <2>1, IdleWrites DEF FinishUnknown
    <3> QED
      BY <3>1, IdleEntitled DEF opVars, clientVars
  <2>2. CASE ProposeAndDecide(o)
    <3>1. /\ Others(o) /\ LogGrows /\ UNCHANGED <<human, execs, clientVars>>
          /\ pc'[o] \in {"reserve", "commit"}
      BY <2>2, ProposeType
    <3>2. Grows
      BY <3>1 DEF Grows, clientVars
    <3> QED
      BY <2>2, <3>1, <3>2, ProposeJob, QuietEntitled DEF OnDirect, OnHuman
  <2>3. CASE Commit(o) \/ HoldReceiptFailed(o)
    <3>1. EndReconcile(o) /\ UNCHANGED <<cache, log, execs, clientVars>>
      BY <2>3, CommitEffect, HoldReceiptEffect
    <3>2. human \subseteq human'
      BY <2>3 DEF Commit, HoldReceiptFailed, withReceipt
    <3>3. Grows
      BY <3>1, <3>2 DEF Grows, LogGrows, clientVars
    <3> QED
      BY <3>1, <3>3, EndEntitled
  <2>4. CASE ExecuteAllowed(o)
    <3>1. /\ pc[o] = "execute" /\ pc'[o] = "commit" /\ Others(o) /\ UNCHANGED <<log, human, clientVars>>
          /\ \E res \in Calls : Ran(o, res)
      BY <2>4, ExecuteEffect
    <3> QED
      BY <3>1, CallEntitled DEF clientVars
  <2>5. CASE RunApproved(o)
    <3>1. /\ pc[o] = "run" /\ pc'[o] = "commit" /\ Others(o) /\ UNCHANGED <<log, human, clientVars>>
          /\ \E res \in Calls : Ran(o, res)
      BY <2>5, RunEffect
    <3> QED
      BY <3>1, CallEntitled DEF clientVars
  <2> QED
    BY <1>3, <2>1, <2>2, <2>3, <2>4, <2>5, ReserveEntitled, RecordEntitled, ReceiptEntitled,
       MarkEntitled DEF Reconcile
<1>4. ASSUME NEW o \in Operators, Sync(o) PROVE EntitledInv'
  BY <1>4, IdleEntitled DEF Sync, clientVars
<1>5. ASSUME NEW o \in Operators, Crash(o) PROVE EntitledInv'
  <2>1. EndReconcile(o) /\ UNCHANGED <<cache, log, human, execs, clientVars>>
    BY <1>5 DEF Crash
  <2> QED
    BY <2>1, EndEntitled DEF Grows, LogGrows, clientVars
<1> QED
  BY <1>1, <1>2, <1>3, <1>4, <1>5 DEF Next

(* The initial states satisfy the second part.                             *)
LEMMA EntitledInit == Init => EntitledInv
BY DEF Init, EntitledInv, JobsEntitled, ExecsEntitled, OnDirect, OnHuman

(* Write-ahead, for any receipts configuration.  Its invariant is that a   *)
(* reconcile past its receipt has one stored.                              *)
LEMMA EntitledReceipts == TypeInv /\ EntitledInv => ReceiptBeforeExecution
<1> SUFFICES ASSUME TypeInv, EntitledInv, WriteAhead, NEW i \in Executions
             PROVE  IF ByHuman(execs[i])
                    THEN [id |-> execs[i].id, label |-> execs[i].label, action |-> execs[i].action] \in human
                    ELSE log[execs[i].id].stored
  BY DEF ReceiptBeforeExecution, WriteAhead
<1>1. Entitled(execs[i], log, decided, human)
  BY ExecLength DEF TypeInv, EntitledInv, ExecsEntitled, Executions
<1> QED
  BY <1>1 DEF Entitled, Receipt

-----------------------------------------------------------------------------
(* The third part: with one operator, the freeze lasts until the call.     *)

FreezeAll == TypeInv /\ OnceInv /\ StampInv /\ EntitledInv /\ FreezeInv

(* No client changes the policy of a held action, nor releases it.         *)
LEMMA ClientFreeze ==
  ASSUME TypeInv, StampInv, Client, webhook, OnApprovalPath(obj)
  PROVE  webhook' /\ OnApprovalPath(obj') /\ obj'.policy = obj.policy
<1>1. obj \in Objects
  BY TypeParts DEF TypeInv
<1>2. CASE RestorePending
  BY <1>2, RestoreStamp DEF RestorePending, clientVars
<1>3. CASE \E u \in Users : ReadPending(u)
  BY <1>3 DEF ReadPending
<1>4. CASE \E p \in Policies : EditPolicy(p)
  BY <1>4 DEF EditPolicy, frozen, OnApprovalPath
<1>5. ASSUME NEW a, obj' = [obj EXCEPT !.ann = a, !.rv = @ + 1] PROVE OnApprovalPath(obj') /\ obj'.policy = obj.policy
  BY <1>1, <1>5 DEF OnApprovalPath, Objects
<1>6. ASSUME NEW u, NEW l, NEW e, PatchDecision(u, l, e) PROVE webhook' = webhook
        /\ \E a : obj' = [obj EXCEPT !.ann = a, !.rv = @ + 1]
  BY <1>6 DEF PatchDecision
<1>7. ASSUME ClearDecision PROVE webhook' = webhook /\ \E a : obj' = [obj EXCEPT !.ann = a, !.rv = @ + 1]
  BY <1>7 DEF ClearDecision
<1>8. ASSUME NEW by, NEW l PROVE ~AnnotateUnadmitted(by, l)
  BY DEF AnnotateUnadmitted
<1> QED
  BY <1>2, <1>3, <1>4, <1>5, <1>6, <1>7, <1>8 DEF Client

(* Executions of before ran under the policy of their decision.            *)
LEMMA ReviewedKept ==
  ASSUME TypeInv, TypeInv', OnceInv, ExecutedUnderReviewedPolicy, LogGrows,
         \/ execs' = execs
         \/ \E e : /\ execs' = Append(execs, e)
                   /\ ByHuman(e) => e.policy = log[e.id].policy /\ e.id \in 1 .. Len(log)
  PROVE  ExecutedUnderReviewedPolicy'
<1> DEFINE E == [id : Nat, label : Labels \cup {""}, action : Actions,
                 granted : Policies, policy : Policies]
<1>1. log \in Seq(Entries) /\ execs \in Seq(E) /\ execs' \in Seq(E)
  BY TypeParts DEF TypeInv, TypeOK
<1> HIDE DEF E
<1>2. DOMAIN execs = 1 .. Len(execs)
  BY <1>1
<1>3. ASSUME NEW i \in 1 .. Len(execs), ByHuman(execs[i])
      PROVE  execs[i].policy = log'[execs[i].id].policy
  <2>1. execs[i].id \in 1 .. Len(log)
    BY DEF OnceInv, Bounded
  <2>2. execs[i].policy = log[execs[i].id].policy
    BY <1>2, <1>3 DEF ExecutedUnderReviewedPolicy, Executions
  <2> QED
    BY <1>1, <2>1, <2>2, KeptEntries
<1>4. CASE execs' = execs
  BY <1>2, <1>3, <1>4 DEF ExecutedUnderReviewedPolicy, Executions, ByHuman
<1>5. CASE execs' # execs
  <2>1. PICK e : /\ execs' = Append(execs, e)
                 /\ ByHuman(e) => e.policy = log[e.id].policy /\ e.id \in 1 .. Len(log)
    BY <1>5
  <2>2. ByHuman(e) => e.policy = log'[e.id].policy
    BY <1>1, <2>1, KeptEntries
  <2>3. \A i \in DOMAIN execs' : execs'[i] = e \/ (i \in 1 .. Len(execs) /\ execs'[i] = execs[i])
    BY <1>1, <2>1
  <2>4. \A i \in DOMAIN execs' : ByHuman(execs'[i]) => execs'[i].policy = log'[execs'[i].id].policy
    BY <1>3, <2>2, <2>3
  <2> QED
    BY <2>4 DEF ExecutedUnderReviewedPolicy, Executions, ByHuman
<1> QED
  BY <1>4, <1>5

(* The stored policy is the reviewed one when Executing is stored.         *)
LEMMA MarkFreeze ==
  ASSUME TypeInv, OnceInv, StampInv, EntitledInv, NEW o \in Operators, MarkExecuting(o), pc'[o] = "run"
  PROVE  webhook' /\ OnApprovalPath(obj') /\ obj'.policy = log[job'[o].id].policy
<1>1. /\ wl[o] = obj /\ obj'.phase = obj.phase /\ SameCase(obj', obj)
      /\ job'[o] = [job[o] EXCEPT !.granted = obj.policy]
  BY MarkKept
<1>2. pc[o] = "mark" /\ webhook' = webhook
  BY MarkEffect DEF clientVars
<1>3. job[o] \in Jobs /\ job[o].id # 0 /\ job[o].id = wl[o].pending.id
  BY <1>2, TypeParts DEF TypeInv, OperatorType, Known, Carries
<1>4. job'[o].id = obj.pending.id
  BY <1>1, <1>3 DEF Jobs
<1>5. ~approvalConsumed(obj, obj.pending.id)
  BY <1>1, <1>2 DEF OnceInv, Recorded, Open
<1>6. HumanJob("mark", wl[o], job[o], log, decided, human)
  BY <1>2 DEF EntitledInv, JobsEntitled, OnHuman
<1>7. Releasable(obj)
  BY <1>1, <1>3, <1>5, <1>6 DEF HumanJob, Releasable, OnApprovalPath
<1>8. webhook
  BY <1>6 DEF HumanJob, Backed, StampInv, Deciding
<1>9. obj.policy = log[obj.pending.id].policy
  BY <1>7, <1>8 DEF StampInv, Copies, Sound, Reviewed
<1> QED
  BY <1>1, <1>2, <1>4, <1>7, <1>8, <1>9 DEF SameCase, Releasable, OnApprovalPath

(* A reconcile comes to run only by MarkExecuting, and executes in two     *)
(* places.                                                                 *)
LEMMA RunsAfterMark ==
  ASSUME TypeInv, NEW o \in Operators, Reconcile(o)
  PROVE  /\ pc[o] = "run" => RunApproved(o)
         /\ pc'[o] = "run" => MarkExecuting(o)
         /\ execs' = execs \/ ExecuteAllowed(o) \/ RunApproved(o)
         /\ LogGrows /\ webhook' = webhook
<1>1. CASE GateFails(o) \/ ProposeFails(o) \/ HoldReplay(o) \/ HoldUnverified(o) \/ FinishUnknown(o)
  <2>1. pc[o] = "idle" /\ UNCHANGED <<opVars, log, execs, clientVars>>
    BY <1>1 DEF GateFails, ProposeFails, HoldReplay, HoldUnverified, FinishUnknown
  <2> QED
    BY <2>1 DEF opVars, clientVars, LogGrows
<1>2. CASE ProposeAndDecide(o)
  BY <1>2, ProposeType DEF clientVars
<1>3. CASE ReserveExecution(o) \/ Commit(o) \/ HoldReceiptFailed(o)
  <2>1. /\ pc[o] # "run" /\ UNCHANGED <<cache, log, execs, clientVars>>
        /\ pc'[o] = "execute" \/ EndReconcile(o)
    BY <1>3, ReserveEffect, CommitEffect, HoldReceiptEffect
  <2>2. pc'[o] # "run"
    BY <2>1, EndStep
  <2> QED
    BY <2>1, <2>2 DEF clientVars, LogGrows
<1>4. CASE ExecuteAllowed(o) \/ RunApproved(o)
  BY <1>4, ExecuteEffect, RunEffect DEF clientVars, LogGrows
<1>5. CASE RecordIntent(o)
  BY <1>5, RecordEffect DEF clientVars, LogGrows
<1>6. CASE HumanReceipt(o)
  BY <1>6, HumanReceiptEffect DEF clientVars
<1>7. CASE MarkExecuting(o)
  BY <1>7, MarkEffect DEF clientVars, LogGrows
<1> QED
  BY <1>1, <1>2, <1>3, <1>4, <1>5, <1>6, <1>7 DEF Reconcile

(* Every step keeps the third part.                                        *)
LEMMA FreezeNext == FreezeAll /\ TypeInv' /\ [Next]_vars => FreezeInv'
<1> SUFFICES ASSUME FreezeAll, TypeInv', [Next]_vars, OneOperator
             PROVE  /\ ExecutedUnderReviewedPolicy'
                    /\ \A o \in Operators : pc'[o] = "run" =>
                         webhook' /\ OnApprovalPath(obj') /\ obj'.policy = log'[job'[o].id].policy
  BY DEF FreezeInv, OneOperator, OnApprovalPath
<1>1. TypeInv /\ OnceInv /\ StampInv /\ EntitledInv /\ ExecutedUnderReviewedPolicy
      /\ \A o \in Operators : pc[o] = "run" =>
           webhook /\ OnApprovalPath(obj) /\ obj.policy = log[job[o].id].policy
  BY DEF FreezeAll, FreezeInv
<1>2. CASE UNCHANGED vars
  <2>1. ExecutedUnderReviewedPolicy'
    BY <1>1, <1>2, ReviewedKept DEF vars, LogGrows
  <2> QED
    BY <1>1, <1>2, <2>1 DEF vars
<1>3. CASE Client
  <2>1. UNCHANGED <<opVars, log, execs>>
    BY <1>1, <1>3, ClientEffect, RestoreEffect
  <2>2. ExecutedUnderReviewedPolicy'
    BY <1>1, <2>1, ReviewedKept DEF LogGrows
  <2> QED
    BY <1>1, <1>3, <2>1, <2>2, ClientFreeze DEF opVars
<1>4. ASSUME NEW o \in Operators, Sync(o)
      PROVE  /\ ExecutedUnderReviewedPolicy'
             /\ \A q \in Operators : pc'[q] = "run" =>
                  webhook' /\ OnApprovalPath(obj') /\ obj'.policy = log'[job'[q].id].policy
  <2>1. UNCHANGED <<obj, pc, job, log, execs, webhook>>
    BY <1>4 DEF Sync, clientVars
  <2>2. ExecutedUnderReviewedPolicy'
    BY <1>1, <2>1, ReviewedKept DEF LogGrows
  <2> QED
    BY <1>1, <2>1, <2>2
<1>5. ASSUME NEW o \in Operators, Crash(o)
      PROVE  /\ ExecutedUnderReviewedPolicy'
             /\ \A q \in Operators : pc'[q] = "run" =>
                  webhook' /\ OnApprovalPath(obj') /\ obj'.policy = log'[job'[q].id].policy
  <2>1. UNCHANGED <<log, execs, cache>> /\ EndReconcile(o)
    BY <1>5 DEF Crash
  <2>2. ExecutedUnderReviewedPolicy'
    BY <1>1, <2>1, ReviewedKept DEF LogGrows
  <2>3. pc'[o] = "idle"
    BY <1>1, <2>1, EndStep
  <2> QED
    BY <2>2, <2>3 DEF OneOperator
<1>6. ASSUME NEW o \in Operators, Reconcile(o)
      PROVE  /\ ExecutedUnderReviewedPolicy'
             /\ \A q \in Operators : pc'[q] = "run" =>
                  webhook' /\ OnApprovalPath(obj') /\ obj'.policy = log'[job'[q].id].policy
  <2>1. LogGrows
    BY <1>1, <1>6, RunsAfterMark
  <2>2. pc'[o] = "run" => webhook' /\ OnApprovalPath(obj') /\ obj'.policy = log'[job'[o].id].policy
    <3>1. SUFFICES ASSUME pc'[o] = "run" PROVE webhook' /\ OnApprovalPath(obj') /\ obj'.policy = log'[job'[o].id].policy
      OBVIOUS
    <3>2. MarkExecuting(o)
      BY <1>1, <1>6, <3>1, RunsAfterMark
    <3>3. log' = log
      BY <3>2 DEF MarkExecuting
    <3> QED
      BY <1>1, <3>1, <3>2, <3>3, MarkFreeze
  <2>3. CASE execs' = execs
    BY <1>1, <2>1, <2>2, <2>3, ReviewedKept DEF OneOperator
  <2>4. CASE execs' # execs
    <3> DEFINE e == [id |-> job[o].id, label |-> job[o].label, action |-> job[o].action,
                     granted |-> job[o].granted, policy |-> obj.policy]
    <3>1. execs' = Append(execs, e) /\ pc[o] \in {"execute", "run"}
      <4>1. PICK res \in Calls : Ran(o, res)
        BY <1>1, <1>6, <2>4, RunsAfterMark, ExecuteEffect, RunEffect
      <4>2. pc[o] \in {"execute", "run"}
        BY <1>1, <1>6, <2>4, RunsAfterMark, ExecuteEffect, RunEffect
      <4> QED
        BY <2>4, <4>1, <4>2 DEF Ran
    <3>2. e.id = job[o].id /\ e.label = job[o].label /\ e.policy = obj.policy
      OBVIOUS
    <3>3. job[o].id \in 1 .. Len(log)
      BY <1>1, <3>1, JobIds DEF OnDirect, OnHuman
    <3>4. pc[o] = "execute" => job[o].label = ""
      BY <1>1 DEF EntitledInv, JobsEntitled, OnDirect, DirectJob
    <3> HIDE DEF e
    <3>5. ByHuman(e) => e.policy = log[e.id].policy /\ e.id \in 1 .. Len(log)
      BY <1>1, <3>1, <3>2, <3>3, <3>4 DEF ByHuman
    <3>6. ExecutedUnderReviewedPolicy'
      BY <1>1, <2>1, <3>1, <3>5, ReviewedKept
    <3> QED
      BY <2>2, <3>6 DEF OneOperator
  <2> QED
    BY <2>3, <2>4
<1> QED
  BY <1>2, <1>3, <1>4, <1>5, <1>6 DEF Next

-----------------------------------------------------------------------------
(* The fourth part: the human resolutions of one action agree.             *)

(* A kept object keeps what stands on it.                                  *)
LEMMA StandsKept ==
  ASSUME NEW r, NEW v, NEW w, Kept(v, w), Stands(r, w)
  PROVE  Stands(r, v)
BY DEF Kept, SameCase, Stands, Releasable, OnApprovalPath, approvalConsumed, Reads, target

(* The resolutions after a step of o: none is new.                         *)
LEMMA ResolutionsKept ==
  ASSUME NEW o \in Operators, Others(o),
         \/ human' = human
         \/ OnHuman(pc[o]) /\ human' \subseteq human \cup {Receipt(job[o])},
         OnHuman(pc'[o]) => OnHuman(pc[o]) /\ Receipt(job'[o]) = Receipt(job[o])
  PROVE  Resolutions' \subseteq Resolutions
<1>1. human' \subseteq Resolutions
  BY DEF Resolutions
<1>2. ASSUME NEW q \in Operators, OnHuman(pc'[q]) PROVE Receipt(job'[q]) \in Resolutions
  BY <1>2 DEF Resolutions, Others
<1> QED
  BY <1>1, <1>2 DEF Resolutions, OnHuman, Receipt

(* What a step has to keep.                                                *)
LEMMA AgreeStep ==
  ASSUME AgreeInv, Resolutions' \subseteq Resolutions,
         \A r \in Resolutions : Stands(r, obj) => Stands(r, obj'),
         \A r \in human' : r.id \in 1 .. Len(log'),
         \A q \in Operators, r \in human' :
           pc'[q] = "commit" /\ wl'[q].pending.id # 0 => r.id # wl'[q].pending.id
  PROVE  AgreeInv'
<1>1. \A r \in Resolutions' : Stands(r, obj')
  BY DEF AgreeInv
<1>2. \A r1, r2 \in Resolutions' : r1.id = r2.id => r1 = r2
  BY DEF AgreeInv
<1>3. \A r : Stands(r, obj)' <=> Stands(r, obj')
  BY DEF Stands, Releasable, OnApprovalPath, approvalConsumed, Reads, target
<1> QED
  BY <1>1, <1>2, <1>3 DEF AgreeInv

(* A step of the reconcile of o that starts no human path.                 *)
LEMMA AgreeQuiet ==
  ASSUME TypeInv, OnceInv, AgreeInv, NEW o \in Operators, Others(o), LogGrows,
         \/ human' = human
         \/ OnHuman(pc[o]) /\ human' \subseteq human \cup {Receipt(job[o])},
         OnHuman(pc'[o]) => OnHuman(pc[o]) /\ Receipt(job'[o]) = Receipt(job[o]),
         pc'[o] = "commit" => \/ wl'[o].pending.id = 0
                              \/ wl'[o].pending.id = Len(log) + 1 /\ human' = human,
         \A r \in Resolutions : Stands(r, obj) => Stands(r, obj')
  PROVE  AgreeInv'
<1>1. /\ log \in Seq(Entries) /\ Len(log) \in Nat /\ Len(log') \in Nat /\ Len(log) <= Len(log')
  BY KeptIds, TypeParts DEF TypeInv
<1>2. \A r \in human' : r.id \in 1 .. Len(log)
  <2>1. OnHuman(pc[o]) => Receipt(job[o]).id \in 1 .. Len(log)
    BY JobIds DEF Receipt
  <2> QED
    BY <2>1 DEF AgreeInv
<1>3. ASSUME NEW q \in Operators, NEW r \in human', pc'[q] = "commit", wl'[q].pending.id # 0
      PROVE  r.id # wl'[q].pending.id
  <2>1. CASE q = o
    BY <1>1, <1>2, <1>3, <2>1
  <2>2. CASE q # o
    <3>1. pc[q] = "commit" /\ wl'[q] = wl[q]
      BY <1>3, <2>2 DEF Others
    <3>2. Receipt(job[o]).id # wl[q].pending.id
      BY <1>3, <3>1 DEF OnceInv, NewPending, Private, Receipt
    <3> QED
      BY <1>3, <3>1, <3>2 DEF AgreeInv
  <2> QED
    BY <2>1, <2>2
<1>4. \A r \in human' : r.id \in 1 .. Len(log')
  BY <1>1, <1>2
<1> QED
  BY <1>3, <1>4, ResolutionsKept, AgreeStep

(* The intent: it carries the decision that stands.                        *)
LEMMA RecordAgree ==
  ASSUME TypeInv, OnceInv, AgreeInv, NEW o \in Operators, RecordIntent(o)
  PROVE  AgreeInv'
<1> DEFINE n == Receipt(job'[o])
<1>1. /\ pc[o] = "idle" /\ pc'[o] = "receipt" /\ Others(o)
      /\ UNCHANGED <<cache, log, human, execs, clientVars>>
  BY RecordEffect
<1>2. obj'.phase = obj.phase /\ SameCase(obj', obj)
  BY RecordKept
<1>3. /\ n = [id |-> obj.pending.id, label |-> obj.ann.label, action |-> target(obj)]
      /\ Releasable(obj) /\ Reads(obj) = "ok"
  BY RecordJob
<1>4. n.id = obj.pending.id /\ n.label = obj.ann.label /\ n.action = target(obj)
  BY <1>3
<1>5. Resolutions' \subseteq Resolutions \cup {n}
  <2>1. \A q \in Operators : OnHuman(pc'[q]) => Receipt(job'[q]) \in Resolutions \cup {n}
    BY <1>1 DEF Others, Resolutions
  <2> QED
    BY <1>1, <2>1 DEF Resolutions, Receipt, OnHuman
<1>6. \A r \in Resolutions : r.id = n.id => r = n
  <2>1. ASSUME NEW r \in Resolutions, r.id = n.id PROVE r = n
    <3>1. r.label = n.label /\ r.action = n.action
      BY <1>3, <1>4, <2>1 DEF AgreeInv, Stands
    <3>2. r = [id |-> r.id, label |-> r.label, action |-> r.action]
      <4>1. CASE r \in human
        <5>1. r \in [id : Nat, label : Labels, action : Actions]
          BY <4>1, TypeParts DEF TypeInv, HumanType
        <5> QED
          BY <5>1
      <4>2. CASE r \notin human
        <5>1. PICK q \in Operators : r = Receipt(job[q])
          BY <4>2 DEF Resolutions
        <5> QED
          BY <5>1 DEF Receipt
      <4> QED
        BY <4>1, <4>2
    <3> QED
      BY <1>3, <1>4, <2>1, <3>1, <3>2
  <2> QED
    BY <2>1
<1>7. Kept(obj', obj)
  BY <1>2 DEF Kept
<1> HIDE DEF n
<1>8. Stands(n, obj)
  BY <1>3, <1>4 DEF Stands
<1>9. \A r \in Resolutions \cup {n} : Stands(r, obj')
  BY <1>7, <1>8, StandsKept DEF AgreeInv
<1>10. \A r1, r2 \in Resolutions' : r1.id = r2.id => r1 = r2
  BY <1>5, <1>6 DEF AgreeInv
<1>11. \A r \in Resolutions' : Stands(r, obj)'
  BY <1>5, <1>9 DEF Stands, Releasable, OnApprovalPath, approvalConsumed, Reads, target
<1>12. \A q \in Operators, r \in human' :
         pc'[q] = "commit" /\ wl'[q].pending.id # 0 => r.id # wl'[q].pending.id
  BY <1>1 DEF AgreeInv, Others
<1>13. \A r \in human' : r.id \in 1 .. Len(log')
  BY <1>1 DEF AgreeInv
<1> QED
  BY <1>10, <1>11, <1>12, <1>13 DEF AgreeInv

(* Nothing stands on an object without a releasable action.                *)
LEMMA NothingStands ==
  ASSUME NEW r, NEW w, ~Releasable(w)
  PROVE  Stands(r, w)
BY DEF Stands

(* Commit: a finished action, or a new one that nobody resolved.           *)
LEMMA CommitAgree ==
  ASSUME TypeInv, OnceInv, AgreeInv, NEW o \in Operators, Commit(o)
  PROVE  AgreeInv'
<1>1. /\ pc[o] = "commit" /\ Writes(wl[o]) /\ EndReconcile(o)
      /\ UNCHANGED <<cache, log, human, execs, clientVars, faults>>
  BY CommitEffect
<1>2. Others(o) /\ pc'[o] = "idle"
  BY <1>1, EndStep
<1>3. obj \in Objects /\ wl[o] \in Objects
  BY TypeParts DEF TypeInv, OperatorType
<1>4. obj' = obj \/ obj'.pending = wl[o].pending
  BY <1>1, <1>3, WritesMove
<1>5. ASSUME NEW r \in Resolutions, wl[o].pending.id # 0 PROVE r.id # wl[o].pending.id
  <2>1. CASE r \in human
    BY <1>1, <1>5, <2>1 DEF AgreeInv
  <2>2. CASE r \notin human
    <3>1. PICK q \in Operators : r = Receipt(job[q])
      BY <2>2 DEF Resolutions
    <3>2. job[q].id # wl[o].pending.id
      BY <1>1, <1>5 DEF OnceInv, NewPending, Private
    <3> QED
      BY <3>1, <3>2 DEF Receipt
  <2> QED
    BY <2>1, <2>2
<1>6. \A r \in Resolutions : Stands(r, obj) => Stands(r, obj')
  BY <1>4, <1>5 DEF Stands, Releasable, OnApprovalPath
<1> QED
  BY <1>1, <1>2, <1>6, AgreeQuiet DEF LogGrows, OnHuman

(* Every step of a reconcile keeps the fourth part.                        *)
LEMMA ReconcileAgree ==
  ASSUME TypeInv, OnceInv, AgreeInv, NEW o \in Operators, Reconcile(o)
  PROVE  AgreeInv'
<1>1. ObjectKept => \A r \in Resolutions : Stands(r, obj) => Stands(r, obj')
  BY StandsKept DEF ObjectKept
<1>2. CASE GateFails(o) \/ ProposeFails(o) \/ HoldReplay(o) \/ HoldUnverified(o)
  <2>1. UNCHANGED <<opVars, log, human>> /\ pc[o] = "idle"
    BY <1>2, IdleWrites DEF GateFails, ProposeFails, HoldReplay, HoldUnverified
  <2>2. Others(o) /\ LogGrows /\ pc'[o] = "idle"
    BY <2>1 DEF opVars, Others, LogGrows
  <2> QED
    BY <1>1, <1>2, <2>1, <2>2, IdleKept, AgreeQuiet DEF OnHuman
<1>3. CASE FinishUnknown(o)
  <2>1. UNCHANGED <<opVars, log, human>> /\ pc[o] = "idle"
    BY <1>3 DEF FinishUnknown
  <2>2. Others(o) /\ LogGrows /\ pc'[o] = "idle"
    BY <2>1 DEF opVars, Others, LogGrows
  <2>3. obj \in Objects /\ cache[o] \in Objects /\ "Failed" \in Phases
    BY TypeParts DEF TypeInv, OperatorType, Phases
  <2> DEFINE new == finishApproval(cache[o], "Failed")
  <2>4. new \in Objects /\ Writes(new) /\ new.pending = NoPending
    BY <1>3, <2>3, FinishType, FinishUnknownType
  <2> HIDE DEF new
  <2>5. obj' = obj \/ obj'.pending = NoPending
    BY <2>3, <2>4, WritesMove
  <2>6. NoPending.id = 0
    BY DEF NoPending
  <2>7. \A r \in Resolutions : Stands(r, obj) => Stands(r, obj')
    BY <2>5, <2>6, NothingStands DEF Releasable, OnApprovalPath
  <2> QED
    BY <2>1, <2>2, <2>7, AgreeQuiet DEF OnHuman
<1>4. CASE ProposeAndDecide(o)
  <2>1. /\ Others(o) /\ LogGrows /\ UNCHANGED <<obj, human>>
        /\ \/ pc'[o] = "reserve"
           \/ pc'[o] = "commit" /\ wl'[o].pending.id \in {0, Len(log) + 1}
    <3>1. NoPending.id = 0
      BY DEF NoPending
    <3> QED
      BY <1>4, <3>1, ProposeType
  <2>2. \A r \in Resolutions : Stands(r, obj) => Stands(r, obj')
    BY <2>1
  <2>3. pc'[o] \notin {"receipt", "mark", "run"}
    BY <2>1
  <2> QED
    BY <2>1, <2>2, <2>3, AgreeQuiet DEF OnHuman
<1>5. CASE ReserveExecution(o)
  <2>1. Others(o) /\ UNCHANGED <<cache, log, human>> /\ (pc'[o] = "execute" \/ EndReconcile(o))
    BY <1>5, ReserveEffect
  <2>2. pc'[o] \in {"execute", "idle"}
    BY <2>1, EndStep
  <2> QED
    BY <1>1, <1>5, <2>1, <2>2, ReserveKept, AgreeQuiet DEF OnHuman, LogGrows
<1>6. CASE ExecuteAllowed(o)
  <2>1. /\ Others(o) /\ UNCHANGED <<obj, log, human>> /\ pc'[o] = "commit" /\ wl'[o].pending = NoPending
    BY <1>6, ExecuteEffect
  <2>2. NoPending.id = 0
    BY DEF NoPending
  <2> QED
    BY <2>1, <2>2, AgreeQuiet DEF OnHuman, LogGrows
<1>7. CASE HoldReceiptFailed(o)
  <2>1. pc[o] = "receipt" /\ EndReconcile(o) /\ UNCHANGED <<cache, log>>
    BY <1>7, HoldReceiptEffect
  <2>2. Others(o) /\ pc'[o] = "idle"
    BY <2>1, EndStep
  <2>3. human' \subseteq human \cup {Receipt(job[o])}
    BY <1>7 DEF HoldReceiptFailed, withReceipt, Receipt
  <2> QED
    BY <1>1, <1>7, <2>1, <2>2, <2>3, HoldReceiptKept, AgreeQuiet DEF OnHuman, LogGrows
<1>8. CASE HumanReceipt(o) \/ RunApproved(o)
  <2>1. /\ OnHuman(pc[o]) /\ Others(o) /\ LogGrows /\ UNCHANGED <<obj, job>>
        /\ \/ pc'[o] = "commit" /\ \E phase \in Phases : wl'[o] = finishApproval(wl[o], phase)
           \/ pc'[o] = "mark"
    BY <1>8, HumanReceiptEffect, RunEffect DEF OnHuman, LogGrows
  <2>2. human' \subseteq human \cup {Receipt(job[o])}
    BY <1>8 DEF HumanReceipt, RunApproved, withReceipt, Receipt
  <2>3. pc'[o] = "commit" => wl'[o].pending.id = 0
    <3>1. wl[o] \in Objects
      BY TypeParts DEF TypeInv, OperatorType
    <3>2. NoPending.id = 0
      BY DEF NoPending
    <3> QED
      BY <2>1, <3>1, <3>2, FinishType
  <2>4. Receipt(job'[o]) = Receipt(job[o]) /\ \A r \in Resolutions : Stands(r, obj) => Stands(r, obj')
    BY <2>1
  <2> QED
    BY <2>1, <2>2, <2>3, <2>4, AgreeQuiet
<1>9. CASE MarkExecuting(o)
  <2>1. /\ pc[o] = "mark" /\ Others(o) /\ UNCHANGED <<cache, log, human>>
        /\ \/ /\ pc'[o] = "run" /\ job'[o].id = job[o].id
              /\ job'[o].action = job[o].action /\ job'[o].label = job[o].label
           \/ EndReconcile(o)
    BY <1>9, MarkEffect
  <2>2. (pc'[o] = "run" /\ Receipt(job'[o]) = Receipt(job[o])) \/ pc'[o] = "idle"
    BY <2>1, EndStep DEF Receipt
  <2> QED
    BY <1>1, <1>9, <2>1, <2>2, MarkKept, AgreeQuiet DEF OnHuman, LogGrows
<1> QED
  BY <1>2, <1>3, <1>4, <1>5, <1>6, <1>7, <1>8, <1>9, RecordAgree, CommitAgree DEF Reconcile

(* A decision that stands is final: it is neither replaced nor cleared.    *)
LEMMA DecisionIsFinal ==
  ASSUME NEW w, Releasable(w), Reads(w) = "ok", NEW new, new.by = NoUser
  PROVE  ~Admits(w.ann, new, w.pending.id)
BY DEF Releasable, OnApprovalPath, Reads, Read, Admits

(* Clients keep the fourth part.                                           *)
LEMMA ClientAgree ==
  ASSUME TypeInv, StampInv, AgreeInv, Client
  PROVE  AgreeInv'
<1>1. UNCHANGED <<opVars, log, human>> /\ obj \in Objects
  BY ClientEffect, RestoreEffect, TypeParts DEF TypeInv
<1>2. Resolutions' = Resolutions
  BY <1>1 DEF Resolutions, opVars
<1>3. ASSUME NEW a, obj' = [obj EXCEPT !.ann = a, !.rv = @ + 1]
      PROVE  /\ Releasable(obj') => Releasable(obj)
             /\ obj'.pending.id = obj.pending.id
  <2>1. obj'.phase = obj.phase /\ obj'.pending = obj.pending /\ obj'.last = obj.last /\ obj'.consumed = obj.consumed
    BY <1>1, <1>3 DEF Objects
  <2> QED
    BY <2>1 DEF Releasable, OnApprovalPath, approvalConsumed
<1>4. ASSUME NEW r \in Resolutions, Stands(r, obj) PROVE Stands(r, obj')
  <2>1. CASE RestorePending
    BY <2>1, RestoreStamp, NothingStands
  <2>2. CASE \E u \in Users : ReadPending(u)
    BY <1>4, <2>2 DEF ReadPending
  <2>3. CASE \E p \in Policies : EditPolicy(p)
    <3>1. PICK p : obj' = [obj EXCEPT !.policy = p, !.rv = @ + 1]
      BY <2>3 DEF EditPolicy
    <3>2. /\ obj'.phase = obj.phase /\ obj'.pending = obj.pending /\ obj'.last = obj.last
          /\ obj'.consumed = obj.consumed /\ obj'.ann = obj.ann
      BY <1>1, <3>1 DEF Objects
    <3> QED
      BY <1>4, <3>2 DEF Stands, Releasable, OnApprovalPath, approvalConsumed, Reads, target
  <2>4. ASSUME Releasable(obj), obj.pending.id = r.id, NEW new, new.by = NoUser
        PROVE  ~Admits(obj.ann, new, webhookPending) /\ webhook
    <3>1. Reads(obj) = "ok" /\ obj.pending.id # 0 /\ webhookPending = obj.pending.id
      BY <1>4, <2>4 DEF Stands, Releasable, OnApprovalPath, webhookPending
    <3>2. webhook
      BY <3>1, ReadIsBacked DEF StampInv, Copies, Deciding
    <3> QED
      BY <2>4, <3>1, <3>2, DecisionIsFinal
  <2>5. CASE \E u \in Users, l \in Labels, e \in Actions \cup {NoAction} : PatchDecision(u, l, e)
    <3>1. PICK u \in Users, l \in Labels, e \in Actions \cup {NoAction} : PatchDecision(u, l, e)
      BY <2>5
    <3> DEFINE new == [NoAnnotations EXCEPT !.label = l, !.edit = e]
    <3>2. Admits(obj.ann, new, webhookPending) /\ \E a : obj' = [obj EXCEPT !.ann = a, !.rv = @ + 1]
      BY <3>1 DEF PatchDecision
    <3>3. new.by = NoUser
      BY DEF NoAnnotations
    <3> HIDE DEF new
    <3> QED
      BY <1>3, <2>4, <3>2, <3>3 DEF Stands
  <2>6. CASE ClearDecision
    <3>1. Admits(obj.ann, NoAnnotations, webhookPending) /\ \E a : obj' = [obj EXCEPT !.ann = a, !.rv = @ + 1]
      BY <2>6 DEF ClearDecision
    <3>2. NoAnnotations.by = NoUser
      BY DEF NoAnnotations
    <3> QED
      BY <1>3, <2>4, <3>1, <3>2 DEF Stands
  <2>7. CASE \E by \in Users \cup {NoUser}, l \in Labels : AnnotateUnadmitted(by, l)
    <3>1. ~webhook /\ \E a : obj' = [obj EXCEPT !.ann = a, !.rv = @ + 1]
      BY <2>7 DEF AnnotateUnadmitted
    <3>2. NoAnnotations.by = NoUser
      BY DEF NoAnnotations
    <3> QED
      BY <1>3, <2>4, <3>1, <3>2 DEF Stands
  <2> QED
    BY <2>1, <2>2, <2>3, <2>5, <2>6, <2>7 DEF Client
<1>5. /\ \A r \in human' : r.id \in 1 .. Len(log')
      /\ \A q \in Operators, r \in human' :
           pc'[q] = "commit" /\ wl'[q].pending.id # 0 => r.id # wl'[q].pending.id
  BY <1>1 DEF AgreeInv, opVars
<1> QED
  BY <1>2, <1>4, <1>5, AgreeStep

(* Every step keeps the fourth part.                                       *)
LEMMA AgreeNext == TypeInv /\ OnceInv /\ StampInv /\ AgreeInv /\ [Next]_vars => AgreeInv'
<1> SUFFICES ASSUME TypeInv, OnceInv, StampInv, AgreeInv, [Next]_vars PROVE AgreeInv'
  OBVIOUS
<1>1. ASSUME UNCHANGED <<obj, pc, wl, job, log, human>> PROVE AgreeInv'
  <2>1. /\ \A r \in human' : r.id \in 1 .. Len(log')
        /\ \A q \in Operators, r \in human' :
             pc'[q] = "commit" /\ wl'[q].pending.id # 0 => r.id # wl'[q].pending.id
    BY <1>1 DEF AgreeInv
  <2>2. Resolutions' = Resolutions
    BY <1>1 DEF Resolutions
  <2> QED
    BY <1>1, <2>1, <2>2, AgreeStep
<1>2. ASSUME NEW o \in Operators, Crash(o) PROVE AgreeInv'
  <2>1. obj' = obj /\ EndReconcile(o) /\ UNCHANGED <<cache, log, human>>
    BY <1>2 DEF Crash
  <2>2. Others(o) /\ pc'[o] = "idle" /\ LogGrows
    BY <2>1, EndStep DEF LogGrows
  <2> QED
    BY <2>1, <2>2, AgreeQuiet DEF OnHuman
<1>3. ASSUME NEW o \in Operators, Sync(o) PROVE AgreeInv'
  BY <1>1, <1>3 DEF Sync
<1>4. CASE UNCHANGED vars
  BY <1>1, <1>4 DEF vars
<1> QED
  BY <1>2, <1>3, <1>4, ReconcileAgree, ClientAgree DEF Next

-----------------------------------------------------------------------------
(* The theorems.                                                           *)

AuthInv == TypeInv /\ OnceInv /\ StampInv /\ EntitledInv /\ FreezeInv /\ AgreeInv

(* The initial states satisfy the invariant.                               *)
LEMMA AuthInit == Init => AuthInv
<1> SUFFICES ASSUME Init PROVE FreezeInv /\ AgreeInv
  BY TypeInit, OnceInit, StampInit, EntitledInit DEF AuthInv
<1>1. FreezeInv
  BY DEF Init, FreezeInv, ExecutedUnderReviewedPolicy, Executions
<1>2. Resolutions = {}
  BY DEF Init, Resolutions, OnHuman
<1>3. AgreeInv
  BY <1>2 DEF Init, AgreeInv
<1> QED
  BY <1>1, <1>3

(* Every step keeps the invariant.                                         *)
LEMMA AuthNext == AuthInv /\ [Next]_vars => AuthInv'
BY TypeStep, OnceNext, StampNext, EntitledNext, FreezeNext, AgreeNext DEF AuthInv, FreezeAll

(* Write-ahead: whatever the receipts configuration, no action that needs  *)
(* a receipt is executed before its receipt is stored.  A reconcile past   *)
(* its receipt has one: an allow survives a refused append only where      *)
(* receipts are optional, and only a receipt that was not refused lets a   *)
(* human decision through.                                                 *)
THEOREM ReceiptsFirst == Spec => []ReceiptBeforeExecution
<1>1. AuthInv => ReceiptBeforeExecution
  BY EntitledReceipts DEF AuthInv
<1> QED
  BY <1>1, AuthInit, AuthNext, PTL DEF Spec

(* Every execution is authorised, by the stored policy or by the stamped   *)
(* decision of a human who read the action and, with one operator, the     *)
(* policy it runs under.  The argument needs that a copy of the stored     *)
(* version is the stored object (OnceInv), that a MAC that verifies was    *)
(* stamped (StampInv), and that the policy of a held action is frozen.     *)
THEOREM Authorised == Spec => []ExecutionIsAuthorised
<1>1. AuthInv => ExecutionIsAuthorised
  <2> SUFFICES ASSUME AuthInv PROVE ExecutionIsAuthorised
    OBVIOUS
  <2>1. \A i \in Executions : Entitled(execs[i], log, decided, human)
    BY ExecLength DEF AuthInv, TypeInv, EntitledInv, ExecsEntitled, Executions
  <2>2. ExecutedUnderStoredPolicy
    BY <2>1 DEF ExecutedUnderStoredPolicy, Entitled, Allows, Blocks
  <2>3. HumanExecutionWasDecided
    BY <2>1 DEF HumanExecutionWasDecided, Entitled, Backed
  <2>4. DecidedWhatWasRead
    BY DEF AuthInv, StampInv, Deciding
  <2> QED
    BY <2>2, <2>3, <2>4 DEF ExecutionIsAuthorised, AuthInv, FreezeInv, OneOperator
<1> QED
  BY <1>1, AuthInit, AuthNext, PTL DEF Spec

(* The human receipts of one action agree, for any number of operators: a  *)
(* decision that stands on the stored object is final, and an action whose *)
(* decision was lost from it can never be released again.                  *)
THEOREM ReceiptsAgree == Spec => []HumanReceiptsAgree
<1>1. AuthInv => HumanReceiptsAgree
  BY DEF AuthInv, AgreeInv, Resolutions, HumanReceiptsAgree
<1> QED
  BY <1>1, AuthInit, AuthNext, PTL DEF Spec

-----------------------------------------------------------------------------
(* How a held or a rejected workload is left.                              *)

(* An action is pending in phase PendingApproval only.                     *)
Pends(w) == w.pending.id # 0 => w.phase = "PendingApproval"

(* What the copy w of a reconcile at step at may make of x, if x is still  *)
(* the version w was read from: never is x rejected, and a pending action  *)
(* stays until its id is consumed.                                         *)
Leaves(at, w, x) ==
  /\ x.phase # "Rejected"
  /\ x.pending.id # 0 =>
       /\ at \notin {"reserve", "execute"}
       /\ at \in {"receipt", "mark", "run"} => w.pending.id = x.pending.id
       /\ at = "commit" => approvalConsumed(w, x.pending.id)

Based(at, w, x) ==
  at # "idle" =>
    /\ w.rv <= x.rv
    /\ w.rv = x.rv => Leaves(at, w, x)
    /\ at = "commit" => Pends(w)

HeldInv == Pends(obj) /\ \A o \in Operators : Based(pc[o], wl[o], obj)

(* The absent pending action.                                              *)
LEMMA NothingPending == NoPending.id = 0
BY DEF NoPending

(* How a step may leave the object.                                        *)
Resolves ==
  /\ obj.phase = "Rejected" => obj'.phase = "Rejected"
  /\ obj.pending.id # 0 /\ obj'.pending.id # obj.pending.id =>
       approvalConsumed(obj', obj.pending.id)

(* A reconcile that does not step keeps its base or has lost it.           *)
LEMMA BasedMoves ==
  ASSUME obj \in Objects, obj' \in Objects, ObjectMoves, NEW at, NEW w \in Objects, Based(at, w, obj)
  PROVE  Based(at, w, obj')
<1>1. obj.rv \in Nat /\ obj'.rv \in Nat /\ w.rv \in Nat
  BY DEF Objects
<1>2. CASE obj' = obj
  BY <1>2
<1>3. CASE obj'.rv = obj.rv + 1
  <2>1. w.rv <= obj.rv => w.rv <= obj'.rv /\ w.rv # obj'.rv
    BY <1>1, <1>3
  <2> QED
    BY <2>1 DEF Based
<1> QED
  BY <1>2, <1>3 DEF ObjectMoves

(* It is enough to look at the object and the reconcile that steps.        *)
LEMMA HeldStep ==
  ASSUME TypeInv, TypeInv', HeldInv, NEW o \in Operators, Others(o), ObjectMoves,
         Pends(obj'), Based(pc'[o], wl'[o], obj')
  PROVE  HeldInv'
<1>1. obj \in Objects /\ obj' \in Objects /\ \A q \in Operators : wl[q] \in Objects
  BY TypeParts DEF TypeInv, TypeOK
<1>2. ASSUME NEW q \in Operators PROVE Based(pc'[q], wl'[q], obj')
  <2>1. CASE q = o
    BY <2>1
  <2>2. CASE q # o
    <3>1. pc'[q] = pc[q] /\ wl'[q] = wl[q]
      BY <2>2 DEF Others
    <3>2. Based(pc[q], wl[q], obj')
      BY <1>1, BasedMoves DEF HeldInv
    <3> QED
      BY <3>1, <3>2
  <2> QED
    BY <2>1, <2>2
<1> QED
  BY <1>2 DEF HeldInv

(* A step of a client: nobody's reconcile moves, nor does the status.      *)
LEMMA ClientPhase ==
  ASSUME TypeInv, Client, ~RestorePending
  PROVE  obj'.phase = obj.phase
<1>1. obj \in Objects
  BY DEF TypeInv, TypeOK
<1>2. \A u \in Users : ReadPending(u) => obj' = obj
  BY DEF ReadPending
<1>3. \A a, r : [obj EXCEPT !.ann = a, !.rv = r].phase = obj.phase
  BY <1>1 DEF Objects
<1>4. \A p, r : [obj EXCEPT !.policy = p, !.rv = r].phase = obj.phase
  BY <1>1 DEF Objects
<1>5. \A u \in Users, l \in Labels, e \in Actions \cup {NoAction} :
        PatchDecision(u, l, e) => obj'.phase = obj.phase
  BY <1>3 DEF PatchDecision
<1>6. ClearDecision => obj'.phase = obj.phase
  BY <1>3 DEF ClearDecision
<1>7. \A by \in Users \cup {NoUser}, l \in Labels :
        AnnotateUnadmitted(by, l) => obj'.phase = obj.phase
  BY <1>3 DEF AnnotateUnadmitted
<1>8. \A p \in Policies : EditPolicy(p) => obj'.phase = obj.phase
  BY <1>4 DEF EditPolicy
<1> QED
  BY <1>2, <1>5, <1>6, <1>7, <1>8 DEF Client

LEMMA ClientHeld ==
  ASSUME TypeInv, TypeInv', HeldInv, ~Restores, Client
  PROVE  HeldInv' /\ Resolves
<1>1. ~RestorePending
  BY DEF RestorePending
<1>2. /\ ObjectMoves /\ obj'.pending = obj.pending /\ UNCHANGED <<opVars>>
  BY <1>1, ClientEffect DEF ObjectMoves
<1>3. obj'.phase = obj.phase
  BY <1>1, ClientPhase
<1>4. pc' = pc /\ wl' = wl
  BY <1>2 DEF opVars
<1>5. obj \in Objects /\ obj' \in Objects /\ \A q \in Operators : wl[q] \in Objects
  BY TypeParts DEF TypeInv, TypeOK
<1>6. \A q \in Operators : Based(pc[q], wl[q], obj')
  BY <1>2, <1>5, BasedMoves DEF HeldInv
<1>7. Pends(obj')
  BY <1>2, <1>3 DEF HeldInv, Pends
<1>8. HeldInv'
  BY <1>4, <1>6, <1>7 DEF HeldInv
<1> QED
  BY <1>2, <1>3, <1>8 DEF Resolves

(* A reconcile that ends rests on nothing.                                 *)
LEMMA EndHeld ==
  ASSUME TypeInv, TypeInv', HeldInv, NEW o \in Operators, EndReconcile(o), cache' = cache,
         ObjectMoves, Pends(obj')
  PROVE  HeldInv'
<1>1. Others(o) /\ pc'[o] = "idle"
  BY EndStep
<1>2. Based(pc'[o], wl'[o], obj')
  BY <1>1 DEF Based
<1> QED
  BY <1>1, <1>2, HeldStep

(* A write that keeps case and phase, or fails what is not held.           *)
LEMMA KeptHeld ==
  ASSUME ObjectKept, Pends(obj),
         obj' = obj \/ obj'.phase = obj.phase \/ (obj.phase # "Rejected" /\ obj.pending.id = 0)
  PROVE  ObjectMoves /\ Pends(obj') /\ Resolves
<1>1. ObjectMoves /\ (obj' = obj \/ obj'.pending.id = obj.pending.id)
  BY DEF ObjectKept, Kept, SameCase, ObjectMoves
<1> QED
  BY <1>1 DEF Pends, Resolves

(* The phase that holds keep.                                              *)
LEMMA HoldPhase ==
  ASSUME obj \in Objects, NEW w \in Objects, Fresh(w) => w = obj, NEW v \in Objects,
         v.rv = w.rv, v.phase = w.phase, NEW reason \in Holds, holdApproval(v, reason)
  PROVE  obj' = obj \/ obj'.phase = obj.phase
<1>1. /\ [v EXCEPT !.hold = reason] \in Objects /\ Writes([v EXCEPT !.hold = reason])
  BY HoldCases
<1>2. /\ [v EXCEPT !.hold = reason].rv = v.rv /\ [v EXCEPT !.hold = reason].phase = v.phase
  BY DEF Objects
<1> DEFINE new == [v EXCEPT !.hold = reason]
<1>3. new \in Objects /\ Writes(new) /\ new.rv = w.rv /\ new.phase = w.phase
  BY <1>1, <1>2
<1> HIDE DEF new
<1>4. \A r : [new EXCEPT !.rv = r].phase = new.phase
  BY <1>3 DEF Objects
<1> QED
  BY <1>3, <1>4 DEF Writes, Fresh

(* Writes of an idle operator that do not start a reconcile.               *)
LEMMA IdleHeld ==
  ASSUME TypeInv, TypeInv', OnceInv, HeldInv, ~Gates, NEW o \in Operators,
         GateFails(o) \/ ProposeFails(o) \/ HoldReplay(o) \/ HoldUnverified(o)
  PROVE  HeldInv' /\ Resolves
<1>1. obj \in Objects /\ cache[o] \in Objects
  BY TypeParts DEF TypeInv, OperatorType
<1>2. Fresh(cache[o]) => cache[o] = obj
  BY FreshIsObject
<1>3. ~GateFails(o)
  BY DEF GateFails
<1>4. obj' = obj \/ obj'.phase = obj.phase \/ (obj.phase # "Rejected" /\ obj.pending.id = 0)
  <2>1. CASE ProposeFails(o)
    <3>1. CASE Fresh(cache[o])
      BY <1>2, <2>1, <3>1 DEF ProposeFails, OnDirectPath, HeldInv, Pends
    <3>2. CASE ~Fresh(cache[o])
      <4>1. [cache[o] EXCEPT !.phase = "Failed"].rv = cache[o].rv
        BY <1>1 DEF Objects
      <4> QED
        BY <2>1, <3>2, <4>1 DEF ProposeFails, Update, Fresh
    <3> QED
      BY <3>1, <3>2
  <2>2. CASE HoldReplay(o) \/ HoldUnverified(o)
    <3>1. PICK reason \in Holds : holdApproval(cache[o], reason)
      BY <2>2, ReadsType DEF HoldReplay, HoldUnverified, Holds
    <3> QED
      BY <1>1, <1>2, <3>1, HoldPhase
  <2> QED
    BY <1>3, <2>1, <2>2
<1>5. ObjectMoves /\ Pends(obj') /\ Resolves
  BY <1>4, IdleKept, KeptHeld DEF HeldInv
<1>6. pc' = pc /\ wl' = wl /\ job' = job
  BY IdleWrites DEF opVars
<1>7. obj' \in Objects /\ wl[o] \in Objects
  BY TypeParts DEF TypeInv, TypeOK, OperatorType
<1>8. Based(pc'[o], wl'[o], obj')
  BY <1>1, <1>5, <1>6, <1>7, BasedMoves DEF HeldInv
<1> QED
  BY <1>5, <1>6, <1>8, HeldStep DEF Others

(* A proposal is made for a workload with nothing pending.                 *)
LEMMA ProposeHeld ==
  ASSUME TypeInv, TypeInv', OnceInv, HeldInv, NEW o \in Operators, ProposeAndDecide(o)
  PROVE  HeldInv' /\ Resolves
<1>1. obj \in Objects /\ cache[o] \in Objects /\ log \in Seq(Entries)
  BY TypeParts DEF TypeInv, TypeOK, OperatorType, Entries
<1>2. cache[o].rv <= obj.rv /\ (cache[o].rv = obj.rv => cache[o] = obj)
  BY DEF OnceInv, Versions, VersionOf
<1>3. /\ obj' = obj /\ Others(o) /\ pc'[o] \in {"reserve", "commit"}
      /\ pc'[o] = "reserve" => wl'[o] = cache[o]
  BY ProposeType
<1>4. pc'[o] = "commit" => wl'[o].rv = cache[o].rv
  BY ProposeJob
<1>5. pc'[o] = "commit" => Pends(wl'[o])
  BY ProposeJob DEF Pends
<1>6. cache[o].rv = obj.rv => obj.phase # "Rejected" /\ obj.pending.id = 0
  BY <1>2 DEF ProposeAndDecide, OnDirectPath, HeldInv, Pends
<1>7. Based(pc'[o], wl'[o], obj')
  BY <1>2, <1>3, <1>4, <1>5, <1>6 DEF Based, Leaves
<1>8. ObjectMoves /\ Pends(obj') /\ Resolves
  BY <1>3 DEF ObjectMoves, HeldInv, Resolves
<1> QED
  BY <1>3, <1>7, <1>8, HeldStep

(* The direct path of the stored version ends where nothing is pending.    *)
LEMMA ReserveHeld ==
  ASSUME TypeInv, TypeInv', OnceInv, HeldInv, NEW o \in Operators, ReserveExecution(o)
  PROVE  HeldInv' /\ Resolves
<1>1. obj \in Objects /\ wl[o] \in Objects
  BY TypeParts DEF TypeInv, OperatorType
<1>2. /\ pc[o] = "reserve" /\ Writes(wl[o]) /\ Others(o)
      /\ (pc'[o] = "execute" /\ wl'[o] = obj') \/ pc'[o] = "idle"
  BY ReserveEffect, EndStep DEF ReserveExecution
<1>3. obj' = obj \/ (obj.phase # "Rejected" /\ obj.pending.id = 0)
  BY <1>2 DEF Writes, Fresh, HeldInv, Based, Leaves
<1>4. ObjectMoves /\ Pends(obj') /\ Resolves
  BY <1>3, ReserveKept, KeptHeld DEF HeldInv
<1>5. pc'[o] = "execute" => obj.phase # "Rejected" /\ obj.pending.id = 0 /\ obj'.rv \in Nat
  <2>1. pc'[o] = "execute" => Fresh(wl[o])
    BY <1>2 DEF ReserveExecution, EndReconcile, TypeInv, TypeOK
  <2> QED
    BY <1>2, <2>1 DEF Fresh, HeldInv, Based, Leaves, TypeInv, TypeOK, Objects
<1>6. pc'[o] = "execute" => obj'.phase # "Rejected" /\ obj'.pending.id = 0
  BY <1>5, ReserveKept DEF ObjectKept, Kept, SameCase
<1>7. Based(pc'[o], wl'[o], obj')
  BY <1>2, <1>5, <1>6 DEF Based, Leaves
<1> QED
  BY <1>2, <1>4, <1>7, HeldStep

LEMMA ExecuteHeld ==
  ASSUME TypeInv, TypeInv', HeldInv, NEW o \in Operators, ExecuteAllowed(o)
  PROVE  HeldInv' /\ Resolves
<1>1. wl \in [Operators -> Objects]
  BY DEF TypeInv, TypeOK
<1>2. /\ pc[o] = "execute" /\ pc'[o] = "commit" /\ Others(o) /\ obj' = obj
      /\ wl'[o].pending = NoPending
  BY ExecuteEffect
<1>3. wl'[o].rv = wl[o].rv
  BY <1>1 DEF ExecuteAllowed, Objects
<1>4. Pends(wl'[o])
  BY <1>2, NothingPending DEF Pends
<1>5. Based(pc'[o], wl'[o], obj')
  BY <1>2, <1>3, <1>4 DEF HeldInv, Based, Leaves
<1>6. ObjectMoves /\ Pends(obj') /\ Resolves
  BY <1>2 DEF ObjectMoves, HeldInv, Resolves
<1> QED
  BY <1>2, <1>5, <1>6, HeldStep

(* Only the last write of a reconcile gives a pending action up, and it    *)
(* has consumed its id.                                                    *)
LEMMA CommitHeld ==
  ASSUME TypeInv, TypeInv', HeldInv, NEW o \in Operators, Commit(o)
  PROVE  HeldInv' /\ Resolves
<1>1. obj \in Objects /\ wl[o] \in Objects
  BY TypeParts DEF TypeInv, OperatorType
<1>2. pc[o] = "commit" /\ Writes(wl[o]) /\ EndReconcile(o) /\ cache' = cache
  BY CommitEffect
<1>3. ObjectMoves
  BY <1>1, <1>2, WritesMove
<1>4. CASE obj' = obj
  BY <1>2, <1>3, <1>4, EndHeld DEF HeldInv, Resolves
<1>5. CASE obj' # obj
  <2>1. wl[o].rv = obj.rv /\ obj' = [wl[o] EXCEPT !.rv = obj.rv + 1]
    BY <1>2, <1>5 DEF Writes, Fresh
  <2>2. /\ obj'.phase = wl[o].phase /\ obj'.pending = wl[o].pending
        /\ obj'.last = wl[o].last /\ obj'.consumed = wl[o].consumed
    BY <1>1, <2>1 DEF Objects
  <2>3. Leaves("commit", wl[o], obj) /\ Pends(wl[o])
    BY <1>2, <2>1 DEF HeldInv, Based
  <2>4. Pends(obj') /\ Resolves
    BY <2>2, <2>3 DEF Pends, Resolves, Leaves, approvalConsumed
  <2> QED
    BY <1>2, <1>3, <2>4, EndHeld
<1> QED
  BY <1>4, <1>5

(* finishApproval consumes the pending id.                                 *)
LEMMA FinishConsumes ==
  ASSUME NEW w \in Objects, NEW phase \in Phases
  PROVE  /\ approvalConsumed(finishApproval(w, phase), w.pending.id)
         /\ Pends(finishApproval(w, phase)) /\ finishApproval(w, phase).rv = w.rv
<1>1. finishApproval(w, phase).last = w.pending.id
  BY DEF finishApproval, Objects
<1>2. finishApproval(w, phase).pending = NoPending /\ finishApproval(w, phase).rv = w.rv
  BY FinishType
<1> QED
  BY <1>1, <1>2, NothingPending DEF approvalConsumed, Pends

LEMMA UnknownHeld ==
  ASSUME TypeInv, TypeInv', OnceInv, HeldInv, NEW o \in Operators, FinishUnknown(o)
  PROVE  HeldInv' /\ Resolves
<1> DEFINE new == finishApproval(cache[o], "Failed")
<1>1. obj \in Objects /\ cache[o] \in Objects /\ wl[o] \in Objects
  BY TypeParts DEF TypeInv, OperatorType
<1>2. /\ new \in Objects /\ new.rv = cache[o].rv /\ Pends(new)
      /\ approvalConsumed(new, cache[o].pending.id)
  BY <1>1, FinishType, FinishConsumes DEF Phases
<1>3. Touch(new) /\ OnApprovalPath(cache[o]) /\ pc' = pc /\ wl' = wl /\ job' = job
  BY DEF FinishUnknown, opVars
<1> HIDE DEF new
<1>4. Writes(new)
  BY <1>1, <1>2, <1>3, WriteCases
<1>5. ObjectMoves
  BY <1>1, <1>2, <1>4, WritesMove
<1>6. ASSUME obj' = obj PROVE Pends(obj') /\ Resolves
  BY <1>6 DEF HeldInv, Resolves
<1>7. ASSUME obj' # obj PROVE Pends(obj') /\ Resolves
  <2>1. cache[o] = obj /\ obj' = [new EXCEPT !.rv = obj.rv + 1]
    BY <1>2, <1>4, <1>7, FreshIsObject DEF Writes, Fresh
  <2>2. /\ obj'.phase = new.phase /\ obj'.pending = new.pending
        /\ obj'.last = new.last /\ obj'.consumed = new.consumed
    BY <1>2, <2>1 DEF Objects
  <2>3. obj.phase # "Rejected"
    BY <1>3, <2>1 DEF OnApprovalPath
  <2> QED
    BY <1>2, <2>1, <2>2, <2>3 DEF Pends, Resolves, approvalConsumed
<1>8. Pends(obj') /\ Resolves
  BY <1>6, <1>7
<1>9. obj' \in Objects
  BY DEF TypeInv, TypeOK
<1>10. Based(pc'[o], wl'[o], obj')
  BY <1>1, <1>3, <1>5, <1>9, BasedMoves DEF HeldInv
<1> QED
  BY <1>3, <1>5, <1>8, <1>10, HeldStep DEF Others

(* An intent is recorded for what is pending in the stored version.        *)
LEMMA RecordHeld ==
  ASSUME TypeInv, TypeInv', OnceInv, HeldInv, NEW o \in Operators, RecordIntent(o)
  PROVE  HeldInv' /\ Resolves
<1>1. /\ ObjectKept /\ cache[o] = obj /\ obj'.phase = obj.phase
      /\ obj'.pending.id = obj.pending.id
  BY RecordKept DEF SameCase
<1>2. pc'[o] = "receipt" /\ wl'[o] = obj' /\ Others(o) /\ Undecided(cache[o])
  BY RecordEffect
<1>3. ObjectMoves /\ Pends(obj') /\ Resolves
  BY <1>1, KeptHeld DEF HeldInv
<1>4. obj'.phase # "Rejected" /\ obj'.rv \in Nat
  BY <1>1, <1>2 DEF Undecided, OnApprovalPath, TypeInv, TypeOK, Objects
<1>5. Based(pc'[o], wl'[o], obj')
  BY <1>2, <1>4 DEF Based, Leaves
<1> QED
  BY <1>2, <1>3, <1>5, HeldStep

LEMMA HoldReceiptHeld ==
  ASSUME TypeInv, TypeInv', OnceInv, HeldInv, NEW o \in Operators, HoldReceiptFailed(o)
  PROVE  HeldInv' /\ Resolves
<1> DEFINE w == [wl[o] EXCEPT !.pending.state = "", !.pending.decision = ""]
<1>1. obj \in Objects /\ wl[o] \in Objects
  BY TypeParts DEF TypeInv, OperatorType
<1>2. w \in Objects /\ w.rv = wl[o].rv /\ w.phase = wl[o].phase
  BY <1>1 DEF Objects, Pendings, States
<1>3. pc[o] = "receipt" /\ holdApproval(w, "ReceiptFailed") /\ EndReconcile(o) /\ cache' = cache
  BY DEF HoldReceiptFailed
<1> HIDE DEF w
<1>4. Fresh(wl[o]) => wl[o] = obj
  BY <1>3, FreshIsObject
<1>5. "ReceiptFailed" \in Holds
  BY DEF Holds
<1>6. obj' = obj \/ obj'.phase = obj.phase
  BY <1>1, <1>2, <1>3, <1>4, <1>5, HoldPhase
<1>7. ObjectMoves /\ Pends(obj') /\ Resolves
  BY <1>6, HoldReceiptKept, KeptHeld DEF HeldInv
<1> QED
  BY <1>3, <1>7, EndHeld

(* A copy that finishApproval made has consumed what is pending.           *)
LEMMA FinishBased ==
  ASSUME NEW w \in Objects, NEW at \in {"receipt", "mark", "run"}, NEW x, Based(at, w, x),
         NEW phase \in Phases
  PROVE  Based("commit", finishApproval(w, phase), x)
<1>1. /\ approvalConsumed(finishApproval(w, phase), w.pending.id)
      /\ Pends(finishApproval(w, phase)) /\ finishApproval(w, phase).rv = w.rv
  BY FinishConsumes
<1>2. w.rv <= x.rv /\ (w.rv = x.rv => Leaves(at, w, x))
  BY DEF Based
<1>3. Leaves(at, w, x) => x.phase # "Rejected" /\ (x.pending.id # 0 => w.pending.id = x.pending.id)
  BY DEF Leaves
<1> QED
  BY <1>1, <1>2, <1>3 DEF Based, Leaves

(* A step that leaves the object alone.                                    *)
LEMMA QuietHeld ==
  ASSUME TypeInv, TypeInv', HeldInv, obj' = obj, NEW o \in Operators, Others(o),
         Based(pc'[o], wl'[o], obj)
  PROVE  HeldInv' /\ Resolves
<1>1. ObjectMoves /\ Pends(obj') /\ Resolves
  BY DEF ObjectMoves, HeldInv, Resolves
<1> QED
  BY <1>1, HeldStep

LEMMA HumanReceiptHeld ==
  ASSUME TypeInv, TypeInv', HeldInv, NEW o \in Operators, HumanReceipt(o)
  PROVE  HeldInv' /\ Resolves
<1>1. wl[o] \in Objects
  BY TypeParts DEF TypeInv, OperatorType
<1>2. /\ pc[o] = "receipt" /\ Others(o) /\ obj' = obj
      /\ \/ /\ pc'[o] = "commit"
            /\ \E phase \in Phases : wl'[o] = finishApproval(wl[o], phase)
         \/ pc'[o] = "mark" /\ wl'[o] = wl[o]
  BY HumanReceiptEffect
<1>3. Based("receipt", wl[o], obj)
  BY <1>2 DEF HeldInv
<1>4. Based(pc'[o], wl'[o], obj)
  <2>1. CASE pc'[o] = "mark" /\ wl'[o] = wl[o]
    BY <1>3, <2>1 DEF Based, Leaves
  <2>2. CASE pc'[o] = "commit" /\ \E phase \in Phases : wl'[o] = finishApproval(wl[o], phase)
    BY <1>1, <1>3, <2>2, FinishBased
  <2> QED
    BY <1>2, <2>1, <2>2
<1> QED
  BY <1>2, <1>4, QuietHeld

LEMMA MarkHeld ==
  ASSUME TypeInv, TypeInv', OnceInv, HeldInv, NEW o \in Operators, MarkExecuting(o)
  PROVE  HeldInv' /\ Resolves
<1>1. /\ pc[o] = "mark" /\ Others(o) /\ cache' = cache
      /\ pc'[o] = "run" \/ (obj' = obj /\ EndReconcile(o))
  BY MarkEffect
<1>2. CASE pc'[o] = "run"
  <2>1. /\ ObjectKept /\ wl[o] = obj /\ obj'.phase = obj.phase /\ obj'.pending.id = obj.pending.id
        /\ wl'[o] = obj'
    BY <1>2, MarkKept DEF SameCase
  <2>2. ObjectMoves /\ Pends(obj') /\ Resolves
    BY <2>1, KeptHeld DEF HeldInv
  <2>3. obj'.phase # "Rejected" /\ obj'.rv \in Nat
    BY <1>1, <2>1 DEF HeldInv, Based, Leaves, TypeInv, TypeOK, Objects
  <2>4. Based(pc'[o], wl'[o], obj')
    BY <1>2, <2>1, <2>3 DEF Based, Leaves
  <2> QED
    BY <1>1, <2>2, <2>4, HeldStep
<1>3. CASE obj' = obj /\ EndReconcile(o)
  BY <1>1, <1>3, EndHeld DEF HeldInv, ObjectMoves, Resolves
<1> QED
  BY <1>1, <1>2, <1>3

LEMMA RunHeld ==
  ASSUME TypeInv, TypeInv', HeldInv, NEW o \in Operators, RunApproved(o)
  PROVE  HeldInv' /\ Resolves
<1>1. wl[o] \in Objects
  BY TypeParts DEF TypeInv, OperatorType
<1>2. /\ pc[o] = "run" /\ pc'[o] = "commit" /\ Others(o) /\ obj' = obj
      /\ \E phase \in Phases : wl'[o] = finishApproval(wl[o], phase)
  BY RunEffect
<1>3. Based("run", wl[o], obj)
  BY <1>2 DEF HeldInv
<1>4. Based(pc'[o], wl'[o], obj)
  BY <1>1, <1>2, <1>3, FinishBased
<1> QED
  BY <1>2, <1>4, QuietHeld

(* Every step, where no gate fails and no status is restored.              *)
LEMMA HeldNext ==
  ASSUME TypeInv, TypeInv', OnceInv, HeldInv, ~Gates, ~Restores, [Next]_vars
  PROVE  HeldInv' /\ Resolves
<1>1. CASE UNCHANGED vars
  BY <1>1 DEF vars, HeldInv, Resolves
<1>2. CASE Client
  BY <1>2, ClientHeld
<1>3. ASSUME NEW o \in Operators, Reconcile(o) PROVE HeldInv' /\ Resolves
  BY <1>3, IdleHeld, ProposeHeld, ReserveHeld, ExecuteHeld, CommitHeld, UnknownHeld, RecordHeld,
     HoldReceiptHeld, HumanReceiptHeld, MarkHeld, RunHeld DEF Reconcile
<1>4. ASSUME NEW o \in Operators, Sync(o) PROVE HeldInv' /\ Resolves
  <2>1. obj' = obj /\ pc' = pc /\ wl' = wl
    BY <1>4 DEF Sync
  <2> QED
    BY <2>1 DEF HeldInv, Resolves
<1>5. ASSUME NEW o \in Operators, Crash(o) PROVE HeldInv' /\ Resolves
  <2>1. obj' = obj /\ EndReconcile(o) /\ cache' = cache
    BY <1>5 DEF Crash
  <2> QED
    BY <2>1, EndHeld DEF HeldInv, ObjectMoves, Resolves
<1> QED
  BY <1>1, <1>2, <1>3, <1>4, <1>5 DEF Next

LEMMA HeldInit == Init => HeldInv
<1> SUFFICES ASSUME Init PROVE HeldInv
  OBVIOUS
<1>1. PICK p \in Policies : obj = [NoObject EXCEPT !.rv = 1, !.policy = p]
  BY DEF Init
<1>2. obj.pending.id = 0
  BY <1>1 DEF NoObject, NoPending
<1> QED
  BY <1>2 DEF Init, HeldInv, Pends, Based

(* "Rejected is terminal", as long as no gate before the direct path fails *)
(* and nobody writes the status: a reconcile that began before the         *)
(* rejection was stored has lost its version, and one that begins later    *)
(* stops at the phase.  With gates it does not hold.                       *)
THEOREM RejectionFinal == ~Gates /\ ~Restores => (Spec => RejectedIsTerminal)
<1> SUFFICES ASSUME ~Gates, ~Restores PROVE Spec => RejectedIsTerminal
  OBVIOUS
<1>1. TypeInv /\ TypeInv' /\ OnceInv /\ HeldInv /\ [Next]_vars
        => HeldInv' /\ (obj.phase = "Rejected" => obj'.phase = "Rejected")
  BY HeldNext DEF Resolves
<1> QED
  BY <1>1, HeldInit, TypeInit, TypeStep, OnceInit, OnceNext, PTL DEF Spec, RejectedIsTerminal

(* "A held action is resolved by a human decision, not re-proposed", under *)
(* the same conditions: a pending action leaves the status only by its id  *)
(* being consumed, whatever reconciles of older versions still do.         *)
THEOREM HeldStays == ~Gates /\ ~Restores => (Spec => HeldUntilDecided)
<1> SUFFICES ASSUME ~Gates, ~Restores PROVE Spec => HeldUntilDecided
  OBVIOUS
<1>1. TypeInv /\ TypeInv' /\ OnceInv /\ HeldInv /\ [Next]_vars
        => /\ HeldInv'
           /\ (obj.pending.id # 0 /\ obj'.pending.id # obj.pending.id)
                => approvalConsumed(obj', obj.pending.id)
  BY HeldNext DEF Resolves
<1> QED
  BY <1>1, HeldInit, TypeInit, TypeStep, OnceInit, OnceNext, PTL DEF Spec, HeldUntilDecided
=============================================================================
