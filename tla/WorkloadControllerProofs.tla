---------------------- MODULE WorkloadControllerProofs ----------------------
(***************************************************************************)
(* For any number of operators, users, policies and actions, and any       *)
(* bounds: the controller's state is well typed, and the MCP server        *)
(* performs at most one execute_action per decision id.                    *)
(***************************************************************************)
EXTENDS WorkloadController, TLAPS

-----------------------------------------------------------------------------
(* The first invariant: ids name entries of the decision log.              *)

Entries == [action : Actions, policy : Policies, outcome : Outcomes, stored : BOOLEAN]

(* An id under which an action was held for a human, or allowed.           *)
HeldId(id, lg) == id \in 1 .. Len(lg) /\ lg[id].outcome # "allow"
AllowedId(id, lg) == id \in 1 .. Len(lg) /\ lg[id].outcome = "allow"

(* What a copy of the workload names was held for a human.                 *)
KnownIds(w, lg) ==
  /\ w.pending.id # 0 => w.pending.action \in Actions /\ HeldId(w.pending.id, lg)
  /\ \A i \in 1 .. Len(w.consumed) : HeldId(w.consumed[i], lg)

(* What a reconcile under way carries: an allowed decision on the direct   *)
(* path, the decision on its pending action on the approval path.          *)
Carries(o) ==
  /\ pc[o] \in {"reserve", "execute"} =>
       job[o].action \in Actions /\ AllowedId(job[o].id, log)
  /\ pc[o] \in {"receipt", "mark", "run"} =>
       /\ job[o].action \in Actions /\ job[o].label \in Labels
       /\ job[o].id # 0 /\ job[o].id = wl[o].pending.id

Known ==
  /\ KnownIds(obj, log)
  /\ \A o \in Operators : KnownIds(cache[o], log) /\ KnownIds(wl[o], log) /\ Carries(o)

TypeInv == TypeOK /\ Known

-----------------------------------------------------------------------------
(* What the operators return.                                              *)

(* The policy of absent records is a policy.                               *)
LEMMA AnyPolicyType == AnyPolicy \in Policies
BY ControllerAssumption DEF AnyPolicy

(* The absent records are well typed.                                      *)
LEMMA NoRecordTypes ==
  NoPending \in Pendings /\ NoObject \in Objects /\ NoJob \in Jobs /\ NoAnnotations \in Annotations
<1>1. NoPending \in Pendings
  BY AnyPolicyType DEF NoPending, Pendings, States
<1>2. NoAnnotations \in Annotations
  BY DEF NoAnnotations, Annotations, NoMac, Macs
<1>3. NoObject \in Objects
  BY <1>1, <1>2, AnyPolicyType DEF NoObject, Objects, Phases, Holds
<1>4. NoJob \in Jobs
  BY AnyPolicyType DEF NoJob, Jobs
<1> QED
  BY <1>1, <1>2, <1>3, <1>4

(* A write is a no-op or stores the next version of what was sent.         *)
LEMMA StoredCases ==
  ASSUME obj \in Objects, NEW new \in Objects
  PROVE  /\ Stored(new) \in Objects
         /\ \/ Stored(new) = obj /\ [new EXCEPT !.rv = obj.rv] = obj
            \/ Stored(new) = [new EXCEPT !.rv = obj.rv + 1]
<1>1. obj.rv + 1 \in Nat
  BY DEF Objects
<1>2. \A v \in Nat : [new EXCEPT !.rv = v] \in Objects
  BY DEF Objects
<1> QED
  BY <1>1, <1>2 DEF Stored

(* The consumed ids after finishApproval: one more, perhaps some fewer.    *)
LEMMA ConsumeType ==
  ASSUME NEW s \in Seq(Nat), NEW id \in Nat
  PROVE  /\ consume(s, id) \in Seq(Nat)
         /\ \A i \in 1 .. Len(consume(s, id)) :
              consume(s, id)[i] = id \/ \E j \in 1 .. Len(s) : consume(s, id)[i] = s[j]
<1> DEFINE t == Append(s, id)
           k == Len(t) - MaxConsumed
<1>1. /\ t \in Seq(Nat) /\ Len(t) = Len(s) + 1
      /\ \A i \in 1 .. Len(t) : t[i] = id \/ \E j \in 1 .. Len(s) : t[i] = s[j]
  OBVIOUS
<1>2. CASE Len(t) > MaxConsumed
  <2>1. k \in Nat \ {0} /\ k + 1 <= Len(t)
    BY <1>1, <1>2, ControllerAssumption
  <2>2. consume(s, id) = SubSeq(t, k + 1, Len(t))
    BY <1>2 DEF consume
  <2> HIDE DEF t, k
  <2>3. /\ SubSeq(t, k + 1, Len(t)) \in Seq(Nat)
        /\ Len(SubSeq(t, k + 1, Len(t))) = Len(t) - k
        /\ \A i \in 1 .. Len(t) - k : SubSeq(t, k + 1, Len(t))[i] = t[i + k]
    BY <1>1, <2>1
  <2>4. \A i \in 1 .. Len(t) - k : i + k \in 1 .. Len(t)
    BY <1>1, <2>1
  <2> QED
    BY <1>1, <2>2, <2>3, <2>4
<1>3. CASE ~(Len(t) > MaxConsumed)
  BY <1>1, <1>3 DEF consume
<1> QED
  BY <1>2, <1>3

(* finishApproval empties the pending action and consumes its id.          *)
LEMMA FinishType ==
  ASSUME NEW w \in Objects, NEW phase \in Phases
  PROVE  /\ finishApproval(w, phase) \in Objects
         /\ finishApproval(w, phase).rv = w.rv
         /\ finishApproval(w, phase).pending = NoPending
         /\ finishApproval(w, phase).consumed = consume(w.consumed, w.pending.id)
<1>1. consume(w.consumed, w.pending.id) \in Seq(Nat)
  BY ConsumeType DEF Objects, Pendings
<1> HIDE DEF consume
<1> QED
  BY <1>1, NoRecordTypes DEF finishApproval, Objects, Pendings, Holds

(* A decision that does not allow holds the action under its id or nothing. *)
LEMMA NotAllowedType ==
  ASSUME NEW w \in Objects, NEW id \in Nat, NEW a \in Actions, NEW out
  PROVE  /\ notAllowed(w, id, a, out) \in Objects
         /\ notAllowed(w, id, a, out).rv = w.rv
         /\ notAllowed(w, id, a, out).consumed = w.consumed
         /\ \/ notAllowed(w, id, a, out).pending = NoPending
            \/ /\ notAllowed(w, id, a, out).pending.id = id
               /\ notAllowed(w, id, a, out).pending.action = a
BY NoRecordTypes DEF notAllowed, Objects, Pendings, Phases, States

(* The outcome of a decision is an outcome, whatever the findings.         *)
LEMMA DecideOutcome ==
  ASSUME NEW p \in Policies, NEW a \in Actions, NEW ready, NEW escal, NEW app
  PROVE  decideAction(p, a, ready, escal, app).outcome \in Outcomes
BY DEF decideAction, evaluateLayers, Decide, ApplyModel, failClosed, Outcomes

(* A decision that approval.Read accepts has a label and an action to run. *)
LEMMA ReadsOk ==
  ASSUME NEW w \in Objects, Reads(w) = "ok", w.pending.id # 0, w.pending.action \in Actions
  PROVE  w.ann.label \in Labels /\ target(w) \in Actions
BY DEF Reads, Read, validateFields, target, Objects, Annotations

(* Any other answer of approval.Read is a reason to hold.                  *)
LEMMA ReadsType ==
  ASSUME NEW w
  PROVE  Reads(w) \notin {"wait", "ok"} => Reads(w) \in Holds
BY DEF Reads, Read, Holds

(* What the webhook stamps is well typed.                                  *)
LEMMA StampedType ==
  ASSUME NEW old \in Annotations, NEW new \in Annotations, NEW id \in Nat,
         NEW payload \in Actions \cup {NoAction}, NEW u \in Users
  PROVE  Stamped(old, new, id, payload, u) \in Annotations
BY DEF Stamped, Annotations, MAC, Macs

-----------------------------------------------------------------------------
(* Type correctness.                                                       *)

(* Every write of the object: a no-op, or the next version of new, which   *)
(* was computed from the stored version.                                   *)
Writes(new) == obj' = obj \/ (Fresh(new) /\ obj' = [new EXCEPT !.rv = obj.rv + 1])

(* Both kinds of status update are such a write.                           *)
LEMMA WriteCases ==
  ASSUME obj \in Objects, NEW new \in Objects
  PROVE  /\ Update(new) => Writes(new)
         /\ Touch(new) => Writes(new)
BY StoredCases DEF Update, Touch, Writes

(* holdApproval writes a copy that differs in its reason only, or nothing. *)
LEMMA HoldCases ==
  ASSUME obj \in Objects, NEW w \in Objects, NEW reason \in Holds, holdApproval(w, reason)
  PROVE  /\ [w EXCEPT !.hold = reason] \in Objects
         /\ Writes([w EXCEPT !.hold = reason])
<1>1. [w EXCEPT !.hold = reason] \in Objects
  BY DEF Objects
<1> QED
  BY <1>1, WriteCases DEF holdApproval, Writes

(* A write of a well-typed copy stores a well-typed object.                *)
LEMMA WrittenType ==
  ASSUME obj \in Objects, NEW new \in Objects, Writes(new)
  PROVE  obj' \in Objects
<1>1. obj.rv + 1 \in Nat
  BY DEF Objects
<1>2. \A v \in Nat : [new EXCEPT !.rv = v] \in Objects
  BY DEF Objects
<1> QED
  BY <1>1, <1>2 DEF Writes

(* What KnownIds reads, and that a longer log keeps it.                    *)
LEMMA KnownFrame ==
  ASSUME NEW w, NEW v, NEW lg, KnownIds(v, lg), w.consumed = v.consumed,
         w.pending.id = v.pending.id, w.pending.action = v.pending.action
  PROVE  KnownIds(w, lg)
BY DEF KnownIds

(* A longer log keeps what the shorter one named.                          *)
LEMMA LongerLog ==
  ASSUME NEW lg \in Seq(Entries), NEW e \in Entries
  PROVE  /\ Append(lg, e) \in Seq(Entries)
         /\ Len(Append(lg, e)) = Len(lg) + 1
         /\ Append(lg, e)[Len(lg) + 1] = e
         /\ \A id : HeldId(id, lg) => HeldId(id, Append(lg, e))
         /\ \A id : AllowedId(id, lg) => AllowedId(id, Append(lg, e))
         /\ \A w : KnownIds(w, lg) => KnownIds(w, Append(lg, e))
<1>1. /\ Append(lg, e) \in Seq(Entries)
      /\ Len(Append(lg, e)) = Len(lg) + 1
      /\ Append(lg, e)[Len(lg) + 1] = e
      /\ \A i \in 1 .. Len(lg) : i \in 1 .. Len(Append(lg, e)) /\ Append(lg, e)[i] = lg[i]
  OBVIOUS
<1> QED
  BY <1>1 DEF HeldId, AllowedId, KnownIds

(* A write of a copy that names known ids stores one.                      *)
LEMMA KnownWrite ==
  ASSUME NEW new \in Objects, Writes(new), KnownIds(obj, log), KnownIds(new, log), log' = log
  PROVE  KnownIds(obj, log)'
BY DEF Writes, KnownIds, HeldId, Objects

(* finishApproval names nothing new.                                       *)
LEMMA FinishKnown ==
  ASSUME NEW w \in Objects, NEW phase \in Phases, NEW lg, KnownIds(w, lg), w.pending.id # 0
  PROVE  KnownIds(finishApproval(w, phase), lg)
<1>1. w.consumed \in Seq(Nat) /\ w.pending.id \in Nat
  BY DEF Objects, Pendings
<1>2. \A i \in 1 .. Len(consume(w.consumed, w.pending.id)) :
        HeldId(consume(w.consumed, w.pending.id)[i], lg)
  BY <1>1, ConsumeType DEF KnownIds
<1> DEFINE f == finishApproval(w, phase)
<1>3. f.pending.id = 0 /\ f.consumed = consume(w.consumed, w.pending.id)
  <2>1. NoPending.id = 0
    BY DEF NoPending
  <2>2. f.pending = NoPending /\ f.consumed = consume(w.consumed, w.pending.id)
    BY FinishType
  <2> QED
    BY <2>1, <2>2
<1> HIDE DEF f
<1>4. KnownIds(f, lg)
  BY <1>2, <1>3 DEF KnownIds
<1> QED
  BY <1>4 DEF f

(* The parts of the type invariant that one step changes together.         *)
OperatorType ==
  /\ cache \in [Operators -> Objects] /\ pc \in [Operators -> Steps]
  /\ wl \in [Operators -> Objects] /\ job \in [Operators -> Jobs]

ClientType ==
  /\ view \in [Users -> [rv : Nat, id : Nat]]
  /\ decided \subseteq [id : Nat, seen : Nat, label : Labels, edit : Actions \cup {NoAction}]
  /\ webhook \in Webhooks
  /\ edits \in 0 .. MaxEdits

ExecType == execs \in Seq([id : Nat, label : Labels \cup {""}, action : Actions,
                           granted : Policies, policy : Policies])

HumanType == human \subseteq [id : Nat, label : Labels, action : Actions]

(* The type invariant is the conjunction of its parts.                     *)
LEMMA TypeParts ==
  TypeOK <=> /\ obj \in Objects /\ log \in Seq(Entries) /\ faults \in 0 .. MaxFaults
             /\ OperatorType /\ ClientType /\ ExecType /\ HumanType
BY DEF TypeOK, OperatorType, ClientType, ExecType, HumanType, Entries

(* The count of faults stays within its bound.                             *)
LEMMA FaultType ==
  ASSUME faults \in 0 .. MaxFaults
  PROVE  /\ Fault => faults' \in 0 .. MaxFaults
         /\ NoFault => faults' \in 0 .. MaxFaults
         /\ \A res, good : Outcome(res, good) => faults' \in 0 .. MaxFaults
<1>1. Fault => faults' \in 0 .. MaxFaults
  BY ControllerAssumption DEF Fault
<1>2. NoFault => faults' \in 0 .. MaxFaults
  BY DEF NoFault
<1> QED
  BY <1>1, <1>2 DEF Outcome

(* A write of the object by an idle reconcile or by a client.              *)
LEMMA ObjectStep ==
  ASSUME TypeInv, obj' \in Objects, KnownIds(obj, log)', ClientType',
         faults' \in 0 .. MaxFaults, UNCHANGED <<opVars, log, human, execs>>
  PROVE  TypeInv'
<1>1. OperatorType' /\ ExecType' /\ HumanType' /\ log' \in Seq(Entries)
  BY TypeParts DEF TypeInv, OperatorType, ExecType, HumanType, opVars
<1>2. TypeOK'
  BY <1>1 DEF TypeOK, OperatorType, ClientType, ExecType, HumanType, Entries
<1>3. Known'
  BY DEF TypeInv, Known, Carries, opVars
<1> QED
  BY <1>2, <1>3 DEF TypeInv

(* A step of the reconcile of o.                                           *)
Others(o) ==
  \A q \in Operators \ {o} : pc'[q] = pc[q] /\ wl'[q] = wl[q] /\ job'[q] = job[q]

LogGrows == log' = log \/ \E e \in Entries : log' = Append(log, e)

(* A step keeps every id of the log.                                       *)
LEMMA KeptIds ==
  ASSUME log \in Seq(Entries), LogGrows
  PROVE  /\ log' \in Seq(Entries)
         /\ \A w : KnownIds(w, log) => KnownIds(w, log')
         /\ \A id : HeldId(id, log) => HeldId(id, log')
         /\ \A id : AllowedId(id, log) => AllowedId(id, log')
         /\ Len(log) \in Nat /\ Len(log') \in Nat /\ Len(log) <= Len(log')
<1>1. CASE log' = log
  BY <1>1
<1>2. CASE \E e \in Entries : log' = Append(log, e)
  <2>1. PICK e \in Entries : log' = Append(log, e)
    BY <1>2
  <2>2. /\ log' \in Seq(Entries) /\ Len(log') = Len(log) + 1
        /\ \A w : KnownIds(w, log) => KnownIds(w, log')
        /\ \A id : HeldId(id, log) => HeldId(id, log')
        /\ \A id : AllowedId(id, log) => AllowedId(id, log')
    BY <2>1, LongerLog
  <2> QED
    BY <2>2
<1> QED
  BY <1>1, <1>2 DEF LogGrows

(* A step of o keeps the invariant when what it leaves at o is well typed. *)
LEMMA OperatorStep ==
  ASSUME TypeInv, NEW o \in Operators, LogGrows, OperatorType', Others(o), cache' = cache,
         obj' \in Objects, KnownIds(obj', log'), KnownIds(wl'[o], log'), Carries(o)',
         UNCHANGED clientVars, ExecType', HumanType', faults' \in 0 .. MaxFaults
  PROVE  TypeInv'
<1>1. ClientType'
  BY TypeParts DEF TypeInv, ClientType, clientVars
<1>2. TypeOK'
  BY <1>1, KeptIds, TypeParts DEF TypeInv, TypeOK, OperatorType, ClientType, ExecType, HumanType, Entries
<1>3. \A q \in Operators : KnownIds(cache'[q], log')
  BY KeptIds, TypeParts DEF TypeInv, Known
<1>4. ASSUME NEW q \in Operators \ {o} PROVE KnownIds(wl'[q], log') /\ Carries(q)'
  <2>1. KnownIds(wl'[q], log')
    BY KeptIds, TypeParts DEF TypeInv, Known, Others
  <2>2. Carries(q)
    BY DEF TypeInv, Known
  <2>3. Carries(q)'
    BY <2>2, KeptIds, TypeParts DEF TypeInv, Others, Carries
  <2> QED
    BY <2>1, <2>3
<1>5. Known'
  BY <1>3, <1>4 DEF Known
<1> QED
  BY <1>2, <1>5 DEF TypeInv

(* EndReconcile forgets what the reconcile of o held.                      *)
LEMMA EndStep ==
  ASSUME TypeInv, NEW o \in Operators, EndReconcile(o), cache' = cache
  PROVE  /\ OperatorType' /\ Others(o) /\ KnownIds(wl'[o], log') /\ Carries(o)'
         /\ pc'[o] = "idle" /\ job'[o] = NoJob /\ wl'[o] = NoObject
<1>1. OperatorType
  BY TypeParts DEF TypeInv
<1>2. pc'[o] = "idle" /\ job'[o] = NoJob /\ wl'[o] = NoObject
  BY <1>1 DEF OperatorType, EndReconcile
<1>3. OperatorType'
  BY <1>1, NoRecordTypes DEF OperatorType, EndReconcile, Steps
<1>4. Others(o)
  BY <1>1 DEF OperatorType, EndReconcile, Others
<1>5. KnownIds(NoObject, log')
  <2>1. NoObject.pending = NoPending /\ NoObject.consumed = <<>>
    BY DEF NoObject
  <2>2. NoPending.id = 0
    BY DEF NoPending
  <2> QED
    BY <2>1, <2>2 DEF KnownIds
<1> QED
  BY <1>2, <1>3, <1>4, <1>5 DEF Carries

(* A step of the reconcile of o that moves on: to a new position, object   *)
(* and job.                                                                *)
LEMMA MoveStep ==
  ASSUME TypeInv, NEW o \in Operators, NEW step \in Steps, NEW w \in Objects, NEW j \in Jobs,
         pc' = [pc EXCEPT ![o] = step], wl' = [wl EXCEPT ![o] = w],
         job' = [job EXCEPT ![o] = j], cache' = cache
  PROVE  /\ OperatorType' /\ Others(o)
         /\ pc'[o] = step /\ wl'[o] = w /\ job'[o] = j
<1>1. OperatorType
  BY TypeParts DEF TypeInv
<1> QED
  BY <1>1 DEF OperatorType, Others

(* An idle reconcile that only writes the object, computed from its cache. *)
LEMMA IdleWriteType ==
  ASSUME TypeInv, NEW new \in Objects, KnownIds(new, log), Writes(new),
         UNCHANGED <<opVars, log, human, execs, clientVars, faults>>
  PROVE  TypeInv'
<1>1. obj' \in Objects /\ KnownIds(obj, log)'
  BY WrittenType, KnownWrite, TypeParts DEF TypeInv, Known
<1>2. ClientType' /\ faults' \in 0 .. MaxFaults
  BY TypeParts DEF TypeInv, ClientType, clientVars
<1> QED
  BY <1>1, <1>2, ObjectStep

(* What the idle reconciles write.                                         *)
LEMMA IdleWrites ==
  ASSUME TypeInv, NEW o \in Operators,
         GateFails(o) \/ ProposeFails(o) \/ HoldReplay(o) \/ HoldUnverified(o)
  PROVE  /\ UNCHANGED <<opVars, log, human, execs, clientVars, faults>>
         /\ \E new \in Objects : /\ Writes(new)
                                 /\ new.rv = cache[o].rv /\ new.pending = cache[o].pending
                                 /\ new.last = cache[o].last /\ new.consumed = cache[o].consumed
<1>1. obj \in Objects /\ cache[o] \in Objects
  BY TypeParts DEF TypeInv, OperatorType
<1>2. CASE GateFails(o) \/ ProposeFails(o)
  <2> DEFINE new == [cache[o] EXCEPT !.phase = "Failed"]
  <2>1. /\ new \in Objects /\ new.rv = cache[o].rv /\ new.pending = cache[o].pending
        /\ new.last = cache[o].last /\ new.consumed = cache[o].consumed
    BY <1>1 DEF Objects, Phases
  <2>2. Writes(new)
    BY <1>1, <1>2, <2>1, WriteCases DEF GateFails, ProposeFails
  <2> QED
    BY <1>2, <2>1, <2>2 DEF GateFails, ProposeFails
<1>3. CASE HoldReplay(o) \/ HoldUnverified(o)
  <2>1. PICK reason \in Holds : holdApproval(cache[o], reason)
    BY <1>3, ReadsType DEF HoldReplay, HoldUnverified, Holds
  <2> DEFINE new == [cache[o] EXCEPT !.hold = reason]
  <2>2. new \in Objects /\ Writes(new)
    BY <1>1, <2>1, HoldCases
  <2>3. /\ new.rv = cache[o].rv /\ new.pending = cache[o].pending
        /\ new.last = cache[o].last /\ new.consumed = cache[o].consumed
    BY <1>1 DEF Objects
  <2> QED
    BY <1>3, <2>2, <2>3 DEF HoldReplay, HoldUnverified
<1> QED
  BY <1>2, <1>3

(* Failed gates and proposals, and holds, keep the type invariant.         *)
LEMMA IdleType ==
  ASSUME TypeInv, NEW o \in Operators,
         GateFails(o) \/ ProposeFails(o) \/ HoldReplay(o) \/ HoldUnverified(o)
  PROVE  TypeInv'
<1>1. PICK new \in Objects : /\ Writes(new) /\ new.pending = cache[o].pending
                             /\ new.consumed = cache[o].consumed
  BY IdleWrites
<1>2. KnownIds(new, log)
  BY <1>1 DEF TypeInv, Known, KnownIds
<1> QED
  BY <1>1, <1>2, IdleWrites, IdleWriteType

(* FinishUnknown keeps the type invariant.                                 *)
LEMMA FinishUnknownType ==
  ASSUME TypeInv, NEW o \in Operators, FinishUnknown(o)
  PROVE  TypeInv' /\ Writes(finishApproval(cache[o], "Failed"))
<1>1. obj \in Objects /\ cache[o] \in Objects /\ KnownIds(cache[o], log) /\ "Failed" \in Phases
  BY TypeParts DEF TypeInv, OperatorType, Known, Phases
<1> DEFINE new == finishApproval(cache[o], "Failed")
<1>2. new \in Objects /\ KnownIds(new, log)
  BY <1>1, FinishType, FinishKnown DEF FinishUnknown, OnApprovalPath
<1>3. Touch(new) /\ UNCHANGED <<opVars, log, human, execs, clientVars, faults>>
  BY DEF FinishUnknown
<1> HIDE DEF new
<1>4. Writes(new)
  BY <1>1, <1>2, <1>3, WriteCases
<1>5. TypeInv'
  BY <1>2, <1>3, <1>4, IdleWriteType
<1> QED
  BY <1>4, <1>5 DEF new

(* ProposeAndDecide: the id is new, and names an allow or a held action.   *)
LEMMA ProposeType ==
  ASSUME TypeInv, NEW o \in Operators, ProposeAndDecide(o)
  PROVE  /\ TypeInv' /\ pc[o] = "idle" /\ OperatorType' /\ Others(o)
         /\ LogGrows /\ Len(log') = Len(log) + 1
         /\ UNCHANGED <<obj, cache, human, execs, clientVars>>
         /\ \/ pc'[o] = "reserve" /\ wl'[o] = cache[o] /\ job'[o].id = Len(log) + 1
            \/ /\ pc'[o] = "commit" /\ job'[o] = NoJob /\ wl'[o].consumed = cache[o].consumed
               /\ wl'[o].pending = NoPending \/ wl'[o].pending.id = Len(log) + 1
<1>1. PICK a \in Actions, ready \in Readiness, escal \in BOOLEAN, app \in Appends :
        LET w == cache[o]
            id == Len(log) + 1
            r == decideAction(w.policy, a, ready, escal, app)
        IN  /\ Outcome(<<ready, app>>, <<TRUE, Good>>)
            /\ log' = Append(log, [action |-> a, policy |-> w.policy, outcome |-> r.outcome,
                                   stored |-> app \in {"ok", "lost"}])
            /\ IF r.outcome = "allow"
               THEN /\ pc' = [pc EXCEPT ![o] = "reserve"]
                    /\ wl' = [wl EXCEPT ![o] = w]
                    /\ job' = [job EXCEPT ![o] = [id |-> id, action |-> a, label |-> "",
                                                  blocked |-> FALSE, receipted |-> app = "ok",
                                                  granted |-> w.policy]]
               ELSE /\ pc' = [pc EXCEPT ![o] = "commit"]
                    /\ wl' = [wl EXCEPT ![o] = notAllowed(w, id, a, r.outcome)]
                    /\ job' = [job EXCEPT ![o] = NoJob]
  BY DEF ProposeAndDecide
<1> DEFINE w == cache[o]
           id == Len(log) + 1
           out == decideAction(w.policy, a, ready, escal, app).outcome
           e == [action |-> a, policy |-> w.policy, outcome |-> out, stored |-> app \in {"ok", "lost"}]
           j == [id |-> id, action |-> a, label |-> "", blocked |-> FALSE,
                 receipted |-> app = "ok", granted |-> w.policy]
           x == notAllowed(w, id, a, out)
<1>2. /\ obj \in Objects /\ w \in Objects /\ w.policy \in Policies /\ log \in Seq(Entries)
      /\ KnownIds(w, log) /\ id \in Nat \ {0} /\ KnownIds(obj, log)
  BY TypeParts DEF TypeInv, Known, OperatorType, Objects
<1>3. out \in Outcomes
  BY <1>2, DecideOutcome
<1>4. e \in Entries
  BY <1>2, <1>3 DEF Entries
<1>5. /\ UNCHANGED <<obj, cache, human, execs, clientVars>> /\ faults' \in 0 .. MaxFaults
      /\ log' = Append(log, e)
  BY <1>1, FaultType, TypeParts DEF TypeInv, ProposeAndDecide
<1>6. LogGrows
  BY <1>4, <1>5 DEF LogGrows
<1>7. log'[id].outcome = out /\ id \in 1 .. Len(log')
  BY <1>2, <1>4, <1>5, LongerLog
<1>8. ExecType' /\ HumanType' /\ obj' \in Objects /\ KnownIds(obj', log') /\ KnownIds(w, log')
  BY <1>2, <1>5, <1>6, KeptIds, TypeParts DEF TypeInv, ExecType, HumanType
<1>9. /\ OperatorType' /\ Others(o) /\ KnownIds(wl'[o], log') /\ Carries(o)'
      /\ \/ pc'[o] = "reserve" /\ wl'[o] = w /\ job'[o].id = id
         \/ /\ pc'[o] = "commit" /\ job'[o] = NoJob /\ wl'[o].consumed = w.consumed
            /\ wl'[o].pending = NoPending \/ wl'[o].pending.id = id
  <2>1. CASE out = "allow"
    <3>1. j \in Jobs
      BY <1>2 DEF Jobs
    <3>2. /\ pc' = [pc EXCEPT ![o] = "reserve"] /\ wl' = [wl EXCEPT ![o] = w]
          /\ job' = [job EXCEPT ![o] = j] /\ cache' = cache
      BY <1>1, <1>5, <2>1
    <3>3. AllowedId(j.id, log') /\ j.action \in Actions /\ j.id = id
      BY <1>7, <2>1 DEF AllowedId
    <3> HIDE DEF j, w
    <3>4. /\ OperatorType' /\ Others(o)
          /\ pc'[o] = "reserve" /\ wl'[o] = w /\ job'[o] = j
      BY <1>2, <3>1, <3>2, MoveStep DEF Steps
    <3> QED
      BY <1>8, <3>3, <3>4 DEF Carries
  <2>2. CASE out # "allow"
    <3>1. /\ x \in Objects /\ KnownIds(x, log') /\ x.consumed = w.consumed
          /\ x.pending = NoPending \/ x.pending.id = id
      <4>1. /\ x \in Objects /\ x.consumed = w.consumed
            /\ x.pending = NoPending \/ (x.pending.id = id /\ x.pending.action = a)
        BY <1>2, NotAllowedType
      <4>2. HeldId(id, log') /\ NoPending.id = 0
        BY <1>7, <2>2 DEF HeldId, NoPending
      <4>3. \A i \in 1 .. Len(x.consumed) : HeldId(x.consumed[i], log')
        BY <1>8, <4>1 DEF KnownIds
      <4>4. x.pending.id # 0 => x.pending.action \in Actions /\ HeldId(x.pending.id, log')
        BY <4>1, <4>2
      <4> HIDE DEF x
      <4> QED
        BY <4>1, <4>3, <4>4 DEF KnownIds
    <3>2. /\ pc' = [pc EXCEPT ![o] = "commit"] /\ wl' = [wl EXCEPT ![o] = x]
          /\ job' = [job EXCEPT ![o] = NoJob] /\ cache' = cache
      BY <1>1, <1>5, <2>2
    <3>3. /\ OperatorType' /\ Others(o)
          /\ pc'[o] = "commit" /\ wl'[o] = x /\ job'[o] = NoJob
      BY <3>1, <3>2, MoveStep, NoRecordTypes DEF Steps
    <3> QED
      BY <3>1, <3>3 DEF Carries
  <2> QED
    BY <2>1, <2>2
<1>10. TypeInv'
  BY <1>5, <1>6, <1>8, <1>9, OperatorStep
<1>11. Len(log') = Len(log) + 1 /\ pc[o] = "idle"
  BY <1>2, <1>4, <1>5, LongerLog DEF ProposeAndDecide
<1> QED
  BY <1>5, <1>6, <1>9, <1>10, <1>11

(* ReserveExecution goes on with the stored version, or ends.              *)
LEMMA ReserveEffect ==
  ASSUME TypeInv, NEW o \in Operators, ReserveExecution(o)
  PROVE  /\ pc[o] = "reserve" /\ Writes(wl[o]) /\ OperatorType' /\ Others(o)
         /\ UNCHANGED <<cache, log, human, execs, clientVars, faults>>
         /\ \/ /\ pc'[o] = "execute" /\ wl'[o] = obj' /\ obj' \in Objects
               /\ job'[o].id = job[o].id /\ job'[o].action = job[o].action
            \/ obj' = obj /\ EndReconcile(o)
<1>1. /\ obj \in Objects /\ wl[o] \in Objects /\ job[o] \in Jobs /\ OperatorType /\ obj.policy \in Policies
  BY TypeParts DEF TypeInv, OperatorType, Objects
<1>2. CASE Fresh(wl[o])
  <2>1. Writes(wl[o])
    BY <1>2 DEF ReserveExecution, Writes
  <2>2. obj' \in Objects
    BY <1>1, <2>1, WrittenType
  <2> DEFINE j == [job[o] EXCEPT !.granted = obj.policy]
  <2>3. j \in Jobs /\ j.id = job[o].id /\ j.action = job[o].action
    BY <1>1 DEF Jobs
  <2>4. /\ pc' = [pc EXCEPT ![o] = "execute"] /\ wl' = [wl EXCEPT ![o] = obj']
        /\ job' = [job EXCEPT ![o] = j] /\ cache' = cache
    BY <1>1, <1>2 DEF ReserveExecution
  <2> HIDE DEF j
  <2>5. /\ OperatorType' /\ Others(o)
        /\ pc'[o] = "execute" /\ wl'[o] = obj' /\ job'[o] = j
    BY <2>2, <2>3, <2>4, MoveStep DEF Steps
  <2> QED
    BY <2>1, <2>2, <2>3, <2>5 DEF ReserveExecution
<1>3. CASE ~Fresh(wl[o])
  <2>1. obj' = obj /\ EndReconcile(o) /\ cache' = cache
    BY <1>3 DEF ReserveExecution
  <2> QED
    BY <2>1, EndStep DEF ReserveExecution, Writes
<1> QED
  BY <1>2, <1>3

(* ReserveExecution keeps the type invariant.                              *)
LEMMA ReserveType ==
  ASSUME TypeInv, NEW o \in Operators, ReserveExecution(o)
  PROVE  TypeInv'
<1>1. /\ obj \in Objects /\ wl[o] \in Objects /\ KnownIds(obj, log) /\ KnownIds(wl[o], log)
      /\ Carries(o) /\ faults \in 0 .. MaxFaults /\ ExecType /\ HumanType
  BY TypeParts DEF TypeInv, OperatorType, Known
<1>2. /\ Writes(wl[o]) /\ UNCHANGED <<cache, log, human, execs, clientVars, faults>>
      /\ OperatorType' /\ Others(o) /\ pc[o] = "reserve"
  BY ReserveEffect
<1>3. obj' \in Objects /\ KnownIds(obj', log')
  BY <1>1, <1>2, WrittenType, KnownWrite
<1>4. KnownIds(wl'[o], log') /\ Carries(o)'
  <2>1. CASE EndReconcile(o)
    BY <1>2, <2>1, EndStep
  <2>2. CASE /\ pc'[o] = "execute" /\ wl'[o] = obj'
             /\ job'[o].id = job[o].id /\ job'[o].action = job[o].action
    BY <1>1, <1>2, <1>3, <2>2 DEF Carries
  <2> QED
    BY <2>1, <2>2, ReserveEffect
<1>5. LogGrows /\ ExecType' /\ HumanType' /\ faults' \in 0 .. MaxFaults
  BY <1>1, <1>2 DEF LogGrows, ExecType, HumanType
<1> QED
  BY <1>2, <1>3, <1>4, <1>5, OperatorStep

(* The call of either path: at most one execution is added, of the job.    *)
LEMMA RanEffect ==
  ASSUME TypeInv, NEW o \in Operators, NEW res, Ran(o, res), job[o].action \in Actions
  PROVE  /\ ExecType'
         /\ \/ execs' = execs
            \/ /\ Len(execs') = Len(execs) + 1
               /\ \A i \in 1 .. Len(execs) : execs'[i].id = execs[i].id
               /\ execs'[Len(execs) + 1].id = job[o].id
<1> DEFINE e == [id |-> job[o].id, label |-> job[o].label, action |-> job[o].action,
                 granted |-> job[o].granted, policy |-> obj.policy]
           E == [id : Nat, label : Labels \cup {""}, action : Actions,
                 granted : Policies, policy : Policies]
<1>1. obj \in Objects /\ job[o] \in Jobs /\ execs \in Seq(E)
  BY TypeParts DEF TypeInv, OperatorType, ExecType
<1>2. e \in E
  BY <1>1 DEF Objects, Jobs
<1>3. execs' = execs \/ execs' = Append(execs, e)
  BY DEF Ran
<1>4. e.id = job[o].id
  OBVIOUS
<1> HIDE DEF e, E
<1>5. execs' \in Seq(E)
  BY <1>1, <1>2, <1>3
<1>6. ExecType'
  BY <1>5 DEF ExecType, E
<1>7. CASE execs' = Append(execs, e)
  BY <1>1, <1>2, <1>4, <1>6, <1>7
<1> QED
  BY <1>3, <1>6, <1>7

(* ExecuteAllowed makes the call and clears the pending action.            *)
LEMMA ExecuteEffect ==
  ASSUME TypeInv, NEW o \in Operators, ExecuteAllowed(o)
  PROVE  /\ pc[o] = "execute" /\ pc'[o] = "commit" /\ job'[o] = NoJob
         /\ OperatorType' /\ Others(o) /\ UNCHANGED <<obj, cache, log, human, clientVars>>
         /\ faults' \in 0 .. MaxFaults
         /\ wl'[o].pending = NoPending /\ wl'[o].consumed = wl[o].consumed
         /\ \E res \in Calls : Ran(o, res)
<1>1. PICK res \in Calls :
        /\ Outcome(res, "ok") /\ Ran(o, res)
        /\ wl' = [wl EXCEPT ![o].phase = IF res = "ok" THEN "Completed" ELSE "Failed",
                            ![o].pending = NoPending]
  BY DEF ExecuteAllowed
<1> DEFINE w == [wl[o] EXCEPT !.phase = IF res = "ok" THEN "Completed" ELSE "Failed",
                              !.pending = NoPending]
<1>2. wl[o] \in Objects /\ OperatorType /\ faults \in 0 .. MaxFaults
  BY TypeParts DEF TypeInv, OperatorType
<1>3. w \in Objects /\ w.pending = NoPending /\ w.consumed = wl[o].consumed
  BY <1>2, NoRecordTypes DEF Objects, Phases
<1>4. wl' = [wl EXCEPT ![o] = w]
  BY <1>1, <1>2 DEF OperatorType
<1>5. /\ pc[o] = "execute" /\ pc' = [pc EXCEPT ![o] = "commit"]
      /\ job' = [job EXCEPT ![o] = NoJob] /\ UNCHANGED <<obj, cache, log, human, clientVars>>
  BY DEF ExecuteAllowed
<1> HIDE DEF w
<1>6. OperatorType' /\ Others(o) /\ pc'[o] = "commit" /\ wl'[o] = w /\ job'[o] = NoJob
  BY <1>3, <1>4, <1>5, MoveStep, NoRecordTypes DEF Steps
<1>7. faults' \in 0 .. MaxFaults
  BY <1>1, <1>2, FaultType
<1> QED
  BY <1>1, <1>3, <1>5, <1>6, <1>7

(* A copy with no pending action and the consumed ids of another one.      *)
LEMMA ClearedKnown ==
  ASSUME NEW w, NEW v, NEW lg, KnownIds(v, lg), w.pending = NoPending, w.consumed = v.consumed
  PROVE  KnownIds(w, lg)
<1>1. NoPending.id = 0
  BY DEF NoPending
<1> QED
  BY <1>1 DEF KnownIds

(* ExecuteAllowed keeps the type invariant.                                *)
LEMMA ExecuteType ==
  ASSUME TypeInv, NEW o \in Operators, ExecuteAllowed(o)
  PROVE  TypeInv'
<1>1. /\ obj \in Objects /\ KnownIds(obj, log) /\ KnownIds(wl[o], log) /\ Carries(o) /\ HumanType
  BY TypeParts DEF TypeInv, Known
<1>2. /\ pc'[o] = "commit" /\ pc[o] = "execute" /\ OperatorType' /\ Others(o)
      /\ UNCHANGED <<obj, cache, log, human, clientVars>> /\ faults' \in 0 .. MaxFaults
      /\ wl'[o].pending = NoPending /\ wl'[o].consumed = wl[o].consumed
  BY ExecuteEffect
<1>3. KnownIds(wl'[o], log')
  BY <1>1, <1>2, ClearedKnown
<1>4. ExecType'
  BY <1>1, <1>2, ExecuteEffect, RanEffect DEF Carries
<1>5. Carries(o)' /\ LogGrows /\ HumanType' /\ obj' \in Objects /\ KnownIds(obj', log')
  BY <1>1, <1>2 DEF Carries, LogGrows, HumanType
<1> QED
  BY <1>2, <1>3, <1>4, <1>5, OperatorStep

(* Commit writes what the reconcile worked on, and ends it.                *)
LEMMA CommitEffect ==
  ASSUME TypeInv, NEW o \in Operators, Commit(o)
  PROVE  /\ pc[o] = "commit" /\ Writes(wl[o]) /\ EndReconcile(o)
         /\ UNCHANGED <<cache, log, human, execs, clientVars, faults>>
<1>1. obj \in Objects /\ wl[o] \in Objects
  BY TypeParts DEF TypeInv, OperatorType
<1> QED
  BY <1>1, WriteCases DEF Commit

(* A step that ends the reconcile of o with a write of new.                *)
LEMMA EndType ==
  ASSUME TypeInv, NEW o \in Operators, NEW new \in Objects, KnownIds(new, log), Writes(new),
         EndReconcile(o), UNCHANGED <<cache, log, execs, clientVars>>, HumanType',
         faults' \in 0 .. MaxFaults
  PROVE  TypeInv'
<1>1. obj' \in Objects /\ KnownIds(obj', log')
  BY WrittenType, KnownWrite, TypeParts DEF TypeInv, Known
<1>2. LogGrows /\ ExecType'
  BY TypeParts DEF TypeInv, LogGrows, ExecType
<1>3. OperatorType' /\ Others(o) /\ KnownIds(wl'[o], log') /\ Carries(o)'
  BY EndStep
<1> QED
  BY <1>1, <1>2, <1>3, OperatorStep

(* Commit keeps the type invariant.                                        *)
LEMMA CommitType ==
  ASSUME TypeInv, NEW o \in Operators, Commit(o)
  PROVE  TypeInv'
<1>1. /\ wl[o] \in Objects /\ KnownIds(wl[o], log) /\ HumanType /\ faults \in 0 .. MaxFaults
  BY TypeParts DEF TypeInv, Known, OperatorType
<1>2. HumanType' /\ faults' \in 0 .. MaxFaults
  BY <1>1, CommitEffect DEF HumanType
<1> QED
  BY <1>1, <1>2, CommitEffect, EndType

(* RecordIntent acts on the stored version, which it leaves Recording.     *)
LEMMA RecordEffect ==
  ASSUME TypeInv, NEW o \in Operators, RecordIntent(o)
  PROVE  /\ pc[o] = "idle" /\ Undecided(cache[o]) /\ Fresh(cache[o])
         /\ pc'[o] = "receipt" /\ wl'[o] = obj' /\ OperatorType' /\ Others(o)
         /\ UNCHANGED <<cache, log, human, execs, clientVars>> /\ faults' \in 0 .. MaxFaults
         /\ job'[o].id = cache[o].pending.id
         /\ job'[o].action \in Actions /\ job'[o].label \in Labels
         /\ \E new \in Objects :
              /\ Writes(new) /\ new.rv = cache[o].rv
              /\ new.pending.id = cache[o].pending.id /\ new.pending.action = cache[o].pending.action
              /\ new.last = cache[o].last /\ new.consumed = cache[o].consumed
              /\ obj'.pending = new.pending /\ new.pending.state = "Recording"
              /\ obj'.last = new.last /\ obj'.consumed = new.consumed
<1> DEFINE w == cache[o]
           label == w.ann.label
           new == [w EXCEPT !.pending.state = "Recording", !.pending.decision = label]
           J(ready) == [id |-> w.pending.id, action |-> target(w), label |-> label,
                 blocked |-> label # "reject" /\ humanBlocked(evaluateLayers(w.policy, target(w), ready)),
                 receipted |-> FALSE, granted |-> w.policy]
<1>1. PICK ready \in Readiness :
        /\ Outcome(ready, TRUE)
        /\ Fresh(w)
        /\ obj' = Stored(new)
        /\ pc' = [pc EXCEPT ![o] = "receipt"]
        /\ wl' = [wl EXCEPT ![o] = obj']
        /\ job' = [job EXCEPT ![o] = J(ready)]
  BY DEF RecordIntent
<1>2. /\ obj \in Objects /\ w \in Objects /\ KnownIds(w, log) /\ faults \in 0 .. MaxFaults
  BY TypeParts DEF TypeInv, OperatorType, Known
<1>3. /\ pc[o] = "idle" /\ Undecided(w) /\ Reads(w) = "ok"
      /\ UNCHANGED <<cache, log, human, execs, clientVars>>
  BY DEF RecordIntent
<1>4. w.pending.id # 0 /\ w.pending.action \in Actions
  BY <1>2, <1>3 DEF Undecided, OnApprovalPath, KnownIds
<1>5. label \in Labels /\ target(w) \in Actions
  BY <1>2, <1>3, <1>4, ReadsOk
<1>6. J(ready) \in Jobs /\ J(ready).id = w.pending.id /\ J(ready).action = target(w) /\ J(ready).label = label
  <2>1. (label # "reject" /\ humanBlocked(evaluateLayers(w.policy, target(w), ready))) \in BOOLEAN
    OBVIOUS
  <2>2. w.pending.id \in Nat /\ w.policy \in Policies
    BY <1>2 DEF Objects, Pendings
  <2> QED
    BY <1>5, <2>1, <2>2 DEF Jobs
<1>7. /\ new \in Objects /\ new.rv = w.rv
      /\ new.pending.id = w.pending.id /\ new.pending.action = w.pending.action
      /\ new.last = w.last /\ new.consumed = w.consumed
      /\ new.pending.state = "Recording"
  BY <1>2, <1>5 DEF Objects, Pendings, States, Labels
<1> DEFINE j == J(ready)
<1> HIDE DEF new, J, j
<1>8. /\ obj' \in Objects
      /\ \/ obj' = obj /\ [new EXCEPT !.rv = obj.rv] = obj
         \/ obj' = [new EXCEPT !.rv = obj.rv + 1]
  BY <1>1, <1>2, <1>7, StoredCases
<1>9. Writes(new)
  BY <1>1, <1>7, <1>8 DEF Writes, Fresh
<1>10. obj'.pending = new.pending /\ obj'.last = new.last /\ obj'.consumed = new.consumed
  <2>1. PICK v : obj' = [new EXCEPT !.rv = v]
    BY <1>8
  <2> QED
    BY <1>7, <2>1 DEF Objects
<1>11. OperatorType' /\ Others(o) /\ pc'[o] = "receipt" /\ wl'[o] = obj' /\ job'[o] = j
  <2>1. /\ j \in Jobs /\ pc' = [pc EXCEPT ![o] = "receipt"] /\ wl' = [wl EXCEPT ![o] = obj']
        /\ job' = [job EXCEPT ![o] = j] /\ cache' = cache
    BY <1>1, <1>3, <1>6 DEF j
  <2> QED
    BY <1>8, <2>1, MoveStep DEF Steps
<1>12. faults' \in 0 .. MaxFaults
  BY <1>1, <1>2, FaultType
<1>13. j.id = w.pending.id /\ j.action \in Actions /\ j.label \in Labels
  BY <1>5, <1>6 DEF j
<1> QED
  BY <1>1, <1>3, <1>7, <1>9, <1>10, <1>11, <1>12, <1>13

(* RecordIntent keeps the type invariant.                                  *)
LEMMA RecordType ==
  ASSUME TypeInv, NEW o \in Operators, RecordIntent(o)
  PROVE  TypeInv'
<1>1. /\ KnownIds(cache[o], log) /\ KnownIds(obj, log) /\ obj \in Objects /\ ExecType /\ HumanType
  BY TypeParts DEF TypeInv, Known
<1>2. /\ Undecided(cache[o]) /\ pc'[o] = "receipt" /\ wl'[o] = obj' /\ OperatorType' /\ Others(o)
      /\ UNCHANGED <<cache, log, human, execs, clientVars>> /\ faults' \in 0 .. MaxFaults
      /\ job'[o].id = cache[o].pending.id
      /\ job'[o].action \in Actions /\ job'[o].label \in Labels
  BY RecordEffect
<1>3. PICK new \in Objects :
              /\ Writes(new)
              /\ new.pending.id = cache[o].pending.id /\ new.pending.action = cache[o].pending.action
              /\ new.consumed = cache[o].consumed
              /\ obj'.pending = new.pending
  BY RecordEffect
<1>4. KnownIds(new, log)
  BY <1>1, <1>3, KnownFrame
<1>5. obj' \in Objects /\ KnownIds(obj', log')
  BY <1>1, <1>2, <1>3, <1>4, WrittenType, KnownWrite
<1>6. Carries(o)'
  BY <1>2, <1>3 DEF Carries, Undecided, OnApprovalPath
<1>7. LogGrows /\ ExecType' /\ HumanType'
  BY <1>1, <1>2 DEF LogGrows, ExecType, HumanType
<1> QED
  BY <1>2, <1>5, <1>6, <1>7, OperatorStep

(* The human receipt of a decision is well typed.                          *)
LEMMA HumanReceiptType ==
  ASSUME TypeInv, NEW o \in Operators, pc[o] = "receipt", NEW app, human' = withReceipt(o, app)
  PROVE  HumanType'
<1>1. HumanType /\ job[o] \in Jobs /\ Carries(o)
  BY TypeParts DEF TypeInv, Known, OperatorType
<1>2. [id |-> job[o].id, label |-> job[o].label, action |-> job[o].action]
         \in [id : Nat, label : Labels, action : Actions]
  BY <1>1 DEF Jobs, Carries
<1> QED
  BY <1>1, <1>2 DEF HumanType, withReceipt

(* HoldReceiptFailed keeps the pending action and what was consumed.       *)
LEMMA HoldReceiptEffect ==
  ASSUME TypeInv, NEW o \in Operators, HoldReceiptFailed(o)
  PROVE  /\ pc[o] = "receipt" /\ EndReconcile(o) /\ UNCHANGED <<cache, log, execs, clientVars>>
         /\ HumanType' /\ faults' \in 0 .. MaxFaults
         /\ \E new \in Objects :
              /\ Writes(new) /\ new.rv = wl[o].rv
              /\ new.pending.id = wl[o].pending.id /\ new.pending.action = wl[o].pending.action
              /\ new.last = wl[o].last /\ new.consumed = wl[o].consumed
<1> DEFINE w == [wl[o] EXCEPT !.pending.state = "", !.pending.decision = ""]
           new == [w EXCEPT !.hold = "ReceiptFailed"]
<1>1. obj \in Objects /\ wl[o] \in Objects /\ faults \in 0 .. MaxFaults
  BY TypeParts DEF TypeInv, OperatorType
<1>2. /\ w \in Objects /\ w.rv = wl[o].rv
      /\ w.pending.id = wl[o].pending.id /\ w.pending.action = wl[o].pending.action
      /\ w.last = wl[o].last /\ w.consumed = wl[o].consumed
  BY <1>1 DEF Objects, Pendings, States
<1>3. /\ pc[o] = "receipt" /\ EndReconcile(o) /\ UNCHANGED <<cache, log, execs, clientVars>>
      /\ holdApproval(w, "ReceiptFailed") /\ Fault
      /\ \E app \in Appends : human' = withReceipt(o, app)
  BY DEF HoldReceiptFailed
<1> HIDE DEF w
<1>4. new \in Objects /\ Writes(new)
  BY <1>1, <1>2, <1>3, HoldCases DEF Holds
<1>5. /\ new.rv = w.rv /\ new.pending = w.pending
      /\ new.last = w.last /\ new.consumed = w.consumed
  BY <1>2 DEF Objects
<1>6. HumanType' /\ faults' \in 0 .. MaxFaults
  BY <1>1, <1>3, HumanReceiptType, FaultType
<1> QED
  BY <1>2, <1>3, <1>4, <1>5, <1>6

(* HoldReceiptFailed keeps the type invariant.                             *)
LEMMA HoldReceiptType ==
  ASSUME TypeInv, NEW o \in Operators, HoldReceiptFailed(o)
  PROVE  TypeInv'
<1>1. PICK new \in Objects :
              /\ Writes(new)
              /\ new.pending.id = wl[o].pending.id /\ new.pending.action = wl[o].pending.action
              /\ new.consumed = wl[o].consumed
  BY HoldReceiptEffect
<1>2. KnownIds(new, log)
  BY <1>1, KnownFrame DEF TypeInv, Known
<1> QED
  BY <1>1, <1>2, HoldReceiptEffect, EndType

(* HumanReceipt finishes the pending action or goes on to execute it.      *)
LEMMA HumanReceiptEffect ==
  ASSUME TypeInv, NEW o \in Operators, HumanReceipt(o)
  PROVE  /\ pc[o] = "receipt" /\ OperatorType' /\ Others(o) /\ LogGrows
         /\ UNCHANGED <<obj, cache, job, execs, clientVars>>
         /\ HumanType' /\ faults' \in 0 .. MaxFaults
         /\ \/ /\ pc'[o] = "commit"
               /\ \E phase \in Phases : wl'[o] = finishApproval(wl[o], phase)
            \/ pc'[o] = "mark" /\ wl'[o] = wl[o]
<1>1. /\ wl[o] \in Objects /\ job[o] \in Jobs /\ OperatorType /\ faults \in 0 .. MaxFaults
      /\ KnownIds(wl[o], log) /\ Carries(o) /\ wl[o].policy \in Policies
  BY TypeParts DEF TypeInv, OperatorType, Known, Objects
<1>2. /\ pc[o] = "receipt" /\ UNCHANGED <<obj, cache, job, execs, clientVars>>
  BY DEF HumanReceipt
<1>3. HumanType' /\ faults' \in 0 .. MaxFaults
  <2>1. PICK app \in Appends : Outcome(app, Good) /\ human' = withReceipt(o, app)
    BY DEF HumanReceipt
  <2> QED
    BY <1>1, <1>2, <2>1, HumanReceiptType, FaultType
<1>4. job' = [job EXCEPT ![o] = job[o]]
  BY <1>1, <1>2 DEF OperatorType
<1>5. ASSUME NEW phase \in Phases, wl' = [wl EXCEPT ![o] = finishApproval(wl[o], phase)],
             pc' = [pc EXCEPT ![o] = "commit"]
      PROVE  /\ OperatorType' /\ Others(o) /\ pc'[o] = "commit"
             /\ wl'[o] = finishApproval(wl[o], phase)
  <2>1. finishApproval(wl[o], phase) \in Objects /\ "commit" \in Steps
    BY <1>1, FinishType DEF Steps
  <2> QED
    BY <1>1, <1>2, <1>4, <1>5, <2>1, MoveStep
<1>6. CASE job[o].label = "reject"
  <2>1. /\ wl' = [wl EXCEPT ![o] = finishApproval(wl[o], "Rejected")]
        /\ pc' = [pc EXCEPT ![o] = "commit"] /\ log' = log
    BY <1>6 DEF HumanReceipt
  <2>2. "Rejected" \in Phases
    BY DEF Phases
  <2> QED
    BY <1>2, <1>3, <1>5, <2>1, <2>2 DEF LogGrows
<1>7. CASE job[o].label # "reject" /\ job[o].blocked
  <2>1. /\ wl' = [wl EXCEPT ![o] = finishApproval(wl[o], "PolicyDenied")]
        /\ pc' = [pc EXCEPT ![o] = "commit"]
        /\ \E stored \in {ReceiptsEnabled, FALSE} :
             log' = Append(log, [action |-> job[o].action, policy |-> wl[o].policy,
                                 outcome |-> "deny", stored |-> stored])
    BY <1>7 DEF HumanReceipt
  <2>2. PICK stored \in {ReceiptsEnabled, FALSE} :
             log' = Append(log, [action |-> job[o].action, policy |-> wl[o].policy,
                                 outcome |-> "deny", stored |-> stored])
    BY <2>1
  <2>3. [action |-> job[o].action, policy |-> wl[o].policy,
         outcome |-> "deny", stored |-> stored] \in Entries
    BY <1>1, <1>2, ControllerAssumption DEF Carries, Entries, Outcomes
  <2>4. LogGrows
    BY <2>2, <2>3 DEF LogGrows
  <2>5. "PolicyDenied" \in Phases
    BY DEF Phases
  <2> QED
    BY <1>2, <1>3, <1>5, <2>1, <2>4, <2>5
<1>8. CASE job[o].label # "reject" /\ ~job[o].blocked
  <2>1. pc' = [pc EXCEPT ![o] = "mark"] /\ wl' = wl /\ log' = log
    BY <1>8 DEF HumanReceipt
  <2>2. wl' = [wl EXCEPT ![o] = wl[o]]
    BY <1>1, <2>1 DEF OperatorType
  <2>3. OperatorType' /\ Others(o) /\ pc'[o] = "mark" /\ wl'[o] = wl[o]
    BY <1>1, <1>2, <1>4, <2>1, <2>2, MoveStep DEF Steps
  <2> QED
    BY <1>2, <1>3, <2>1, <2>3 DEF LogGrows
<1> QED
  BY <1>6, <1>7, <1>8

(* HumanReceipt keeps the type invariant.                                  *)
LEMMA ReceiptType ==
  ASSUME TypeInv, NEW o \in Operators, HumanReceipt(o)
  PROVE  TypeInv'
<1>1. /\ obj \in Objects /\ wl[o] \in Objects /\ KnownIds(obj, log) /\ KnownIds(wl[o], log)
      /\ Carries(o) /\ ExecType /\ log \in Seq(Entries)
  BY TypeParts DEF TypeInv, OperatorType, Known
<1>2. /\ pc[o] = "receipt" /\ OperatorType' /\ Others(o) /\ LogGrows
      /\ UNCHANGED <<obj, cache, job, execs, clientVars>>
      /\ HumanType' /\ faults' \in 0 .. MaxFaults
  BY HumanReceiptEffect
<1>3. KnownIds(obj', log') /\ KnownIds(wl[o], log') /\ obj' \in Objects
  BY <1>1, <1>2, KeptIds
<1>4. KnownIds(wl'[o], log') /\ Carries(o)'
  <2>1. CASE /\ pc'[o] = "commit"
             /\ \E phase \in Phases : wl'[o] = finishApproval(wl[o], phase)
    <3>1. wl[o].pending.id # 0
      BY <1>1, <1>2 DEF Carries
    <3> QED
      BY <1>1, <1>3, <2>1, <3>1, FinishKnown DEF Carries
  <2>2. CASE pc'[o] = "mark" /\ wl'[o] = wl[o]
    BY <1>1, <1>2, <1>3, <2>2 DEF Carries
  <2> QED
    BY <2>1, <2>2, HumanReceiptEffect
<1>5. ExecType'
  BY <1>1, <1>2 DEF ExecType
<1> QED
  BY <1>2, <1>3, <1>4, <1>5, OperatorStep

(* MarkExecuting stores Executing over the stored version, or ends.        *)
LEMMA MarkEffect ==
  ASSUME TypeInv, NEW o \in Operators, MarkExecuting(o)
  PROVE  /\ pc[o] = "mark" /\ OperatorType' /\ Others(o)
         /\ UNCHANGED <<cache, log, human, execs, clientVars, faults>>
         /\ \/ /\ Fresh(wl[o]) /\ pc'[o] = "run" /\ wl'[o] = obj'
               /\ job'[o].id = job[o].id /\ job'[o].action = job[o].action /\ job'[o].label = job[o].label
               /\ \E new \in Objects :
                    /\ Writes(new) /\ new.rv = wl[o].rv
                    /\ new.pending.id = wl[o].pending.id
                    /\ new.pending.action = wl[o].pending.action
                    /\ new.pending.state = "Executing" /\ obj'.pending = new.pending
                    /\ new.last = wl[o].last /\ new.consumed = wl[o].consumed
            \/ obj' = obj /\ EndReconcile(o)
<1> DEFINE new == [wl[o] EXCEPT !.pending.state = "Executing"]
           j == [job[o] EXCEPT !.granted = obj.policy]
<1>1. /\ obj \in Objects /\ wl[o] \in Objects /\ job[o] \in Jobs /\ OperatorType /\ obj.policy \in Policies
  BY TypeParts DEF TypeInv, OperatorType, Objects
<1>2. CASE Fresh(wl[o])
  <2>1. /\ new \in Objects /\ new.rv = wl[o].rv
        /\ new.pending.id = wl[o].pending.id /\ new.pending.action = wl[o].pending.action
        /\ new.pending.state = "Executing"
        /\ new.last = wl[o].last /\ new.consumed = wl[o].consumed
    BY <1>1 DEF Objects, Pendings, States
  <2>2. /\ j \in Jobs /\ j.id = job[o].id /\ j.action = job[o].action /\ j.label = job[o].label
    BY <1>1 DEF Jobs
  <2>3. /\ obj' = Stored(new)
        /\ pc' = [pc EXCEPT ![o] = "run"] /\ wl' = [wl EXCEPT ![o] = obj']
        /\ job' = [job EXCEPT ![o] = j] /\ cache' = cache
    BY <1>1, <1>2 DEF MarkExecuting, OperatorType
  <2> HIDE DEF j, new
  <2>4. /\ obj' \in Objects
        /\ \/ obj' = obj /\ [new EXCEPT !.rv = obj.rv] = obj
           \/ obj' = [new EXCEPT !.rv = obj.rv + 1]
    BY <1>1, <2>1, <2>3, StoredCases
  <2>5. Writes(new)
    BY <1>2, <2>1, <2>4 DEF Writes, Fresh
  <2>6. obj'.pending = new.pending
    <3>1. PICK v : obj' = [new EXCEPT !.rv = v]
      BY <2>4
    <3> QED
      BY <2>1, <3>1 DEF Objects
  <2>7. OperatorType' /\ Others(o) /\ pc'[o] = "run" /\ wl'[o] = obj' /\ job'[o] = j
    <3>1. /\ pc' = [pc EXCEPT ![o] = "run"] /\ wl' = [wl EXCEPT ![o] = obj']
          /\ job' = [job EXCEPT ![o] = j] /\ cache' = cache
          /\ j \in Jobs /\ obj' \in Objects /\ "run" \in Steps
      BY <2>2, <2>3, <2>4 DEF Steps
    <3> QED
      BY <3>1, MoveStep
  <2> QED
    BY <1>2, <2>1, <2>2, <2>5, <2>6, <2>7 DEF MarkExecuting
<1>3. CASE ~Fresh(wl[o])
  <2>1. obj' = obj /\ EndReconcile(o) /\ cache' = cache
    BY <1>3 DEF MarkExecuting
  <2> QED
    BY <2>1, EndStep DEF MarkExecuting
<1> QED
  BY <1>2, <1>3

(* MarkExecuting keeps the type invariant.                                 *)
LEMMA MarkType ==
  ASSUME TypeInv, NEW o \in Operators, MarkExecuting(o)
  PROVE  TypeInv'
<1>1. /\ obj \in Objects /\ wl[o] \in Objects /\ KnownIds(obj, log) /\ KnownIds(wl[o], log)
      /\ Carries(o) /\ faults \in 0 .. MaxFaults /\ ExecType /\ HumanType
  BY TypeParts DEF TypeInv, OperatorType, Known
<1>2. /\ pc[o] = "mark" /\ OperatorType' /\ Others(o)
      /\ UNCHANGED <<cache, log, human, execs, clientVars, faults>>
  BY MarkEffect
<1>3. LogGrows /\ ExecType' /\ HumanType' /\ faults' \in 0 .. MaxFaults
  BY <1>1, <1>2 DEF LogGrows, ExecType, HumanType
<1>4. CASE EndReconcile(o) /\ obj' = obj
  <2>1. KnownIds(wl'[o], log') /\ Carries(o)'
    BY <1>2, <1>4, EndStep
  <2> QED
    BY <1>1, <1>2, <1>3, <1>4, <2>1, OperatorStep
<1>5. CASE /\ pc'[o] = "run" /\ wl'[o] = obj'
           /\ job'[o].id = job[o].id /\ job'[o].action = job[o].action /\ job'[o].label = job[o].label
           /\ \E new \in Objects :
                /\ Writes(new)
                /\ new.pending.id = wl[o].pending.id /\ new.pending.action = wl[o].pending.action
                /\ obj'.pending = new.pending /\ new.consumed = wl[o].consumed
  <2>1. PICK new \in Objects :
                /\ Writes(new)
                /\ new.pending.id = wl[o].pending.id /\ new.pending.action = wl[o].pending.action
                /\ obj'.pending = new.pending /\ new.consumed = wl[o].consumed
    BY <1>5
  <2>2. KnownIds(new, log)
    BY <1>1, <2>1, KnownFrame
  <2>3. obj' \in Objects /\ KnownIds(obj', log')
    BY <1>1, <1>2, <2>1, <2>2, WrittenType, KnownWrite
  <2>4. KnownIds(wl'[o], log') /\ Carries(o)'
    BY <1>1, <1>2, <1>5, <2>1, <2>3 DEF Carries
  <2> QED
    BY <1>2, <1>3, <2>3, <2>4, OperatorStep
<1> QED
  BY <1>4, <1>5, MarkEffect

(* RunApproved makes the call and finishes the pending action.             *)
LEMMA RunEffect ==
  ASSUME TypeInv, NEW o \in Operators, RunApproved(o)
  PROVE  /\ pc[o] = "run" /\ pc'[o] = "commit" /\ OperatorType' /\ Others(o)
         /\ UNCHANGED <<obj, cache, job, log, human, clientVars>> /\ faults' \in 0 .. MaxFaults
         /\ \E phase \in Phases : wl'[o] = finishApproval(wl[o], phase)
         /\ \E res \in Calls : Ran(o, res)
<1>1. wl[o] \in Objects /\ job[o] \in Jobs /\ OperatorType /\ faults \in 0 .. MaxFaults
  BY TypeParts DEF TypeInv, OperatorType
<1>2. PICK res \in Calls :
       /\ Outcome(res, "ok") /\ Ran(o, res)
       /\ wl' = [wl EXCEPT ![o] = finishApproval(wl[o], IF res = "ok" THEN "Completed" ELSE "Failed")]
  BY DEF RunApproved
<1>3. PICK phase \in Phases : wl' = [wl EXCEPT ![o] = finishApproval(wl[o], phase)]
  BY <1>2 DEF Phases
<1>4. /\ pc[o] = "run" /\ pc' = [pc EXCEPT ![o] = "commit"]
      /\ UNCHANGED <<obj, cache, job, log, human, clientVars>>
  BY DEF RunApproved
<1>5. job' = [job EXCEPT ![o] = job[o]]
  BY <1>1, <1>4 DEF OperatorType
<1>6. finishApproval(wl[o], phase) \in Objects
  BY <1>1, FinishType
<1>7. /\ OperatorType' /\ Others(o) /\ pc'[o] = "commit"
      /\ wl'[o] = finishApproval(wl[o], phase)
  BY <1>1, <1>3, <1>4, <1>5, <1>6, MoveStep DEF Steps
<1> QED
  BY <1>1, <1>2, <1>4, <1>7, FaultType

(* RunApproved keeps the type invariant.                                   *)
LEMMA RunType ==
  ASSUME TypeInv, NEW o \in Operators, RunApproved(o)
  PROVE  TypeInv'
<1>1. /\ obj \in Objects /\ wl[o] \in Objects /\ KnownIds(obj, log) /\ KnownIds(wl[o], log)
      /\ Carries(o) /\ HumanType
  BY TypeParts DEF TypeInv, OperatorType, Known
<1>2. /\ pc[o] = "run" /\ pc'[o] = "commit" /\ OperatorType' /\ Others(o)
      /\ UNCHANGED <<obj, cache, job, log, human, clientVars>> /\ faults' \in 0 .. MaxFaults
      /\ \E phase \in Phases : wl'[o] = finishApproval(wl[o], phase)
  BY RunEffect
<1>3. wl[o].pending.id # 0 /\ job[o].action \in Actions
  BY <1>1, <1>2 DEF Carries
<1>4. KnownIds(wl'[o], log') /\ Carries(o)'
  BY <1>1, <1>2, <1>3, FinishKnown DEF Carries
<1>5. ExecType'
  BY <1>3, RunEffect, RanEffect
<1>6. LogGrows /\ HumanType' /\ obj' \in Objects /\ KnownIds(obj', log')
  BY <1>1, <1>2 DEF LogGrows, HumanType
<1> QED
  BY <1>2, <1>4, <1>5, <1>6, OperatorStep

(* Clients write annotations and spec, never the status.                   *)
LEMMA EditType ==
  ASSUME edits \in 0 .. MaxEdits, Edit
  PROVE  edits' \in 0 .. MaxEdits
BY ControllerAssumption DEF Edit

(* Annotations are no part of the status.                                  *)
LEMMA AnnotationEffect ==
  ASSUME NEW w \in Objects, NEW a \in Annotations, NEW v \in Nat
  PROVE  LET n == [w EXCEPT !.ann = a, !.rv = v]
         IN  /\ n \in Objects /\ n.rv = v /\ n.pending = w.pending
             /\ n.last = w.last /\ n.consumed = w.consumed
BY DEF Objects

(* What clients do to the object.                                          *)
LEMMA ClientEffect ==
  ASSUME TypeInv, Client, ~RestorePending
  PROVE  /\ obj' \in Objects /\ (obj' = obj \/ obj'.rv = obj.rv + 1)
         /\ obj'.pending = obj.pending /\ obj'.last = obj.last /\ obj'.consumed = obj.consumed
         /\ UNCHANGED <<opVars, log, human, execs, faults>> /\ ClientType'
<1>1. obj \in Objects /\ ClientType /\ edits \in 0 .. MaxEdits
  BY TypeParts DEF TypeInv, ClientType
<1>2. obj.rv \in Nat /\ obj.pending.id \in Nat /\ obj.pending.action \in Actions \cup {NoAction}
      /\ obj.ann \in Annotations
  BY <1>1 DEF Objects, Pendings
<1>3. ASSUME NEW u \in Users, ReadPending(u)
      PROVE  /\ obj' = obj /\ UNCHANGED <<opVars, log, human, execs, faults>> /\ ClientType'
  BY <1>1, <1>2, <1>3 DEF ReadPending, ClientType
<1>4. ASSUME NEW u \in Users, NEW l \in Labels, NEW e \in Actions \cup {NoAction}, PatchDecision(u, l, e)
      PROVE  /\ \E a \in Annotations : obj' = [obj EXCEPT !.ann = a, !.rv = @ + 1]
             /\ UNCHANGED <<opVars, log, human, execs, faults>> /\ ClientType'
  <2> DEFINE new == [NoAnnotations EXCEPT !.label = l, !.edit = e]
             d == [id |-> webhookPending, seen |-> view[u].id, label |-> l, edit |-> e]
  <2>1. new \in Annotations
    BY NoRecordTypes DEF Annotations
  <2>2. webhookPending \in Nat
    BY <1>2 DEF webhookPending
  <2>3. d \in [id : Nat, seen : Nat, label : Labels, edit : Actions \cup {NoAction}]
    BY <1>1, <2>2 DEF ClientType
  <2>4. /\ Edit /\ decided' = decided \cup {d} /\ UNCHANGED <<opVars, log, human, view, execs, webhook, faults>>
        /\ obj' = [obj EXCEPT !.ann = Stamped(obj.ann, new, webhookPending, obj.pending.action, u),
                              !.rv = @ + 1]
    BY <1>4 DEF PatchDecision
  <2>5. Stamped(obj.ann, new, webhookPending, obj.pending.action, u) \in Annotations
    BY <1>2, <2>1, <2>2, StampedType
  <2> HIDE DEF d, new
  <2>6. edits' \in 0 .. MaxEdits
    BY <1>1, <2>4, EditType
  <2>7. ClientType'
    BY <1>1, <2>3, <2>4, <2>6 DEF ClientType
  <2> QED
    BY <2>4, <2>5, <2>7
<1>5. ASSUME ClearDecision
      PROVE  /\ \E a \in Annotations : obj' = [obj EXCEPT !.ann = a, !.rv = @ + 1]
             /\ UNCHANGED <<opVars, log, human, execs, faults>> /\ ClientType'
  <2>1. edits' \in 0 .. MaxEdits
    BY <1>1, <1>5, EditType DEF ClearDecision
  <2> QED
    BY <1>1, <1>5, <2>1, NoRecordTypes DEF ClearDecision, ClientType
<1>6. ASSUME NEW by \in Users \cup {NoUser}, NEW l \in Labels, AnnotateUnadmitted(by, l)
      PROVE  /\ \E a \in Annotations : obj' = [obj EXCEPT !.ann = a, !.rv = @ + 1]
             /\ UNCHANGED <<opVars, log, human, execs, faults>> /\ ClientType'
  <2> DEFINE a == [NoAnnotations EXCEPT !.label = l, !.by = by, !.for = obj.pending.id]
  <2>1. a \in Annotations
    BY <1>2, NoRecordTypes DEF Annotations
  <2>2. /\ Edit /\ obj' = [obj EXCEPT !.ann = a, !.rv = @ + 1]
        /\ UNCHANGED <<opVars, log, human, view, decided, execs, webhook, faults>>
    BY <1>6 DEF AnnotateUnadmitted
  <2>3. edits' \in 0 .. MaxEdits
    BY <1>1, <2>2, EditType
  <2> HIDE DEF a
  <2>4. ClientType'
    BY <1>1, <2>2, <2>3 DEF ClientType
  <2> QED
    BY <2>1, <2>2, <2>4
<1>7. ASSUME NEW p \in Policies, EditPolicy(p)
      PROVE  /\ obj' \in Objects /\ obj'.rv = obj.rv + 1 /\ obj'.pending = obj.pending
             /\ obj'.last = obj.last /\ obj'.consumed = obj.consumed
             /\ UNCHANGED <<opVars, log, human, execs, faults>> /\ ClientType'
  <2>1. edits' \in 0 .. MaxEdits
    BY <1>1, <1>7, EditType DEF EditPolicy
  <2>2. ClientType' /\ UNCHANGED <<opVars, log, human, execs, faults>>
    BY <1>1, <1>7, <2>1 DEF EditPolicy, ClientType
  <2>3. obj.rv + 1 \in Nat
    BY <1>2
  <2>4. obj' = [obj EXCEPT !.policy = p, !.rv = obj.rv + 1]
    BY <1>7 DEF EditPolicy
  <2>5. \A v \in Nat : LET n == [obj EXCEPT !.policy = p, !.rv = v]
                       IN  /\ n \in Objects /\ n.rv = v /\ n.pending = obj.pending
                           /\ n.last = obj.last /\ n.consumed = obj.consumed
    BY <1>1 DEF Objects
  <2> QED
    BY <2>2, <2>3, <2>4, <2>5
<1>8. ASSUME NEW a \in Annotations, obj' = [obj EXCEPT !.ann = a, !.rv = @ + 1]
      PROVE  /\ obj' \in Objects /\ obj'.rv = obj.rv + 1 /\ obj'.pending = obj.pending
             /\ obj'.last = obj.last /\ obj'.consumed = obj.consumed
  <2>1. obj.rv + 1 \in Nat
    BY <1>2
  <2>2. obj' = [obj EXCEPT !.ann = a, !.rv = obj.rv + 1]
    BY <1>8
  <2> QED
    BY <1>1, <2>1, <2>2, AnnotationEffect
<1> QED
  BY <1>1, <1>3, <1>4, <1>5, <1>6, <1>7, <1>8 DEF Client

(* A restored status holds an id that was consumed.                        *)
LEMMA RestoreEffect ==
  ASSUME TypeInv, RestorePending
  PROVE  /\ UNCHANGED <<opVars, log, human, execs, clientVars>> /\ faults' \in 0 .. MaxFaults
         /\ obj' \in Objects /\ obj'.rv = obj.rv + 1
         /\ obj'.last = obj.last /\ obj'.consumed = obj.consumed
         /\ \E i \in 1 .. Len(obj.consumed) : obj'.pending.id = obj.consumed[i]
         /\ obj'.pending.action \in Actions
<1>1. obj \in Objects /\ KnownIds(obj, log) /\ faults \in 0 .. MaxFaults /\ log \in Seq(Entries)
  BY TypeParts DEF TypeInv, Known
<1>2. PICK i \in 1 .. Len(obj.consumed) :
        obj' = [obj EXCEPT !.phase = "PendingApproval", !.rv = @ + 1,
                           !.pending = [id |-> obj.consumed[i], action |-> log[obj.consumed[i]].action,
                                        policy |-> log[obj.consumed[i]].policy,
                                        state |-> "", decision |-> ""]]
  BY DEF RestorePending
<1> DEFINE id == obj.consumed[i]
           p == [id |-> id, action |-> log[id].action, policy |-> log[id].policy,
                 state |-> "", decision |-> ""]
<1>3. id \in 1 .. Len(log)
  BY <1>1 DEF KnownIds, HeldId
<1>4. id \in Nat /\ log[id].action \in Actions /\ log[id].policy \in Policies
  <2> HIDE DEF id
  <2>1. id \in Nat /\ log[id] \in Entries
    BY <1>1, <1>3
  <2> QED
    BY <2>1 DEF Entries
<1>5. p \in Pendings /\ p.id = id /\ p.action \in Actions
  BY <1>4 DEF Pendings, States
<1>6. obj' = [obj EXCEPT !.phase = "PendingApproval", !.rv = @ + 1, !.pending = p]
  BY <1>2
<1> HIDE DEF p
<1>7. /\ obj' \in Objects /\ obj'.rv = obj.rv + 1 /\ obj'.pending = p
      /\ obj'.last = obj.last /\ obj'.consumed = obj.consumed
  <2>1. obj.rv + 1 \in Nat /\ obj' = [obj EXCEPT !.phase = "PendingApproval", !.rv = obj.rv + 1, !.pending = p]
    BY <1>1, <1>6 DEF Objects
  <2>2. \A v \in Nat : LET n == [obj EXCEPT !.phase = "PendingApproval", !.rv = v, !.pending = p]
                       IN  /\ n \in Objects /\ n.rv = v /\ n.pending = p
                           /\ n.last = obj.last /\ n.consumed = obj.consumed
    BY <1>1, <1>5 DEF Objects, Phases
  <2> QED
    BY <2>1, <2>2
<1>8. Fault /\ UNCHANGED <<opVars, log, human, execs, clientVars>>
  BY DEF RestorePending
<1> QED
  BY <1>1, <1>5, <1>7, <1>8, FaultType

(* The steps of clients keep the type invariant.                           *)
LEMMA ClientStepType ==
  ASSUME TypeInv, Client
  PROVE  TypeInv'
<1>1. KnownIds(obj, log) /\ ClientType
  BY TypeParts DEF TypeInv, Known
<1>2. CASE ~RestorePending
  <2>1. /\ obj' \in Objects /\ obj'.pending = obj.pending /\ obj'.consumed = obj.consumed
        /\ UNCHANGED <<opVars, log, human, execs, faults>> /\ ClientType'
    BY <1>2, ClientEffect
  <2>2. KnownIds(obj, log)'
    BY <1>1, <2>1 DEF KnownIds
  <2>3. faults' \in 0 .. MaxFaults
    BY <2>1, TypeParts DEF TypeInv
  <2> QED
    BY <2>1, <2>2, <2>3, ObjectStep
<1>3. CASE RestorePending
  <2>1. KnownIds(obj, log)'
    BY <1>1, <1>3, RestoreEffect DEF KnownIds
  <2>2. ClientType'
    BY <1>1, <1>3, RestoreEffect DEF ClientType, clientVars
  <2> QED
    BY <1>3, <2>1, <2>2, RestoreEffect, ObjectStep
<1> QED
  BY <1>2, <1>3

(* A crash keeps the type invariant.                                       *)
LEMMA CrashType ==
  ASSUME TypeInv, NEW o \in Operators, Crash(o)
  PROVE  TypeInv'
<1>1. /\ obj \in Objects /\ KnownIds(obj, log) /\ HumanType /\ faults \in 0 .. MaxFaults
  BY TypeParts DEF TypeInv, Known
<1>2. /\ Writes(obj) /\ EndReconcile(o) /\ UNCHANGED <<cache, log, execs, clientVars>>
  BY DEF Crash, Writes
<1>3. HumanType' /\ faults' \in 0 .. MaxFaults
  BY <1>1, FaultType DEF Crash, HumanType
<1> QED
  BY <1>1, <1>2, <1>3, EndType

(* The informer keeps the type invariant.                                  *)
LEMMA SyncType ==
  ASSUME TypeInv, NEW o \in Operators, Sync(o)
  PROVE  TypeInv'
<1>1. /\ cache' = [cache EXCEPT ![o] = obj]
      /\ UNCHANGED <<obj, pc, wl, job, log, human, execs, view, decided, webhook, edits, faults>>
  BY DEF Sync, clientVars
<1>2. TypeOK'
  BY <1>1 DEF TypeInv, TypeOK
<1>3. \A q \in Operators : cache'[q] = cache[q] \/ cache'[q] = obj
  BY <1>1 DEF TypeInv, TypeOK
<1>4. Known'
  BY <1>1, <1>3 DEF TypeInv, Known, Carries
<1> QED
  BY <1>2, <1>4 DEF TypeInv

(* The initial states satisfy the type invariant.                          *)
LEMMA TypeInit == Init => TypeInv
<1> SUFFICES ASSUME Init PROVE TypeInv
  OBVIOUS
<1>1. PICK p \in Policies : obj = [NoObject EXCEPT !.rv = 1, !.policy = p]
  BY DEF Init
<1>2. obj \in Objects /\ obj.pending = NoPending /\ obj.consumed = <<>>
  <2>1. NoObject.pending = NoPending /\ NoObject.consumed = <<>>
    BY DEF NoObject
  <2> QED
    BY <1>1, <2>1, NoRecordTypes DEF Objects
<1>3. OperatorType
  BY <1>2, NoRecordTypes DEF Init, OperatorType, Steps
<1>4. ClientType /\ ExecType /\ HumanType /\ log \in Seq(Entries) /\ faults \in 0 .. MaxFaults
  BY ControllerAssumption DEF Init, ClientType, ExecType, HumanType
<1>5. TypeOK
  BY <1>2, <1>3, <1>4, TypeParts
<1>6. NoPending.id = 0 /\ NoObject.pending = NoPending /\ NoObject.consumed = <<>>
  BY DEF NoPending, NoObject
<1>7. KnownIds(obj, log) /\ KnownIds(NoObject, log)
  BY <1>2, <1>6 DEF KnownIds
<1>8. Known
  BY <1>3, <1>7 DEF Init, Known, Carries
<1> QED
  BY <1>5, <1>8 DEF TypeInv

(* Every step of a reconcile keeps the type invariant.                     *)
LEMMA ReconcileType ==
  ASSUME TypeInv, NEW o \in Operators, Reconcile(o)
  PROVE  TypeInv'
BY IdleType, ProposeType, ReserveType, ExecuteType, CommitType, FinishUnknownType,
   RecordType, HoldReceiptType, ReceiptType, MarkType, RunType DEF Reconcile

(* Every step keeps the type invariant.                                    *)
LEMMA TypeStep == TypeInv /\ [Next]_vars => TypeInv'
<1> SUFFICES ASSUME TypeInv, [Next]_vars PROVE TypeInv'
  OBVIOUS
<1>1. CASE UNCHANGED vars
  BY <1>1 DEF vars, TypeInv, TypeOK, Known, Carries
<1> QED
  BY <1>1, ClientStepType, ReconcileType, SyncType, CrashType DEF Next

(* Type correctness of the controller.  It is not inductive by itself: a   *)
(* restored status reads the log at a consumed id, and an executed action  *)
(* must be an action and not the absent one, so the ids the copies of the  *)
(* workload name are shown to be ids of held decisions.                    *)
THEOREM TypeCorrect == Spec => []TypeOK
<1>1. TypeInv => TypeOK
  BY DEF TypeInv
<1> QED
  BY <1>1, TypeInit, TypeStep, PTL DEF Spec

-----------------------------------------------------------------------------
(* The second invariant: who may still execute an id.                      *)

Performed(id, ex) == \E i \in 1 .. Len(ex) : ex[i].id = id

Mentions(w, id) == w.pending.id = id \/ \E i \in 1 .. Len(w.consumed) : w.consumed[i] = id

(* A copy that may still be executed: pending, not Executing, not consumed *)
Open(w) ==
  /\ w.pending.id # 0
  /\ w.pending.state # "Executing"
  /\ ~approvalConsumed(w, w.pending.id)

(* Copies are versions of the object: the same version, the same copy.     *)
VersionOf(w) == w.rv <= obj.rv /\ (w.rv = obj.rv => w = obj)

Versions ==
  \A o \in Operators :
    /\ VersionOf(cache[o])
    /\ pc[o] \in {"reserve", "receipt", "mark"} => VersionOf(wl[o])

Recorded ==
  \A o \in Operators :
    pc[o] \in {"receipt", "mark"} => wl[o].pending.state = "Recording" /\ Open(wl[o])

(* Ids in use are ids of the log.                                          *)
Bounded ==
  /\ \A o \in Operators : job[o].id <= Len(log)
  /\ \A i \in 1 .. Len(execs) : execs[i].id \in 1 .. Len(log)

(* An action about to be stored as pending is known to its reconcile only. *)
Private(o, id) ==
  /\ ~Performed(id, execs)
  /\ ~Mentions(obj, id)
  /\ \A q \in Operators :
       /\ job[q].id # id
       /\ ~Mentions(cache[q], id)
       /\ q # o => ~Mentions(wl[q], id)

NewPending ==
  \A o \in Operators :
    pc[o] = "commit" /\ wl[o].pending.id # 0 => Private(o, wl[o].pending.id)

(* An open action was not executed and nobody is about to execute it.      *)
OpenIsUnperformed ==
  Open(obj) => /\ ~Performed(obj.pending.id, execs)
               /\ \A q \in Operators : pc[q] = "run" => job[q].id # obj.pending.id

(* A reconcile about to execute is the only one for its decision.          *)
Executing(o) == pc[o] \in {"reserve", "execute", "run"}

Exclusive ==
  \A o \in Operators :
    Executing(o) =>
      /\ ~Performed(job[o].id, execs)
      /\ \A q \in Operators : Executing(q) /\ q # o => job[q].id # job[o].id

OnceInv ==
  /\ Versions
  /\ Recorded
  /\ Bounded
  /\ NewPending
  /\ OpenIsUnperformed
  /\ Exclusive
  /\ AtMostOncePerDecision

-----------------------------------------------------------------------------
(* At most once: what one step does to each part of the invariant.         *)

(* What a step of the reconcile of o adds to the executions.               *)
Performs(o) ==
  \/ execs' = execs
  \/ /\ Len(execs') = Len(execs) + 1
     /\ \A i \in 1 .. Len(execs) : execs'[i].id = execs[i].id
     /\ execs'[Len(execs) + 1].id = job[o].id

ObjectMoves == obj' = obj \/ obj'.rv = obj.rv + 1

(* A copy names nothing but what the object and the copies of o name.      *)
DerivedFrom(w, o) ==
  \A id \in 1 .. Len(log) :
    Mentions(w, id) => Mentions(obj, id) \/ Mentions(cache[o], id) \/ Mentions(wl[o], id)

(* A write keeps the version with the object, or changes both.             *)
LEMMA WritesMove ==
  ASSUME obj \in Objects, NEW new \in Objects, Writes(new)
  PROVE  /\ ObjectMoves
         /\ \/ obj' = obj
            \/ /\ new.rv = obj.rv /\ obj'.rv = obj.rv + 1 /\ obj'.pending = new.pending
               /\ obj'.last = new.last /\ obj'.consumed = new.consumed
<1>1. obj.rv + 1 \in Nat
  BY DEF Objects
<1>2. \A v \in Nat : LET n == [new EXCEPT !.rv = v]
                     IN  /\ n.rv = v /\ n.pending = new.pending
                         /\ n.last = new.last /\ n.consumed = new.consumed
  BY DEF Objects
<1>3. obj' = obj \/ (new.rv = obj.rv /\ obj' = [new EXCEPT !.rv = obj.rv + 1])
  BY DEF Writes, Fresh
<1> QED
  BY <1>1, <1>2, <1>3 DEF ObjectMoves

(* finishApproval names nothing but what the copy named.                   *)
LEMMA FinishMentions ==
  ASSUME NEW w \in Objects, NEW phase \in Phases, NEW id
  PROVE  Mentions(finishApproval(w, phase), id) => id = 0 \/ Mentions(w, id)
<1> DEFINE f == finishApproval(w, phase)
<1>1. w.consumed \in Seq(Nat) /\ w.pending.id \in Nat
  BY DEF Objects, Pendings
<1>2. f.pending = NoPending /\ f.consumed = consume(w.consumed, w.pending.id)
  BY FinishType
<1>3. NoPending.id = 0
  BY DEF NoPending
<1> HIDE DEF f
<1>4. Mentions(f, id) => id = 0 \/ Mentions(w, id)
  BY <1>1, <1>2, <1>3, ConsumeType DEF Mentions
<1> QED
  BY <1>4 DEF f

(* Older copies stay older.                                                *)
LEMMA VersionsStep ==
  ASSUME TypeInv, TypeInv', Versions, NEW o \in Operators, Others(o), cache' = cache, ObjectMoves,
         pc'[o] \in {"reserve", "receipt", "mark"} => VersionOf(wl[o])'
  PROVE  Versions'
<1>1. obj \in Objects /\ obj' \in Objects /\ OperatorType
  BY TypeParts DEF TypeInv, TypeOK
<1>2. ASSUME NEW w \in Objects, VersionOf(w)
      PROVE  w.rv <= obj'.rv /\ (w.rv = obj'.rv => w = obj')
  BY <1>1, <1>2 DEF VersionOf, ObjectMoves, Objects
<1>3. ASSUME NEW q \in Operators PROVE VersionOf(cache[q])'
  BY <1>1, <1>2 DEF Versions, VersionOf, OperatorType
<1>4. ASSUME NEW q \in Operators \ {o}, pc'[q] \in {"reserve", "receipt", "mark"}
      PROVE  VersionOf(wl[q])'
  <2>1. VersionOf(wl[q]) /\ wl[q] \in Objects /\ wl'[q] = wl[q]
    BY <1>1, <1>4 DEF Versions, Others, OperatorType
  <2> QED
    BY <1>2, <2>1 DEF VersionOf
<1> QED
  BY <1>3, <1>4 DEF Versions

(* A step of o concerns the recorded intent of o only.                     *)
LEMMA RecordedStep ==
  ASSUME Recorded, NEW o \in Operators, Others(o),
         pc'[o] \in {"receipt", "mark"} => wl'[o].pending.state = "Recording" /\ Open(wl'[o])
  PROVE  Recorded'
BY DEF Recorded, Others, Open, approvalConsumed

(* The executions are a sequence.                                          *)
LEMMA ExecLength ==
  ASSUME TypeOK
  PROVE  Len(execs) \in Nat /\ DOMAIN execs = 1 .. Len(execs)
<1>1. \A S : \A x \in Seq(S) : Len(x) \in Nat /\ DOMAIN x = 1 .. Len(x)
  OBVIOUS
<1> QED
  BY <1>1 DEF TypeOK

(* What is performed after a step was before, or is the job of o.          *)
LEMMA PerformedCases ==
  ASSUME TypeOK, NEW o, Performs(o), NEW id, Performed(id, execs')
  PROVE  Performed(id, execs) \/ id = job[o].id
<1>1. CASE execs' = execs
  BY <1>1
<1>2. CASE execs' # execs
  <2>1. PICK i \in 1 .. Len(execs') : execs'[i].id = id
    BY DEF Performed
  <2>2. i \in 1 .. Len(execs) \/ i = Len(execs) + 1
    BY <1>2, ExecLength DEF Performs
  <2> QED
    BY <1>2, <2>1, <2>2 DEF Performed, Performs
<1> QED
  BY <1>1, <1>2

(* Ids stay within the log.                                                *)
LEMMA BoundedStep ==
  ASSUME TypeInv, Bounded, NEW o \in Operators, Others(o), LogGrows, Performs(o),
         execs' # execs => job[o].id # 0, job'[o].id <= Len(log')
  PROVE  Bounded'
<1>1. /\ Len(log) \in Nat /\ Len(log') \in Nat /\ Len(log) <= Len(log') /\ OperatorType /\ TypeOK
  BY KeptIds, TypeParts DEF TypeInv
<1>2. \A q \in Operators : job[q].id \in Nat
  BY <1>1 DEF OperatorType, Jobs
<1>3. \A q \in Operators : job'[q].id <= Len(log')
  <2>1. \A q \in Operators \ {o} : job'[q].id = job[q].id
    BY DEF Others
  <2> QED
    BY <1>1, <1>2, <2>1 DEF Bounded
<1>4. ASSUME NEW i \in 1 .. Len(execs') PROVE execs'[i].id \in 1 .. Len(log')
  <2>1. Performed(execs'[i].id, execs')
    BY DEF Performed
  <2>2. Performed(execs'[i].id, execs) \/ (execs' # execs /\ execs'[i].id = job[o].id)
    BY <1>1, <2>1, PerformedCases
  <2>3. CASE Performed(execs'[i].id, execs)
    BY <1>1, <2>3 DEF Performed, Bounded
  <2>4. CASE execs' # execs /\ execs'[i].id = job[o].id
    BY <1>1, <1>2, <2>4 DEF Bounded
  <2> QED
    BY <2>2, <2>3, <2>4
<1> QED
  BY <1>3, <1>4 DEF Bounded

(* What another reconcile is about to store stays unknown to everyone else.*)
LEMMA NewPendingStep ==
  ASSUME TypeInv, TypeInv', NewPending, NEW o \in Operators, Others(o), cache' = cache, Performs(o),
         DerivedFrom(obj', o), DerivedFrom(wl'[o], o),
         job'[o].id \in 1 .. Len(log) => job'[o].id = job[o].id \/ Mentions(cache[o], job'[o].id),
         pc'[o] = "commit" /\ wl'[o].pending.id # 0 => Private(o, wl[o].pending.id)'
  PROVE  NewPending'
<1>1. TypeOK
  BY DEF TypeInv
<1>2. ASSUME NEW q \in Operators \ {o}, pc'[q] = "commit", wl'[q].pending.id # 0
      PROVE  Private(q, wl[q].pending.id)'
  <2> DEFINE f == wl[q].pending.id
  <2>1. wl'[q] = wl[q] /\ pc[q] = "commit" /\ f # 0 /\ wl'[q].pending.id = f
    BY <1>2 DEF Others
  <2>2. Private(q, f)
    BY <2>1 DEF NewPending
  <2>3. f \in 1 .. Len(log)
    BY <2>1 DEF TypeInv, Known, KnownIds, HeldId
  <2> HIDE DEF f
  <2>4. ~Performed(f, execs')
    BY <1>1, <2>2, PerformedCases DEF Private
  <2>5. ~Mentions(obj, f) /\ ~Mentions(cache[o], f) /\ ~Mentions(wl[o], f)
    BY <2>2 DEF Private
  <2>6. ~Mentions(obj', f) /\ ~Mentions(wl'[o], f)
    BY <2>3, <2>5 DEF DerivedFrom
  <2>7. job'[o].id # f
    BY <2>2, <2>3, <2>5 DEF Private
  <2>8. \A p \in Operators : job'[p].id # f /\ ~Mentions(cache'[p], f)
    BY <2>2, <2>7 DEF Private, Others
  <2>9. \A p \in Operators : p # q => ~Mentions(wl'[p], f)
    BY <2>2, <2>6 DEF Private, Others
  <2>10. /\ ~Performed(wl'[q].pending.id, execs') /\ ~Mentions(obj', wl'[q].pending.id)
         /\ \A p \in Operators : /\ job'[p].id # wl'[q].pending.id
                                 /\ ~Mentions(cache'[p], wl'[q].pending.id)
                                 /\ p # q => ~Mentions(wl'[p], wl'[q].pending.id)
    BY <2>1, <2>4, <2>6, <2>8, <2>9
  <2> QED
    BY <2>10 DEF Private, Performed, Mentions
<1> QED
  BY <1>2 DEF NewPending

(* An action that stays open stays unperformed.                            *)
LEMMA OpenStep ==
  ASSUME TypeInv, TypeInv', OpenIsUnperformed, NEW o, Performs(o),
         Open(obj') => Open(obj) /\ obj'.pending.id = obj.pending.id,
         execs' # execs /\ Open(obj) => job[o].id # obj.pending.id,
         \A q \in Operators : pc'[q] = "run" => pc[q] = "run" /\ job'[q].id = job[q].id
  PROVE  OpenIsUnperformed'
<1>1. TypeOK
  BY DEF TypeInv
<1>2. ASSUME Open(obj') PROVE ~Performed(obj'.pending.id, execs')
  <2>1. ~Performed(obj.pending.id, execs) /\ obj'.pending.id = obj.pending.id /\ Open(obj)
    BY <1>2 DEF OpenIsUnperformed
  <2>2. CASE execs' = execs
    BY <2>1, <2>2 DEF Performed
  <2>3. CASE execs' # execs
    <3>1. ~Performed(obj.pending.id, execs')
      BY <1>1, <2>1, <2>3, PerformedCases
    <3> QED
      BY <2>1, <3>1 DEF Performed
  <2> QED
    BY <2>2, <2>3
<1>3. Open(obj)' => Open(obj')
  BY DEF Open, approvalConsumed
<1> QED
  BY <1>2, <1>3 DEF OpenIsUnperformed, Performed

(* A reconcile comes to execute only what nobody else does.                *)
LEMMA ExclusiveStep ==
  ASSUME TypeInv, Exclusive, NEW o \in Operators, Others(o), Performs(o),
         execs' # execs => Executing(o) /\ pc'[o] = "commit",
         pc'[o] \in {"reserve", "execute", "run"} =>
           \/ Executing(o) /\ job'[o].id = job[o].id
           \/ /\ ~Performed(job'[o].id, execs')
              /\ \A q \in Operators : Executing(q) /\ q # o => job[q].id # job'[o].id
  PROVE  Exclusive'
<1> DEFINE Ex(q) == pc'[q] \in {"reserve", "execute", "run"}
<1>1. TypeOK
  BY DEF TypeInv
<1>2. ASSUME NEW q \in Operators \ {o}, Ex(q)
      PROVE  /\ Executing(q) /\ job'[q].id = job[q].id /\ ~Performed(job'[q].id, execs')
             /\ Executing(o) => job[q].id # job[o].id
  <2>1. Executing(q) /\ job'[q].id = job[q].id
    BY <1>2 DEF Others, Executing
  <2>2. ~Performed(job[q].id, execs) /\ (Executing(o) => job[q].id # job[o].id)
    BY <2>1 DEF Exclusive
  <2>3. execs' # execs => job[q].id # job[o].id
    BY <2>2
  <2>4. ~Performed(job[q].id, execs')
    BY <1>1, <2>2, <2>3, PerformedCases
  <2> QED
    BY <2>1, <2>2, <2>4
<1>3. ASSUME Ex(o) PROVE ~Performed(job'[o].id, execs')
  <2>1. execs' = execs
    BY <1>3
  <2> QED
    BY <1>3, <2>1 DEF Exclusive
<1>4. ASSUME NEW q \in Operators \ {o}, Ex(q), Ex(o) PROVE job'[q].id # job'[o].id
  BY <1>2, <1>4
<1>5. ASSUME NEW q \in Operators \ {o}, NEW p \in Operators \ {o}, Ex(q), Ex(p), p # q
      PROVE  job'[p].id # job'[q].id
  BY <1>2, <1>5 DEF Exclusive
<1>6. \A q \in Operators : Ex(q) =>
        /\ ~Performed(job'[q].id, execs')
        /\ \A p \in Operators : Ex(p) /\ p # q => job'[p].id # job'[q].id
  BY <1>2, <1>3, <1>4, <1>5
<1> QED
  BY <1>6 DEF Exclusive, Executing, Performed

(* An execution is added only for a job not yet performed.                 *)
LEMMA OnceStep ==
  ASSUME TypeInv, TypeInv', AtMostOncePerDecision, NEW o, Performs(o),
         execs' # execs => ~Performed(job[o].id, execs)
  PROVE  AtMostOncePerDecision'
<1>1. Len(execs) \in Nat /\ DOMAIN execs = 1 .. Len(execs)
  BY ExecLength DEF TypeInv
<1>2. DOMAIN execs' = 1 .. Len(execs')
  <2>1. \A S : \A x \in Seq(S) : DOMAIN x = 1 .. Len(x)
    OBVIOUS
  <2> QED
    BY <2>1 DEF TypeInv, TypeOK
<1>3. CASE execs' = execs
  BY <1>3 DEF AtMostOncePerDecision, Executions
<1>4. CASE execs' # execs
  <2>1. /\ Len(execs') = Len(execs) + 1
        /\ \A i \in 1 .. Len(execs) : execs'[i].id = execs[i].id
        /\ execs'[Len(execs) + 1].id = job[o].id
    BY <1>4 DEF Performs
  <2>2. \A i \in 1 .. Len(execs) : execs[i].id # job[o].id
    BY <1>4 DEF Performed
  <2>3. ASSUME NEW i \in 1 .. Len(execs'), NEW k \in 1 .. Len(execs'), execs'[i].id = execs'[k].id
        PROVE  i = k
    <3>1. /\ i \in 1 .. Len(execs) \/ i = Len(execs) + 1
          /\ k \in 1 .. Len(execs) \/ k = Len(execs) + 1
      BY <1>1, <2>1
    <3> QED
      BY <1>1, <2>1, <2>2, <2>3, <3>1 DEF AtMostOncePerDecision, Executions
  <2> QED
    BY <1>2, <2>3 DEF AtMostOncePerDecision, Executions
<1> QED
  BY <1>3, <1>4

(* A step of the reconcile of o that executes nothing and does not get it  *)
(* any closer to executing.                                                *)
LEMMA QuietStep ==
  ASSUME TypeInv, TypeInv', OnceInv, NEW o \in Operators, Others(o), cache' = cache, LogGrows,
         execs' = execs, ObjectMoves, DerivedFrom(obj', o), DerivedFrom(wl'[o], o),
         pc'[o] \in {"reserve", "receipt", "mark"} => VersionOf(wl[o])',
         pc'[o] \in {"receipt", "mark"} => wl'[o].pending.state = "Recording" /\ Open(wl'[o]),
         pc'[o] = "commit" => wl'[o].pending.id = 0,
         pc'[o] \in {"reserve", "execute", "run"} => Executing(o) /\ pc'[o] # "run",
         job'[o].id \in {0, job[o].id, cache[o].pending.id} /\ job'[o].id <= Len(log'),
         pc'[o] \in {"reserve", "execute", "run"} => job'[o].id = job[o].id,
         Open(obj') => Open(obj) /\ obj'.pending.id = obj.pending.id
  PROVE  OnceInv'
<1>1. Performs(o)
  BY DEF Performs
<1>2. Versions'
  BY VersionsStep DEF OnceInv
<1>3. Recorded'
  BY RecordedStep DEF OnceInv
<1>4. Bounded'
  BY <1>1, BoundedStep DEF OnceInv
<1>5. NewPending'
  BY <1>1, NewPendingStep DEF OnceInv, Mentions
<1>6. OpenIsUnperformed'
  <2>1. \A q \in Operators : pc'[q] = "run" => pc[q] = "run" /\ job'[q].id = job[q].id
    BY DEF Others
  <2> QED
    BY <1>1, <2>1, OpenStep DEF OnceInv
<1>7. Exclusive'
  BY <1>1, ExclusiveStep DEF OnceInv
<1>8. AtMostOncePerDecision'
  BY <1>1, OnceStep DEF OnceInv
<1> QED
  BY <1>2, <1>3, <1>4, <1>5, <1>6, <1>7, <1>8 DEF OnceInv

(* A write of the object alone.                                            *)
LEMMA ObjectOnce ==
  ASSUME TypeInv, TypeInv', OnceInv, UNCHANGED <<opVars, log, execs>>, ObjectMoves,
         \A id \in 1 .. Len(log) :
           Mentions(obj', id) => Mentions(obj, id) \/ \E q \in Operators : Mentions(cache[q], id),
         Open(obj') => Open(obj) /\ obj'.pending.id = obj.pending.id
  PROVE  OnceInv'
<1>1. obj \in Objects /\ obj' \in Objects /\ OperatorType
  BY TypeParts DEF TypeInv, TypeOK
<1>2. Versions'
  <2>1. ASSUME NEW w \in Objects, VersionOf(w)
        PROVE  w.rv <= obj'.rv /\ (w.rv = obj'.rv => w = obj')
    BY <1>1, <2>1 DEF VersionOf, ObjectMoves, Objects
  <2>2. \A q \in Operators : cache[q] \in Objects /\ wl[q] \in Objects
    BY <1>1 DEF OperatorType
  <2> QED
    BY <2>1, <2>2 DEF OnceInv, Versions, VersionOf, opVars
<1>3. Recorded' /\ Bounded' /\ Exclusive' /\ AtMostOncePerDecision'
  BY DEF OnceInv, Recorded, Open, approvalConsumed, Bounded, Exclusive, Executing,
         AtMostOncePerDecision, Executions, opVars
<1>4. NewPending'
  <2>1. ASSUME NEW q \in Operators, pc[q] = "commit", wl[q].pending.id # 0
        PROVE  Private(q, wl[q].pending.id) /\ ~Mentions(obj', wl[q].pending.id)
    <3>1. Private(q, wl[q].pending.id)
      BY <2>1 DEF OnceInv, NewPending
    <3>2. wl[q].pending.id \in 1 .. Len(log)
      BY <2>1 DEF TypeInv, Known, KnownIds, HeldId
    <3> QED
      BY <3>1, <3>2 DEF Private
  <2> QED
    BY <2>1 DEF NewPending, Private, Mentions, opVars
<1>5. OpenIsUnperformed'
  BY DEF OnceInv, OpenIsUnperformed, Open, approvalConsumed, opVars
<1> QED
  BY <1>2, <1>3, <1>4, <1>5 DEF OnceInv

-----------------------------------------------------------------------------
(* At most once: the actions.                                              *)

(* A copy of the stored version is the stored object.                      *)
LEMMA FreshIsObject ==
  ASSUME OnceInv, NEW o \in Operators
  PROVE  /\ Fresh(cache[o]) => cache[o] = obj
         /\ pc[o] \in {"reserve", "receipt", "mark"} /\ Fresh(wl[o]) => wl[o] = obj
BY DEF OnceInv, Versions, VersionOf, Fresh

(* What Open reads.                                                        *)
LEMMA OpenFrame ==
  ASSUME NEW w, NEW v, w.pending = v.pending, w.last = v.last, w.consumed = v.consumed
  PROVE  Open(w) => Open(v)
BY DEF Open, approvalConsumed

(* Failed gates and proposals, and holds, change nothing that matters here.*)
LEMMA IdleOnce ==
  ASSUME TypeInv, TypeInv', OnceInv, NEW o \in Operators,
         GateFails(o) \/ ProposeFails(o) \/ HoldReplay(o) \/ HoldUnverified(o)
  PROVE  OnceInv'
<1>1. PICK new \in Objects :
        /\ Writes(new) /\ new.rv = cache[o].rv /\ new.pending = cache[o].pending
        /\ new.last = cache[o].last /\ new.consumed = cache[o].consumed
  BY IdleWrites
<1>2. UNCHANGED <<opVars, log, execs>>
  BY IdleWrites
<1>3. obj \in Objects
  BY TypeParts DEF TypeInv
<1>4. /\ ObjectMoves /\ obj'.pending = obj.pending /\ obj'.last = obj.last
      /\ obj'.consumed = obj.consumed
  <2>1. CASE obj' = obj
    BY <2>1 DEF ObjectMoves
  <2>2. CASE obj' # obj
    <3>1. Fresh(cache[o])
      BY <1>1, <1>3, <2>2, WritesMove DEF Fresh
    <3> QED
      BY <1>1, <1>3, <2>2, <3>1, WritesMove, FreshIsObject
  <2> QED
    BY <2>1, <2>2
<1> QED
  BY <1>2, <1>4, ObjectOnce, OpenFrame DEF Mentions

(* A copy with no pending action is not open.                              *)
LEMMA NotOpen ==
  ASSUME NEW w, w.pending = NoPending
  PROVE  ~Open(w)
<1>1. NoPending.id = 0
  BY DEF NoPending
<1> QED
  BY <1>1 DEF Open

(* An action left Executing is consumed, not run again.                    *)
LEMMA FinishUnknownOnce ==
  ASSUME TypeInv, TypeInv', OnceInv, NEW o \in Operators, FinishUnknown(o)
  PROVE  OnceInv'
<1> DEFINE new == finishApproval(cache[o], "Failed")
<1>1. obj \in Objects /\ cache[o] \in Objects /\ "Failed" \in Phases
  BY TypeParts DEF TypeInv, OperatorType, Phases
<1>2. /\ new \in Objects /\ new.pending = NoPending /\ Writes(new)
      /\ \A id : Mentions(new, id) => id = 0 \/ Mentions(cache[o], id)
  BY <1>1, FinishType, FinishMentions, FinishUnknownType
<1>3. UNCHANGED <<opVars, log, execs>>
  BY DEF FinishUnknown
<1> HIDE DEF new
<1>4. /\ ObjectMoves
      /\ obj' = obj \/ (obj'.pending = new.pending /\ obj'.consumed = new.consumed)
  BY <1>1, <1>2, WritesMove
<1>5. Open(obj') => obj' = obj
  BY <1>2, <1>4, NotOpen
<1>6. \A id \in 1 .. Len(log) :
        Mentions(obj', id) => Mentions(obj, id) \/ \E q \in Operators : Mentions(cache[q], id)
  BY <1>2, <1>4 DEF Mentions
<1> QED
  BY <1>3, <1>4, <1>5, <1>6, ObjectOnce

(* Clients open no action; a restored one was consumed.                    *)
LEMMA ClientOnce ==
  ASSUME TypeInv, TypeInv', OnceInv, Client
  PROVE  OnceInv'
<1>1. CASE ~RestorePending
  <2>1. /\ obj' = obj \/ obj'.rv = obj.rv + 1
        /\ obj'.pending = obj.pending /\ obj'.last = obj.last /\ obj'.consumed = obj.consumed
        /\ UNCHANGED <<opVars, log, execs>>
    BY <1>1, ClientEffect
  <2> QED
    BY <2>1, ObjectOnce, OpenFrame DEF Mentions, ObjectMoves
<1>2. CASE RestorePending
  <2>1. /\ obj'.rv = obj.rv + 1 /\ obj'.consumed = obj.consumed
        /\ \E i \in 1 .. Len(obj.consumed) : obj'.pending.id = obj.consumed[i]
        /\ UNCHANGED <<opVars, log, execs>>
    BY <1>2, RestoreEffect
  <2>2. ~Open(obj')
    BY <2>1 DEF Open, approvalConsumed
  <2> QED
    BY <2>1, <2>2, ObjectOnce DEF Mentions, ObjectMoves
<1> QED
  BY <1>1, <1>2

(* A step that ends the reconcile of o and writes at most a copy of what   *)
(* it worked on.                                                           *)
LEMMA EndOnce ==
  ASSUME TypeInv, TypeInv', OnceInv, NEW o \in Operators, EndReconcile(o),
         UNCHANGED <<cache, log, execs>>, ObjectMoves, DerivedFrom(obj', o),
         Open(obj') => Open(obj) /\ obj'.pending.id = obj.pending.id
  PROVE  OnceInv'
<1>1. Others(o) /\ pc'[o] = "idle" /\ job'[o] = NoJob /\ wl'[o] = NoObject
  BY EndStep
<1>2. NoJob.id = 0 /\ NoPending.id = 0 /\ NoObject.pending = NoPending /\ NoObject.consumed = <<>>
  BY DEF NoJob, NoPending, NoObject
<1>3. DerivedFrom(wl'[o], o) /\ LogGrows
  BY <1>1, <1>2 DEF DerivedFrom, Mentions, LogGrows
<1>4. job'[o].id = 0 /\ 0 <= Len(log')
  BY <1>1, <1>2, <1>3, KeptIds, TypeParts DEF TypeInv
<1> QED
  BY <1>1, <1>3, <1>4, QuietStep

(* A crash forgets, and executes nothing.                                  *)
LEMMA CrashOnce ==
  ASSUME TypeInv, TypeInv', OnceInv, NEW o \in Operators, Crash(o)
  PROVE  OnceInv'
<1>1. obj' = obj /\ EndReconcile(o) /\ UNCHANGED <<cache, log, execs>>
  BY DEF Crash
<1> QED
  BY <1>1, EndOnce DEF ObjectMoves, DerivedFrom

(* A reservation changes the version only.                                 *)
LEMMA ReserveOnce ==
  ASSUME TypeInv, TypeInv', OnceInv, NEW o \in Operators, ReserveExecution(o)
  PROVE  OnceInv'
<1>1. /\ pc[o] = "reserve" /\ Writes(wl[o]) /\ Others(o)
      /\ UNCHANGED <<cache, log, execs>>
  BY ReserveEffect
<1>2. obj \in Objects /\ wl[o] \in Objects
  BY TypeParts DEF TypeInv, OperatorType
<1>3. /\ ObjectMoves /\ obj'.pending = obj.pending /\ obj'.last = obj.last
      /\ obj'.consumed = obj.consumed
  BY <1>1, <1>2, WritesMove, FreshIsObject DEF Fresh
<1>4. Open(obj') => Open(obj) /\ obj'.pending.id = obj.pending.id
  BY <1>3, OpenFrame
<1>5. DerivedFrom(obj', o)
  BY <1>3 DEF DerivedFrom, Mentions
<1>6. CASE EndReconcile(o)
  BY <1>1, <1>3, <1>4, <1>5, <1>6, EndOnce
<1>7. CASE pc'[o] = "execute" /\ wl'[o] = obj' /\ job'[o].id = job[o].id
  <2>1. job[o].id <= Len(log') /\ LogGrows
    BY <1>1 DEF OnceInv, Bounded, LogGrows
  <2> QED
    BY <1>1, <1>3, <1>4, <1>5, <1>7, <2>1, QuietStep DEF Executing
<1> QED
  BY <1>6, <1>7, ReserveEffect

(* After a failed receipt the action is open again, as it was before.      *)
LEMMA HoldReceiptOnce ==
  ASSUME TypeInv, TypeInv', OnceInv, NEW o \in Operators, HoldReceiptFailed(o)
  PROVE  OnceInv'
<1>1. PICK new \in Objects :
              /\ Writes(new) /\ new.rv = wl[o].rv /\ new.pending.id = wl[o].pending.id
              /\ new.last = wl[o].last /\ new.consumed = wl[o].consumed
  BY HoldReceiptEffect
<1>2. pc[o] = "receipt" /\ EndReconcile(o) /\ UNCHANGED <<cache, log, execs>>
  BY HoldReceiptEffect
<1>3. obj \in Objects
  BY TypeParts DEF TypeInv
<1>4. /\ ObjectMoves
      /\ \/ obj' = obj
         \/ /\ new.rv = obj.rv /\ obj'.pending = new.pending
            /\ obj'.last = new.last /\ obj'.consumed = new.consumed
  BY <1>1, <1>3, WritesMove
<1>5. obj' # obj => /\ wl[o] = obj /\ obj'.pending.id = obj.pending.id
                    /\ Open(obj)
  BY <1>1, <1>2, <1>4, FreshIsObject DEF Fresh, OnceInv, Recorded
<1>6. DerivedFrom(obj', o)
  BY <1>1, <1>4 DEF DerivedFrom, Mentions
<1> QED
  BY <1>2, <1>4, <1>5, <1>6, EndOnce

(* The intent is recorded on the stored version, where the action is open. *)
LEMMA RecordOnce ==
  ASSUME TypeInv, TypeInv', OnceInv, NEW o \in Operators, RecordIntent(o)
  PROVE  OnceInv'
<1>1. /\ pc[o] = "idle" /\ Undecided(cache[o]) /\ Fresh(cache[o])
      /\ pc'[o] = "receipt" /\ wl'[o] = obj' /\ Others(o)
      /\ UNCHANGED <<cache, log, execs>> /\ job'[o].id = cache[o].pending.id
  BY RecordEffect
<1>2. PICK new \in Objects :
              /\ Writes(new) /\ new.pending.id = cache[o].pending.id
              /\ new.last = cache[o].last /\ new.consumed = cache[o].consumed
              /\ obj'.pending = new.pending /\ new.pending.state = "Recording"
              /\ obj'.last = new.last /\ obj'.consumed = new.consumed
  BY RecordEffect
<1>3. obj \in Objects /\ ObjectMoves
  BY <1>2, WritesMove, TypeParts DEF TypeInv
<1>4. cache[o] = obj /\ Open(obj)
  BY <1>1, FreshIsObject DEF Undecided, OnApprovalPath, Open
<1>5. /\ obj'.pending.id = obj.pending.id /\ obj'.pending.state = "Recording" /\ Open(obj')
      /\ DerivedFrom(obj', o)
  BY <1>2, <1>4 DEF Open, approvalConsumed, DerivedFrom, Mentions
<1>6. LogGrows /\ VersionOf(wl[o])'
  <2>1. obj'.rv <= obj'.rv
    <3>1. obj' \in Objects
      BY DEF TypeInv, TypeOK
    <3>2. obj'.rv \in Nat
      BY <3>1 DEF Objects
    <3> QED
      BY <3>2
  <2> QED
    BY <1>1, <2>1 DEF LogGrows, VersionOf
<1>7. obj.pending.id <= Len(log')
  <2>1. HeldId(obj.pending.id, log) /\ Len(log) \in Nat
    BY <1>4, TypeParts DEF TypeInv, Known, KnownIds, Open
  <2> QED
    BY <1>1, <2>1 DEF HeldId
<1> QED
  BY <1>1, <1>3, <1>4, <1>5, <1>6, <1>7, QuietStep

(* The human receipt executes nothing.                                     *)
LEMMA ReceiptOnce ==
  ASSUME TypeInv, TypeInv', OnceInv, NEW o \in Operators, HumanReceipt(o)
  PROVE  OnceInv'
<1>1. /\ pc[o] = "receipt" /\ Others(o) /\ LogGrows
      /\ UNCHANGED <<obj, cache, job, execs>>
      /\ \/ /\ pc'[o] = "commit"
            /\ \E phase \in Phases : wl'[o] = finishApproval(wl[o], phase)
         \/ pc'[o] = "mark" /\ wl'[o] = wl[o]
  BY HumanReceiptEffect
<1>2. wl[o] \in Objects /\ job[o] \in Jobs /\ log \in Seq(Entries)
  BY TypeParts DEF TypeInv, OperatorType
<1>3. job'[o].id = job[o].id /\ job'[o].id <= Len(log')
  <2>1. /\ job[o].id \in Nat /\ job[o].id <= Len(log)
        /\ Len(log) \in Nat /\ Len(log') \in Nat /\ Len(log) <= Len(log')
    BY <1>1, <1>2, KeptIds DEF OnceInv, Bounded, Jobs
  <2> QED
    BY <1>1, <2>1
<1>4. ObjectMoves /\ DerivedFrom(obj', o)
  BY <1>1 DEF ObjectMoves, DerivedFrom
<1>5. CASE pc'[o] = "commit" /\ \E phase \in Phases : wl'[o] = finishApproval(wl[o], phase)
  <2>1. NoPending.id = 0
    BY DEF NoPending
  <2>2. wl'[o].pending.id = 0 /\ DerivedFrom(wl'[o], o)
    BY <1>2, <1>5, <2>1, FinishType, FinishMentions DEF DerivedFrom
  <2> QED
    BY <1>1, <1>3, <1>4, <1>5, <2>2, QuietStep
<1>6. CASE pc'[o] = "mark" /\ wl'[o] = wl[o]
  <2>1. /\ VersionOf(wl[o])' /\ DerivedFrom(wl'[o], o)
        /\ wl'[o].pending.state = "Recording" /\ Open(wl'[o])
    BY <1>1, <1>6 DEF OnceInv, Versions, VersionOf, Recorded, DerivedFrom
  <2> QED
    BY <1>1, <1>3, <1>4, <1>6, <2>1, QuietStep
<1> QED
  BY <1>1, <1>5, <1>6

(* Nothing runs both on the direct path and on the approval path.          *)
LEMMA PathsDiffer ==
  ASSUME TypeInv, NEW q \in Operators, pc[q] \in {"reserve", "execute"}
  PROVE  /\ job[q].id # 0
         /\ \A id : HeldId(id, log) => id # job[q].id
BY DEF TypeInv, Known, Carries, AllowedId, HeldId

(* MarkExecuting closes the action: from then on only o may run it.        *)
LEMMA MarkOnce ==
  ASSUME TypeInv, TypeInv', OnceInv, NEW o \in Operators, MarkExecuting(o)
  PROVE  OnceInv'
<1>1. /\ pc[o] = "mark" /\ Others(o) /\ UNCHANGED <<cache, log, execs>> /\ Performs(o) /\ LogGrows
  BY MarkEffect DEF Performs, LogGrows
<1>2. CASE EndReconcile(o) /\ obj' = obj
  BY <1>1, <1>2, EndOnce DEF ObjectMoves, DerivedFrom
<1>3. CASE /\ Fresh(wl[o]) /\ pc'[o] = "run" /\ wl'[o] = obj' /\ job'[o].id = job[o].id
           /\ \E new \in Objects :
                /\ Writes(new) /\ new.pending.id = wl[o].pending.id
                /\ new.pending.state = "Executing" /\ obj'.pending = new.pending
                /\ new.last = wl[o].last /\ new.consumed = wl[o].consumed
  <2>1. PICK new \in Objects :
                /\ Writes(new) /\ new.pending.id = wl[o].pending.id
                /\ new.pending.state = "Executing" /\ obj'.pending = new.pending
                /\ new.last = wl[o].last /\ new.consumed = wl[o].consumed
    BY <1>3
  <2>2. obj \in Objects
    BY TypeParts DEF TypeInv
  <2>3. wl[o] = obj /\ Open(obj)
    BY <1>1, <1>3, FreshIsObject DEF OnceInv, Recorded
  <2>4. job[o].id = obj.pending.id /\ HeldId(job[o].id, log)
    BY <1>1, <2>3 DEF TypeInv, Known, Carries, KnownIds
  <2>5. ObjectMoves /\ obj'.consumed = obj.consumed /\ obj'.pending.id = obj.pending.id
    BY <2>1, <2>2, <2>3, WritesMove
  <2>6. DerivedFrom(obj', o) /\ ~Open(obj')
    BY <2>1, <2>5 DEF DerivedFrom, Mentions, Open
  <2>7. Versions' /\ Recorded'
    BY <1>1, <1>3, <2>5, VersionsStep, RecordedStep DEF OnceInv
  <2>8. Bounded'
    BY <1>1, <1>3, BoundedStep DEF OnceInv, Bounded
  <2>9. NewPending'
    BY <1>1, <1>3, <2>6, NewPendingStep DEF OnceInv
  <2>10. OpenIsUnperformed'
    BY <2>6 DEF OpenIsUnperformed, Open, approvalConsumed
  <2>11. /\ ~Performed(job'[o].id, execs')
         /\ \A q \in Operators : Executing(q) /\ q # o => job[q].id # job'[o].id
    BY <1>1, <1>3, <2>3, <2>4, PathsDiffer DEF OnceInv, OpenIsUnperformed, Executing
  <2>12. Exclusive'
    BY <1>1, <2>11, ExclusiveStep DEF OnceInv
  <2>13. AtMostOncePerDecision'
    BY <1>1, OnceStep DEF OnceInv
  <2> QED
    BY <2>7, <2>8, <2>9, <2>10, <2>12, <2>13 DEF OnceInv
<1> QED
  BY <1>2, <1>3, MarkEffect

(* The two calls: the job of o is executed, once.                          *)
LEMMA CallOnce ==
  ASSUME TypeInv, TypeInv', OnceInv, NEW o \in Operators, Others(o), Performs(o),
         UNCHANGED <<obj, cache, log>>, Executing(o), pc'[o] = "commit",
         wl'[o].pending.id = 0, DerivedFrom(wl'[o], o), job'[o].id \in {0, job[o].id},
         job[o].id # 0, Open(obj) => job[o].id # obj.pending.id
  PROVE  OnceInv'
<1>1. ObjectMoves /\ DerivedFrom(obj', o) /\ LogGrows
  BY DEF ObjectMoves, DerivedFrom, LogGrows
<1>2. job'[o].id <= Len(log')
  <2>1. Len(log) \in Nat /\ job[o].id <= Len(log)
    BY TypeParts DEF OnceInv, Bounded, TypeInv
  <2> QED
    BY <2>1
<1>3. Versions' /\ Recorded'
  BY <1>1, VersionsStep, RecordedStep DEF OnceInv
<1>4. Bounded'
  BY <1>1, <1>2, BoundedStep DEF OnceInv
<1>5. NewPending'
  BY <1>1, NewPendingStep DEF OnceInv
<1>6. OpenIsUnperformed'
  <2>1. \A q \in Operators : pc'[q] = "run" => pc[q] = "run" /\ job'[q].id = job[q].id
    BY DEF Others
  <2> QED
    BY <2>1, OpenStep DEF OnceInv
<1>7. Exclusive'
  BY ExclusiveStep DEF OnceInv
<1>8. AtMostOncePerDecision'
  BY OnceStep DEF OnceInv, Exclusive
<1> QED
  BY <1>3, <1>4, <1>5, <1>6, <1>7, <1>8 DEF OnceInv

(* The call of the direct path.                                            *)
LEMMA ExecuteOnce ==
  ASSUME TypeInv, TypeInv', OnceInv, NEW o \in Operators, ExecuteAllowed(o)
  PROVE  OnceInv'
<1>1. /\ pc[o] = "execute" /\ pc'[o] = "commit" /\ job'[o] = NoJob /\ Others(o)
      /\ UNCHANGED <<obj, cache, log>>
      /\ wl'[o].pending = NoPending /\ wl'[o].consumed = wl[o].consumed
      /\ \E res \in Calls : Ran(o, res)
  BY ExecuteEffect
<1>2. job[o].action \in Actions
  BY <1>1 DEF TypeInv, Known, Carries
<1>3. Performs(o)
  BY <1>1, <1>2, RanEffect DEF Performs
<1>4. NoPending.id = 0 /\ NoJob.id = 0
  BY DEF NoPending, NoJob
<1>5. DerivedFrom(wl'[o], o)
  BY <1>1, <1>4 DEF DerivedFrom, Mentions
<1>6. job[o].id # 0 /\ (Open(obj) => job[o].id # obj.pending.id)
  BY <1>1, PathsDiffer DEF TypeInv, Known, KnownIds, Open
<1> QED
  BY <1>1, <1>3, <1>4, <1>5, <1>6, CallOnce DEF Executing

(* The call of the approval path.                                          *)
LEMMA RunOnce ==
  ASSUME TypeInv, TypeInv', OnceInv, NEW o \in Operators, RunApproved(o)
  PROVE  OnceInv'
<1>1. /\ pc[o] = "run" /\ pc'[o] = "commit" /\ Others(o) /\ UNCHANGED <<obj, cache, job, log>>
      /\ \E phase \in Phases : wl'[o] = finishApproval(wl[o], phase)
      /\ \E res \in Calls : Ran(o, res)
  BY RunEffect
<1>2. job[o].action \in Actions /\ job[o].id # 0 /\ wl[o] \in Objects
  BY <1>1, TypeParts DEF TypeInv, Known, Carries, OperatorType
<1>3. Performs(o)
  BY <1>1, <1>2, RanEffect DEF Performs
<1>4. NoPending.id = 0
  BY DEF NoPending
<1>5. wl'[o].pending.id = 0 /\ DerivedFrom(wl'[o], o)
  BY <1>1, <1>2, <1>4, FinishType, FinishMentions DEF DerivedFrom
<1>6. Open(obj) => job[o].id # obj.pending.id
  BY <1>1 DEF OnceInv, OpenIsUnperformed
<1> QED
  BY <1>1, <1>2, <1>3, <1>5, <1>6, CallOnce DEF Executing

(* The last write of a reconcile: no pending action, or one that only this *)
(* reconcile knew of.                                                      *)
LEMMA CommitOnce ==
  ASSUME TypeInv, TypeInv', OnceInv, NEW o \in Operators, Commit(o)
  PROVE  OnceInv'
<1>1. /\ pc[o] = "commit" /\ Writes(wl[o]) /\ EndReconcile(o) /\ UNCHANGED <<cache, log, execs>>
  BY CommitEffect
<1>2. obj \in Objects /\ wl[o] \in Objects /\ log \in Seq(Entries)
  BY TypeParts DEF TypeInv, OperatorType
<1>3. /\ ObjectMoves
      /\ obj' = obj \/ (obj'.pending = wl[o].pending /\ obj'.consumed = wl[o].consumed)
  BY <1>1, <1>2, WritesMove
<1>4. DerivedFrom(obj', o)
  BY <1>3 DEF DerivedFrom, Mentions
<1>5. CASE obj' = obj
  BY <1>1, <1>3, <1>4, <1>5, EndOnce
<1>6. CASE obj'.pending = wl[o].pending
  <2>1. Others(o) /\ pc'[o] = "idle" /\ job'[o] = NoJob /\ wl'[o] = NoObject
    BY <1>1, EndStep
  <2>2. NoJob.id = 0 /\ NoPending.id = 0 /\ NoObject.pending = NoPending /\ NoObject.consumed = <<>>
    BY DEF NoJob, NoPending, NoObject
  <2>3. DerivedFrom(wl'[o], o) /\ LogGrows /\ Performs(o)
    BY <1>1, <2>1, <2>2 DEF DerivedFrom, Mentions, LogGrows, Performs
  <2>4. job'[o].id = 0 /\ 0 <= Len(log')
    BY <1>1, <1>2, <2>1, <2>2
  <2>5. Versions' /\ Recorded'
    BY <1>1, <1>3, <2>1, VersionsStep, RecordedStep DEF OnceInv
  <2>6. Bounded'
    BY <1>1, <2>1, <2>3, <2>4, BoundedStep DEF OnceInv
  <2>7. NewPending'
    BY <1>1, <1>4, <2>1, <2>3, <2>4, NewPendingStep DEF OnceInv
  <2>8. ASSUME Open(obj')
        PROVE  /\ ~Performed(obj'.pending.id, execs')
               /\ \A q \in Operators : pc'[q] = "run" => job'[q].id # obj'.pending.id
    <3>1. Private(o, obj'.pending.id)
      BY <1>1, <1>6, <2>8 DEF OnceInv, NewPending, Open
    <3> QED
      BY <1>1, <2>1, <3>1 DEF Private, Others
  <2>9. OpenIsUnperformed'
    BY <2>8 DEF OpenIsUnperformed, Open, approvalConsumed
  <2>10. Exclusive'
    BY <1>1, <2>1, <2>3, ExclusiveStep DEF OnceInv
  <2>11. AtMostOncePerDecision'
    BY <1>1, <2>3, OnceStep DEF OnceInv
  <2> QED
    BY <2>5, <2>6, <2>7, <2>9, <2>10, <2>11 DEF OnceInv
<1> QED
  BY <1>3, <1>5, <1>6

(* The id of a new decision is known to nobody.                            *)
LEMMA NewId ==
  ASSUME TypeInv, OnceInv
  PROVE  /\ Len(log) + 1 \in Nat /\ Len(log) + 1 # 0
         /\ ~Performed(Len(log) + 1, execs) /\ ~Mentions(obj, Len(log) + 1)
         /\ \A q \in Operators : /\ job[q].id # Len(log) + 1
                                 /\ ~Mentions(cache[q], Len(log) + 1)
                                 /\ ~Mentions(wl[q], Len(log) + 1)
<1>1. Len(log) \in Nat
  BY TypeParts DEF TypeInv
<1>2. \A w : KnownIds(w, log) => ~Mentions(w, Len(log) + 1)
  BY <1>1 DEF KnownIds, HeldId, Mentions
<1>3. ~Performed(Len(log) + 1, execs)
  BY <1>1 DEF OnceInv, Bounded, Performed
<1>4. \A q \in Operators : job[q].id # Len(log) + 1
  BY <1>1 DEF OnceInv, Bounded
<1> QED
  BY <1>1, <1>2, <1>3, <1>4 DEF TypeInv, Known

(* A new decision is carried, or about to be stored, by its reconcile only.*)
LEMMA ProposeOnce ==
  ASSUME TypeInv, TypeInv', OnceInv, NEW o \in Operators, ProposeAndDecide(o)
  PROVE  OnceInv'
<1> DEFINE n == Len(log) + 1
<1>1. /\ pc[o] = "idle" /\ Others(o) /\ LogGrows /\ Len(log') = n
      /\ UNCHANGED <<obj, cache, execs>>
      /\ \/ pc'[o] = "reserve" /\ wl'[o] = cache[o] /\ job'[o].id = n
         \/ /\ pc'[o] = "commit" /\ job'[o] = NoJob /\ wl'[o].consumed = cache[o].consumed
            /\ wl'[o].pending = NoPending \/ wl'[o].pending.id = n
  BY ProposeType
<1>2. NoJob.id = 0 /\ NoPending.id = 0 /\ Len(log) \in Nat
  BY TypeParts DEF NoJob, NoPending, TypeInv
<1>3. Performs(o) /\ ObjectMoves /\ DerivedFrom(obj', o)
  BY <1>1 DEF Performs, ObjectMoves, DerivedFrom
<1>4. DerivedFrom(wl'[o], o)
  BY <1>1, <1>2 DEF DerivedFrom, Mentions
<1>5. job'[o].id \in {0, n}
  BY <1>1, <1>2
<1>6. Versions'
  <2>1. pc'[o] \in {"reserve", "receipt", "mark"} => VersionOf(wl[o])'
    BY <1>1 DEF OnceInv, Versions, VersionOf
  <2> QED
    BY <1>1, <1>3, <2>1, VersionsStep DEF OnceInv
<1>7. Recorded'
  BY <1>1, RecordedStep DEF OnceInv
<1>8. Bounded'
  BY <1>1, <1>2, <1>3, <1>5, BoundedStep DEF OnceInv
<1>9. NewPending'
  <2>1. ASSUME pc'[o] = "commit", wl'[o].pending.id # 0 PROVE Private(o, wl[o].pending.id)'
    <3>1. wl'[o].pending.id = n /\ job'[o].id = 0
      BY <1>1, <1>2, <2>1
    <3>2. /\ ~Performed(n, execs') /\ ~Mentions(obj', n)
          /\ \A q \in Operators : /\ job'[q].id # n /\ ~Mentions(cache'[q], n)
                                  /\ q # o => ~Mentions(wl'[q], n)
      BY <1>1, <1>2, <3>1, NewId DEF Others
    <3> QED
      BY <3>1, <3>2 DEF Private, Performed, Mentions
  <2>2. ~(job'[o].id \in 1 .. Len(log))
    BY <1>2, <1>5
  <2> QED
    BY <1>1, <1>3, <1>4, <2>1, <2>2, NewPendingStep DEF OnceInv
<1>10. OpenIsUnperformed'
  <2>1. \A q \in Operators : pc'[q] = "run" => pc[q] = "run" /\ job'[q].id = job[q].id
    BY <1>1 DEF Others
  <2> QED
    BY <1>1, <1>3, <2>1, OpenStep DEF OnceInv
<1>11. Exclusive'
  <2>1. pc'[o] \in {"reserve", "execute", "run"} =>
          /\ ~Performed(job'[o].id, execs')
          /\ \A q \in Operators : Executing(q) /\ q # o => job[q].id # job'[o].id
    BY <1>1, NewId
  <2> QED
    BY <1>1, <1>3, <2>1, ExclusiveStep DEF OnceInv
<1>12. AtMostOncePerDecision'
  BY <1>1, <1>3, OnceStep DEF OnceInv
<1> QED
  BY <1>6, <1>7, <1>8, <1>9, <1>10, <1>11, <1>12 DEF OnceInv

(* A synced copy is the object.                                            *)
LEMMA SyncOnce ==
  ASSUME TypeInv, OnceInv, NEW o \in Operators, Sync(o)
  PROVE  OnceInv'
<1>1. /\ UNCHANGED <<obj, pc, wl, job, log, execs>>
      /\ \A q \in Operators : cache'[q] = cache[q] \/ cache'[q] = obj
  BY DEF Sync, TypeInv, TypeOK
<1>2. Versions'
  <2>1. obj.rv \in Nat
    BY DEF TypeInv, TypeOK, Objects
  <2>2. \A q \in Operators : VersionOf(cache[q])'
    BY <1>1, <2>1 DEF OnceInv, Versions, VersionOf
  <2> QED
    BY <1>1, <2>2 DEF OnceInv, Versions, VersionOf
<1>3. NewPending'
  BY <1>1 DEF OnceInv, NewPending, Private, Mentions
<1>4. Recorded' /\ Bounded' /\ Exclusive' /\ AtMostOncePerDecision' /\ OpenIsUnperformed'
  BY <1>1 DEF OnceInv, Recorded, Open, approvalConsumed, Bounded, Exclusive, Executing,
         AtMostOncePerDecision, Executions, OpenIsUnperformed
<1> QED
  BY <1>2, <1>3, <1>4 DEF OnceInv

(* The initial states satisfy the invariant.                               *)
LEMMA OnceInit == Init => OnceInv
<1> SUFFICES ASSUME Init PROVE OnceInv
  OBVIOUS
<1>1. TypeInv
  BY TypeInit
<1>2. obj.rv \in Nat
  <2>1. obj \in Objects
    BY <1>1, TypeParts DEF TypeInv
  <2> QED
    BY <2>1 DEF Objects
<1>3. /\ Len(log) = 0 /\ Len(execs) = 0 /\ DOMAIN execs = {} /\ NoJob.id = 0
      /\ \A o \in Operators : cache[o] = obj /\ pc[o] = "idle" /\ job[o] = NoJob
  <2>1. /\ log = <<>> /\ execs = <<>> /\ cache = [o \in Operators |-> obj]
        /\ pc = [o \in Operators |-> "idle"] /\ job = [o \in Operators |-> NoJob]
    BY DEF Init
  <2>2. NoJob.id = 0
    BY DEF NoJob
  <2>3. Len(<<>>) = 0 /\ DOMAIN <<>> = {}
    OBVIOUS
  <2> QED
    BY <2>1, <2>2, <2>3
<1>4. Versions /\ Recorded /\ NewPending /\ Exclusive
  BY <1>2, <1>3 DEF Versions, VersionOf, Recorded, NewPending, Exclusive, Executing
<1>5. Bounded /\ OpenIsUnperformed /\ AtMostOncePerDecision
  BY <1>3 DEF Bounded, OpenIsUnperformed, AtMostOncePerDecision, Executions, Performed
<1> QED
  BY <1>4, <1>5 DEF OnceInv

(* Every step keeps the invariant.                                         *)
LEMMA OnceNext == TypeInv /\ TypeInv' /\ OnceInv /\ [Next]_vars => OnceInv'
<1> SUFFICES ASSUME TypeInv, TypeInv', OnceInv, [Next]_vars PROVE OnceInv'
  OBVIOUS
<1>1. CASE UNCHANGED vars
  BY <1>1 DEF vars, OnceInv, Versions, VersionOf, Recorded, Open, approvalConsumed, Bounded,
     NewPending, Private, Mentions, OpenIsUnperformed, Exclusive, Executing,
     AtMostOncePerDecision, Executions
<1>2. ASSUME NEW o \in Operators, Reconcile(o) PROVE OnceInv'
  BY <1>2, IdleOnce, ProposeOnce, ReserveOnce, ExecuteOnce, CommitOnce, FinishUnknownOnce,
     RecordOnce, HoldReceiptOnce, ReceiptOnce, MarkOnce, RunOnce DEF Reconcile
<1> QED
  BY <1>1, <1>2, ClientOnce, SyncOnce, CrashOnce DEF Next

(* "It cannot execute twice": for any number of operators without leader   *)
(* election, any cache lag, crash, lost answer, client write or restored   *)
(* status, the MCP server performs at most one execute_action per decision *)
(* id.                                                                     *)
THEOREM AtMostOnce == Spec => []AtMostOncePerDecision
<1>1. OnceInv => AtMostOncePerDecision
  BY DEF OnceInv
<1> QED
  BY <1>1, TypeInit, TypeStep, OnceInit, OnceNext, PTL DEF Spec

=============================================================================
