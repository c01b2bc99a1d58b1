----------------------- MODULE RuntimeExecutionProofs -----------------------
(***************************************************************************)
(* Proofs about RuntimeExecution: for every set of types and every number  *)
(* of edits and faults, the execution reference of a workload is kept, is  *)
(* cleaned up when the workload goes, and the workload is Completed only   *)
(* if the execution it refers to succeeded.                                *)
(*                                                                         *)
(* The argument is about versions.  A copy the operator holds is old or is *)
(* the stored object (CopiesInv), so that a write the API server accepts   *)
(* rests on what is stored; the finalizer is removed only by an operator   *)
(* whose cache has seen the deletion (GoneInv), so that no reconcile of a  *)
(* copy older than the reference is left to start the execution again.     *)
(***************************************************************************)
EXTENDS RuntimeExecution, TLAPS

-----------------------------------------------------------------------------
(* The inductive invariant.                                                *)

(* A copy is old or current.                                               *)
CopyOf(c, o) == c.rv <= o.rv /\ (c.rv = o.rv => c = o)

(* The fields a reconcile leaves alone once the finalizer is there.        *)
SameFields(w, o) ==
  /\ w.exists = o.exists /\ w.deleting = o.deleting
  /\ w.finalizer = o.finalizer /\ w.type = o.type
  /\ w.gates = o.gates /\ w.rejected = o.rejected

(* What a reconcile may have made of the object it works on.               *)
WorkOf(w, o) ==
  /\ w.rv <= o.rv
  /\ w.rv = o.rv =>
       /\ SameFields(w, o)
       /\ o.ref # "none" => w.ref = o.ref

CopiesInv ==
  /\ CopyOf(cache, obj)
  /\ pc \in {"finalize", "dispatch", "unfinalize"} => CopyOf(wl, obj)
  /\ pc = "commit" => WorkOf(wl, obj)

(* A reference is stored only once the finalizer is.                       *)
FinalizerFirst(w) == ~w.finalizer => w.ref = "none" \/ ~w.exists

(* A Completed copy refers to an execution that succeeded.                 *)
Earned(w) == w.phase = "Completed" => w.ref \in succeeded

CompletedInv ==
  /\ Earned(obj) /\ Earned(cache) /\ Earned(wl)
  /\ \A r \in Runtimes : exec[r] = "Succeeded" => r \in succeeded

(* Deletion is seen by the cache before the finalizer goes, and once the   *)
(* finalizer is gone no reconcile can create what the reference names.     *)
GoneInv ==
  /\ cache.deleting => obj.deleting
  /\ ~obj.exists => obj.deleting
  /\ FinalizerFirst(obj)
  /\ pc \in {"dispatch", "commit"} => wl.finalizer
  /\ pc = "finalize" => Live(wl)
  /\ pc = "unfinalize" =>
       /\ cache.deleting
       /\ wl.ref # "none" => exec[wl.ref] = Absent
  /\ ~obj.exists /\ obj.ref # "none" =>
       /\ cache.deleting /\ pc \in {"idle", "unfinalize"}
       /\ exec[obj.ref] = Absent

RuntimeInv == TypeOK /\ CopiesInv /\ CompletedInv /\ GoneInv

-----------------------------------------------------------------------------
(* The API server.                                                         *)

(* A version that is stored is the stored one or a new one.                *)
LEMMA StoredVersion ==
  ASSUME obj \in Objects, NEW new \in Objects
  PROVE  /\ Stored(new) \in Objects
         /\ Stored(new) = obj \/ Stored(new).rv > obj.rv
         /\ SameFields(Stored(new), new)
         /\ Stored(new).ref = new.ref /\ Stored(new).phase = new.phase
<1> DEFINE new1 == [new EXCEPT !.rv = obj.rv]
           new2 == [new EXCEPT !.rv = obj.rv + 1]
<1>1. obj.rv \in Nat /\ obj.rv + 1 \in Nat
  BY DEF Objects
<1>2. /\ new1 \in Objects /\ SameFields(new1, new)
      /\ new1.ref = new.ref /\ new1.phase = new.phase
  BY <1>1 DEF Objects, SameFields
<1>3. /\ new2 \in Objects /\ SameFields(new2, new) /\ new2.rv > obj.rv
      /\ new2.ref = new.ref /\ new2.phase = new.phase
  BY <1>1 DEF Objects, SameFields
<1>4. Stored(new) = IF new1 = obj THEN obj ELSE new2
  BY DEF Stored
<1> HIDE DEF new1, new2
<1>5. CASE new1 = obj
  BY <1>2, <1>4, <1>5
<1>6. CASE new1 # obj
  <2>1. Stored(new) = new2
    BY <1>4, <1>6
  <2> QED BY <1>3, <2>1
<1> QED BY <1>5, <1>6

(* The stored object changes only together with its version, and by a      *)
(* write that is refused for an old copy.                                  *)
LEMMA CopyKept ==
  ASSUME NEW c \in Objects, NEW o \in Objects, NEW n \in Objects,
         CopyOf(c, o), n = o \/ n.rv > o.rv
  PROVE  CopyOf(c, n)
<1>1. c.rv \in Nat /\ o.rv \in Nat /\ n.rv \in Nat
  BY DEF Objects
<1> QED BY <1>1 DEF CopyOf

LEMMA WorkKept ==
  ASSUME NEW c \in Objects, NEW o \in Objects, NEW n \in Objects,
         WorkOf(c, o), n = o \/ n.rv > o.rv
  PROVE  WorkOf(c, n)
<1>1. c.rv \in Nat /\ o.rv \in Nat /\ n.rv \in Nat
  BY DEF Objects
<1> QED BY <1>1 DEF WorkOf

LEMMA NoWorkloadType == NoWorkload \in Objects
  BY RuntimeAssumption DEF NoWorkload, Objects, Runtimes, Phases, Gates

-----------------------------------------------------------------------------
LEMMA RuntimeInit == Init => RuntimeInv
<1> SUFFICES ASSUME Init PROVE RuntimeInv
  OBVIOUS
<1> USE RuntimeAssumption
<1>1. PICK t \in Types : obj = [NoWorkload EXCEPT !.rv = 1, !.exists = TRUE, !.type = t]
  BY DEF Init
<1>2. TypeOK
  <2>1. obj \in Objects
    BY <1>1, NoWorkloadType DEF Objects
  <2> QED BY <2>1, NoWorkloadType DEF Init, TypeOK, Steps
<1>3. CopiesInv
  BY <1>1, <1>2 DEF Init, CopiesInv, CopyOf, TypeOK, Objects
<1>4. CompletedInv
  BY <1>1, NoWorkloadType DEF Init, CompletedInv, Earned, NoWorkload, Absent
<1>5. GoneInv
  BY <1>1 DEF Init, GoneInv, FinalizerFirst, NoWorkload
<1> QED BY <1>2, <1>3, <1>4, <1>5 DEF RuntimeInv

-----------------------------------------------------------------------------
(* One lemma per action.                                                   *)

(* A write of the live copy w that passes the version check, and leaves    *)
(* the reference alone.                                                    *)
LEMMA WriteLive ==
  ASSUME RuntimeInv, NEW w \in Objects, CopyOf(w, obj), Fresh(w), Live(w),
         NEW new \in Objects, new.exists = w.exists, new.deleting = w.deleting,
         w.finalizer => new.finalizer,
         new.ref = w.ref, new.phase = w.phase \/ new.phase = "Failed", obj' = Stored(new)
  PROVE  /\ w = obj
         /\ obj' \in Objects /\ CopyOf(cache, obj') /\ CopyOf(obj', obj')
         /\ obj'.exists /\ ~obj'.deleting /\ ~obj.deleting
         /\ obj'.finalizer = new.finalizer /\ obj'.ref = obj.ref
         /\ succeeded' = succeeded => Earned(obj)' /\ Earned(obj')
         /\ FinalizerFirst(obj')
<1>1. TypeOK /\ CopiesInv /\ CompletedInv /\ GoneInv
  BY DEF RuntimeInv
<1>2. w = obj /\ obj \in Objects /\ cache \in Objects
  BY <1>1 DEF CopyOf, Fresh, TypeOK
<1>3. /\ obj' \in Objects
      /\ obj' = obj \/ obj'.rv > obj.rv
      /\ SameFields(obj', new) /\ obj'.ref = new.ref /\ obj'.phase = new.phase
  BY <1>2, StoredVersion
<1>4. CopyOf(cache, obj')
  BY <1>1, <1>2, <1>3, CopyKept DEF CopiesInv
<1>5. CopyOf(obj', obj')
  BY <1>3 DEF CopyOf, Objects
<1>6. obj'.exists /\ ~obj'.deleting /\ ~obj.deleting /\ obj'.finalizer = new.finalizer
  BY <1>2, <1>3 DEF SameFields, Live
<1>7. obj'.phase = "Completed" => obj'.ref \in succeeded
  BY <1>1, <1>2, <1>3 DEF CompletedInv, Earned
<1>8. FinalizerFirst(obj')
  BY <1>1, <1>2, <1>3, <1>6 DEF GoneInv, FinalizerFirst, Live
<1> QED BY <1>2, <1>3, <1>4, <1>5, <1>6, <1>7, <1>8 DEF Earned

LEMMA TemplateKeeps == RuntimeInv /\ TemplateGate => RuntimeInv'
<1> SUFFICES ASSUME RuntimeInv, TemplateGate PROVE RuntimeInv'
  OBVIOUS
<1>1. TypeOK /\ CopiesInv /\ CompletedInv /\ GoneInv
  BY DEF RuntimeInv
<1>2. /\ pc = "idle" /\ Live(cache)
      /\ UNCHANGED <<cache, pc, wl, exec, succeeded, edits, faults>>
  BY DEF TemplateGate, bounds
<1>3. CASE Fresh(cache)
  <2> DEFINE new == [errored(cache) EXCEPT !.rejected = TRUE]
  <2>1. cache \in Objects /\ CopyOf(cache, obj) /\ obj' = Stored(new)
    BY <1>1, <1>3 DEF TypeOK, CopiesInv, TemplateGate
  <2>2. errored(cache) \in Objects
    BY <2>1 DEF errored, Objects, Phases
  <2>3. /\ new \in Objects /\ new.exists = cache.exists /\ new.deleting = cache.deleting
        /\ new.finalizer = cache.finalizer /\ new.ref = cache.ref /\ new.phase = "Failed"
    BY <2>1, <2>2 DEF errored, Objects
  <2> HIDE DEF new
  <2>4. /\ cache = obj
        /\ obj' \in Objects /\ CopyOf(cache, obj')
        /\ obj'.exists /\ ~obj'.deleting /\ ~obj.deleting
        /\ Earned(obj)' /\ FinalizerFirst(obj')
    BY <1>2, <1>3, <2>1, <2>3, WriteLive
  <2>5. TypeOK' /\ CopiesInv'
    BY <1>1, <1>2, <2>4 DEF TypeOK, CopiesInv
  <2>6. CompletedInv'
    BY <1>1, <1>2, <2>4 DEF CompletedInv, Earned
  <2>7. GoneInv'
    BY <1>1, <1>2, <2>4 DEF GoneInv, FinalizerFirst, Live
  <2> QED BY <2>5, <2>6, <2>7 DEF RuntimeInv
<1>4. CASE ~Fresh(cache)
  <2>1. obj' = obj
    BY <1>4 DEF TemplateGate
  <2> QED BY <1>1, <1>2, <2>1 DEF RuntimeInv, TypeOK, CopiesInv, CompletedInv, Earned, GoneInv,
                                  FinalizerFirst, Live
<1> QED BY <1>3, <1>4

(* A step that stores new as an update of the live copy w and goes on with *)
(* what was stored.                                                        *)
LEMMA ContinueKeeps ==
  ASSUME RuntimeInv, NEW w \in Objects, CopyOf(w, obj), Fresh(w), Live(w),
         NEW new \in Objects, new.exists = w.exists, new.deleting = w.deleting,
         w.finalizer => new.finalizer, new.ref = w.ref, new.phase = w.phase,
         obj' = Stored(new), wl' = obj',
         pc' = "finalize" \/ (pc' = "dispatch" /\ new.finalizer),
         UNCHANGED <<cache, exec, succeeded, edits, faults>>
  PROVE  RuntimeInv'
<1>1. TypeOK /\ CopiesInv /\ CompletedInv /\ GoneInv
  BY DEF RuntimeInv
<1>2. /\ w = obj
      /\ obj' \in Objects /\ CopyOf(cache, obj') /\ CopyOf(obj', obj')
      /\ obj'.exists /\ ~obj'.deleting /\ ~obj.deleting
      /\ obj'.finalizer = new.finalizer
      /\ Earned(obj)' /\ Earned(obj') /\ FinalizerFirst(obj')
  BY WriteLive
<1>3. TypeOK'
  BY <1>1, <1>2 DEF TypeOK, Steps
<1>4. CopiesInv'
  BY <1>1, <1>2 DEF CopiesInv
<1>5. CompletedInv'
  BY <1>1, <1>2 DEF CompletedInv, Earned
<1>6. GoneInv'
  BY <1>1, <1>2 DEF GoneInv, FinalizerFirst, Live
<1> QED BY <1>3, <1>4, <1>5, <1>6 DEF RuntimeInv

LEMMA ClearKeeps == RuntimeInv /\ ClearRejection => RuntimeInv'
<1> SUFFICES ASSUME RuntimeInv, ClearRejection PROVE RuntimeInv'
  OBVIOUS
<1>1. TypeOK /\ CopiesInv /\ CompletedInv /\ GoneInv
  BY DEF RuntimeInv
<1>2. Live(cache) /\ UNCHANGED <<cache, exec, succeeded, edits, faults>>
  BY DEF ClearRejection, bounds
<1>3. CASE Fresh(cache)
  <2> DEFINE new == [cache EXCEPT !.rejected = FALSE]
  <2>1. /\ cache \in Objects /\ CopyOf(cache, obj)
        /\ obj' = Stored(new) /\ wl' = obj' /\ pc' = "finalize"
    BY <1>1, <1>3 DEF TypeOK, CopiesInv, ClearRejection
  <2>2. /\ new \in Objects /\ new.exists = cache.exists /\ new.deleting = cache.deleting
        /\ new.finalizer = cache.finalizer /\ new.ref = cache.ref /\ new.phase = cache.phase
    BY <2>1 DEF Objects
  <2> HIDE DEF new
  <2> QED BY <1>2, <1>3, <2>1, <2>2, ContinueKeeps
<1>4. CASE ~Fresh(cache)
  <2>1. UNCHANGED <<obj, wl, pc>>
    BY <1>4 DEF ClearRejection
  <2> QED BY <1>1, <1>2, <2>1 DEF RuntimeInv, TypeOK, CopiesInv, CompletedInv, Earned, GoneInv,
                                  FinalizerFirst, Live
<1> QED BY <1>3, <1>4

LEMMA FinalizeKeeps ==
  ASSUME RuntimeInv, NEW w \in Objects, CopyOf(w, obj), Live(w), Earned(w),
         w = cache \/ (w = wl /\ pc = "finalize"), AddFinalizer(w),
         UNCHANGED <<cache, exec, succeeded, edits, faults>>
  PROVE  RuntimeInv'
<1> USE RuntimeAssumption
<1>1. TypeOK /\ CopiesInv /\ CompletedInv /\ GoneInv
  BY DEF RuntimeInv
<1>2. CASE w.finalizer
  <2>1. obj' = obj /\ wl' = w /\ pc' = "dispatch"
    BY <1>2 DEF AddFinalizer
  <2>2. TypeOK'
    BY <1>1, <2>1 DEF TypeOK, Steps
  <2>3. CopiesInv'
    BY <1>1, <2>1 DEF CopiesInv
  <2>4. CompletedInv'
    BY <1>1, <2>1 DEF CompletedInv, Earned
  <2>5. GoneInv'
    BY <1>1, <1>2, <2>1 DEF GoneInv, FinalizerFirst, Live
  <2> QED BY <2>2, <2>3, <2>4, <2>5 DEF RuntimeInv
<1>3. CASE ~w.finalizer /\ Fresh(w)
  <2> DEFINE new == [w EXCEPT !.finalizer = TRUE]
  <2>1. obj' = Stored(new) /\ wl' = obj' /\ pc' = "dispatch"
    BY <1>3 DEF AddFinalizer
  <2>2. /\ new \in Objects /\ new.exists = w.exists /\ new.deleting = w.deleting
        /\ new.finalizer /\ new.ref = w.ref /\ new.phase = w.phase
    BY DEF Objects
  <2> HIDE DEF new
  <2> QED BY <1>3, <2>1, <2>2, ContinueKeeps
<1>4. CASE ~w.finalizer /\ ~Fresh(w)
  <2>1. obj' = obj /\ pc' = "idle" /\ wl' = NoWorkload
    BY <1>4 DEF AddFinalizer, EndReconcile
  <2>2. Earned(NoWorkload) /\ NoWorkload \in Objects
    BY NoWorkloadType DEF Earned, NoWorkload
  <2>3. TypeOK' /\ CopiesInv'
    BY <1>1, <2>1, <2>2 DEF TypeOK, CopiesInv, Steps
  <2>4. CompletedInv' /\ GoneInv'
    BY <1>1, <2>1, <2>2 DEF CompletedInv, Earned, GoneInv, FinalizerFirst
  <2> QED BY <2>3, <2>4 DEF RuntimeInv
<1> QED BY <1>2, <1>3, <1>4

LEMMA FetchKeeps == RuntimeInv /\ FetchAndFinalize => RuntimeInv'
<1> SUFFICES ASSUME RuntimeInv, FetchAndFinalize PROVE RuntimeInv'
  OBVIOUS
<1>1. TypeOK /\ CopiesInv /\ CompletedInv /\ GoneInv
  BY DEF RuntimeInv
<1>2. UNCHANGED <<cache, exec, succeeded, edits, faults>>
  BY DEF FetchAndFinalize, bounds
<1>3. /\ cache \in Objects /\ CopyOf(cache, obj) /\ Earned(cache)
      /\ wl \in Objects /\ Earned(wl)
      /\ pc = "finalize" => CopyOf(wl, obj) /\ Live(wl)
  BY <1>1 DEF TypeOK, CopiesInv, CompletedInv, GoneInv
<1>4. CASE Live(cache) /\ AddFinalizer(cache)
  BY <1>2, <1>3, <1>4, FinalizeKeeps
<1>5. CASE pc = "finalize" /\ AddFinalizer(wl)
  BY <1>2, <1>3, <1>5, FinalizeKeeps
<1> QED BY <1>4, <1>5 DEF FetchAndFinalize

LEMMA CleanupKeeps == RuntimeInv /\ (Cleanup \/ CleanupFails) => RuntimeInv'
<1> SUFFICES ASSUME RuntimeInv, Cleanup \/ CleanupFails PROVE RuntimeInv'
  OBVIOUS
<1> USE RuntimeAssumption
<1>1. TypeOK /\ CopiesInv /\ CompletedInv /\ GoneInv
  BY DEF RuntimeInv
<1>2. CASE Cleanup
  <2>1. cache.ref = "none" \/ cache.ref \in Runtimes
    BY <1>1 DEF TypeOK, Objects
  <2>2. /\ exec' \in [Runtimes -> ExecPhases \cup {Absent}]
        /\ cache.ref # "none" => exec'[cache.ref] = Absent
        /\ \A r \in Runtimes : exec'[r] = Absent \/ exec'[r] = exec[r]
    BY <1>1, <1>2, <2>1 DEF Cleanup, cleanupType, TypeOK
  <2>3. TypeOK'
    BY <1>1, <1>2, <2>2 DEF TypeOK, Cleanup, Steps, bounds
  <2>4. CopiesInv'
    BY <1>1, <1>2 DEF CopiesInv, Cleanup
  <2>5. CompletedInv'
    BY <1>1, <1>2, <2>2 DEF CompletedInv, Earned, Cleanup, Absent
  <2>6. GoneInv'
    <3>1. obj.ref # "none" => obj.ref \in Runtimes
      BY <1>1 DEF TypeOK, Objects
    <3> QED BY <3>1, <1>1, <1>2, <2>2 DEF GoneInv, FinalizerFirst, Cleanup
  <2> QED BY <2>3, <2>4, <2>5, <2>6 DEF RuntimeInv
<1>3. CASE CleanupFails
  <2>1. TypeOK'
    BY <1>1, <1>3 DEF TypeOK, CleanupFails, Fault
  <2>2. CopiesInv' /\ CompletedInv' /\ GoneInv'
    BY <1>1, <1>3 DEF CopiesInv, CompletedInv, Earned, GoneInv, FinalizerFirst, CleanupFails
  <2> QED BY <2>1, <2>2 DEF RuntimeInv
<1> QED BY <1>2, <1>3

LEMMA RemoveKeeps == RuntimeInv /\ RemoveFinalizer => RuntimeInv'
<1> SUFFICES ASSUME RuntimeInv, RemoveFinalizer PROVE RuntimeInv'
  OBVIOUS
<1> USE RuntimeAssumption
<1>1. TypeOK /\ CopiesInv /\ CompletedInv /\ GoneInv
  BY DEF RuntimeInv
<1>2. pc = "unfinalize" /\ pc' = "idle" /\ wl' = NoWorkload /\ UNCHANGED <<cache, exec, succeeded, edits, faults>>
  BY DEF RemoveFinalizer, EndReconcile, bounds
<1>3. Earned(NoWorkload) /\ NoWorkload \in Objects
  BY NoWorkloadType DEF Earned, NoWorkload
<1>4. CASE Fresh(wl)
  <2>1. wl = obj /\ obj.exists
    BY <1>1, <1>2, <1>4 DEF CopiesInv, CopyOf, Fresh
  <2>2. obj' = [obj EXCEPT !.rv = @ + 1, !.exists = FALSE, !.finalizer = FALSE]
    BY <1>4, <2>1 DEF RemoveFinalizer
  <2>3. /\ obj' \in Objects /\ obj'.rv > obj.rv /\ ~obj'.exists
        /\ obj'.ref = obj.ref /\ obj'.deleting = obj.deleting /\ obj'.phase = obj.phase
    <3>1. obj \in Objects
      BY <1>1 DEF TypeOK
    <3>2. obj.rv + 1 \in Nat /\ obj.rv + 1 > obj.rv
      BY <3>1 DEF Objects
    <3>3. obj'.rv = obj.rv + 1 /\ ~obj'.exists
      BY <2>2, <3>1 DEF Objects
    <3>4. obj'.ref = obj.ref /\ obj'.deleting = obj.deleting /\ obj'.phase = obj.phase
      BY <2>2, <3>1 DEF Objects
    <3>5. obj' \in Objects
      BY <2>2, <3>1, <3>2 DEF Objects
    <3> QED BY <3>2, <3>3, <3>4, <3>5
  <2>4. TypeOK'
    BY <1>1, <1>2, <1>3, <2>3 DEF TypeOK, Steps
  <2>5. CopiesInv'
    <3>1. CopyOf(cache, obj')
      BY <1>1, <2>3, CopyKept DEF CopiesInv, TypeOK
    <3> QED BY <3>1, <1>2 DEF CopiesInv
  <2>6. CompletedInv'
    BY <1>1, <1>2, <1>3, <2>3 DEF CompletedInv, Earned
  <2>7. GoneInv'
    BY <1>1, <1>2, <2>1, <2>3 DEF GoneInv, FinalizerFirst
  <2> QED BY <2>4, <2>5, <2>6, <2>7 DEF RuntimeInv
<1>5. CASE ~Fresh(wl)
  <2>1. obj' = obj
    BY <1>5 DEF RemoveFinalizer
  <2>2. TypeOK'
    BY <1>1, <1>2, <1>3, <2>1 DEF TypeOK, Steps
  <2>3. CopiesInv' /\ CompletedInv' /\ GoneInv'
    BY <1>1, <1>2, <1>3, <2>1 DEF CopiesInv, CompletedInv, Earned, GoneInv, FinalizerFirst
  <2> QED BY <2>2, <2>3 DEF RuntimeInv
<1> QED BY <1>4, <1>5

(* What a reconcile that looked at the runtime leaves to be committed.     *)
LEMMA DispatchKeeps ==
  ASSUME RuntimeInv, pc = "dispatch", pc' = "commit", UNCHANGED <<obj, cache, succeeded, edits>>,
         faults' \in 0 .. MaxFaults,
         exec' \in [Runtimes -> ExecPhases \cup {Absent}],
         \A r \in Runtimes : exec'[r] = "Succeeded" => exec[r] = "Succeeded",
         wl' \in Objects, Earned(wl'), wl'.rv = wl.rv,
         SameFields(wl', wl),
         wl.ref # "none" => wl'.ref = wl.ref
  PROVE  RuntimeInv'
<1>1. TypeOK /\ CopiesInv /\ CompletedInv /\ GoneInv
  BY DEF RuntimeInv
<1>2. TypeOK'
  BY <1>1 DEF TypeOK, Steps
<1>3. CopiesInv'
  <2>1. CopyOf(wl, obj) /\ wl \in Objects /\ obj \in Objects
    BY <1>1 DEF CopiesInv, TypeOK
  <2>2. WorkOf(wl', obj)
    BY <2>1 DEF CopyOf, WorkOf, SameFields
  <2> QED BY <1>1, <2>2 DEF CopiesInv
<1>4. CompletedInv'
  BY <1>1 DEF CompletedInv, Earned
<1>5. GoneInv'
  <2>1. wl'.finalizer = wl.finalizer
    BY DEF SameFields
  <2> QED BY <1>1, <2>1 DEF GoneInv, FinalizerFirst
<1> QED BY <1>2, <1>3, <1>4, <1>5 DEF RuntimeInv

LEMMA RuntimeKeeps ==
  RuntimeInv /\ (PackGate \/ LicenceGate \/ NoAdapter \/ PollStatus \/ Execute) => RuntimeInv'
<1> SUFFICES ASSUME RuntimeInv, PackGate \/ LicenceGate \/ NoAdapter \/ PollStatus \/ Execute
             PROVE  RuntimeInv'
  OBVIOUS
<1> USE RuntimeAssumption
<1>1. TypeOK /\ CopiesInv /\ CompletedInv /\ GoneInv
  BY DEF RuntimeInv
<1>2. wl \in Objects /\ exec \in [Runtimes -> ExecPhases \cup {Absent}]
  BY <1>1 DEF TypeOK
<1>3. ASSUME NEW p \in Phases
      PROVE  LET w == [wl EXCEPT !.phase = p]
             IN  /\ w \in Objects /\ w.rv = wl.rv /\ SameFields(w, wl) /\ w.ref = wl.ref
                 /\ w.phase = p
  BY <1>2 DEF Objects, SameFields
<1>4. /\ errored(wl) \in Objects /\ errored(wl).rv = wl.rv /\ SameFields(errored(wl), wl)
      /\ errored(wl).ref = wl.ref /\ Earned(errored(wl))
  BY <1>3 DEF errored, Phases, Earned
<1>5. faults' \in 0 .. MaxFaults
  BY <1>1 DEF TypeOK, PackGate, LicenceGate, NoAdapter, PollStatus, Execute, Fault, bounds
<1>6. pc = "dispatch" /\ pc' = "commit" /\ UNCHANGED <<obj, cache, succeeded, edits>>
  BY DEF PackGate, LicenceGate, NoAdapter, PollStatus, Execute, bounds
<1>7. CASE PackGate \/ LicenceGate \/ NoAdapter
  <2>1. wl' = errored(wl) /\ exec' = exec
    BY <1>7 DEF PackGate, LicenceGate, NoAdapter
  <2> QED BY <1>2, <1>4, <1>5, <1>6, <2>1, DispatchKeeps
<1>8. CASE PollStatus
  <2>1. wl.ref # "none" /\ exec' = exec /\ runtimeType(wl) = wl.ref /\ wl.ref \in Runtimes
    BY <1>8 DEF PollStatus, runtimeType
  <2>2. ASSUME NEW p \in ExecPhases, p = "Succeeded" => wl.ref \in succeeded, wl' = observed(wl, p)
        PROVE  RuntimeInv'
    <3> DEFINE q == IF p = "Succeeded" THEN "Completed"
                    ELSE IF p = "Failed" THEN "Failed"
                    ELSE IF p = "Running" THEN "Running" ELSE wl.phase
    <3>1. wl.phase \in Phases
      BY <1>2 DEF Objects
    <3>2. q \in Phases
      BY <3>1 DEF Phases
    <3>3. q = "Completed" => wl.ref \in succeeded
      BY <2>2, <1>1 DEF CompletedInv, Earned
    <3>4. wl' = [wl EXCEPT !.phase = q]
      BY <2>2 DEF observed
    <3> HIDE DEF q
    <3>5. /\ wl' \in Objects /\ wl'.rv = wl.rv /\ SameFields(wl', wl) /\ wl'.ref = wl.ref
          /\ wl'.phase = q
      BY <1>3, <3>2, <3>4
    <3>6. Earned(wl')
      BY <3>3, <3>5 DEF Earned
    <3> QED BY <1>2, <1>5, <1>6, <2>1, <3>5, <3>6, DispatchKeeps
  <2>3. CASE wl' = errored(wl)
    BY <1>2, <1>4, <1>5, <1>6, <2>1, <2>3, DispatchKeeps
  <2>4. CASE exec[wl.ref] # Absent /\ wl' = observed(wl, exec[wl.ref])
    <3>1. exec[wl.ref] \in ExecPhases
      BY <1>2, <2>1, <2>4
    <3>2. exec[wl.ref] = "Succeeded" => wl.ref \in succeeded
      BY <1>1, <2>1 DEF CompletedInv
    <3> QED BY <2>2, <2>4, <3>1, <3>2
  <2>5. CASE wl' = observed(wl, "Running")
    BY <2>2, <2>5 DEF ExecPhases
  <2> QED BY <1>8, <2>1, <2>3, <2>4, <2>5 DEF PollStatus
<1>9. CASE Execute
  <2> DEFINE r == runtimeType(wl)
             run == [exec EXCEPT ![r] = IF @ = Absent THEN created(r) ELSE @]
  <2>1. wl.ref = "none" /\ r \in Runtimes
    BY <1>9 DEF Execute
  <2>2. created(r) \in ExecPhases /\ created(r) # "Succeeded"
    BY DEF created, ExecPhases
  <2> HIDE DEF r
  <2>3. /\ run \in [Runtimes -> ExecPhases \cup {Absent}]
        /\ \A x \in Runtimes : run[x] = "Succeeded" => exec[x] = "Succeeded"
    BY <1>2, <2>1, <2>2
  <2> HIDE DEF run
  <2>4. exec' \in {exec, run} /\ (wl' = errored(wl) \/ wl' = referencing(wl, r))
    BY <1>9 DEF Execute, r, run
  <2>5. /\ exec' \in [Runtimes -> ExecPhases \cup {Absent}]
        /\ \A x \in Runtimes : exec'[x] = "Succeeded" => exec[x] = "Succeeded"
    BY <1>2, <2>3, <2>4
  <2>6. CASE wl' = errored(wl)
    BY <1>4, <1>5, <1>6, <2>5, <2>6, DispatchKeeps
  <2>7. CASE wl' = referencing(wl, r)
    <3>1. wl' \in Objects /\ wl'.rv = wl.rv /\ SameFields(wl', wl) /\ wl'.phase = "Running"
      BY <1>2, <2>1, <2>7 DEF referencing, Objects, SameFields, Phases
    <3>2. Earned(wl')
      BY <3>1 DEF Earned
    <3> QED BY <1>5, <1>6, <2>1, <2>5, <3>1, <3>2, DispatchKeeps
  <2> QED BY <2>4, <2>6, <2>7
<1> QED BY <1>7, <1>8, <1>9

LEMMA CommitKeeps == RuntimeInv /\ CommitStatus => RuntimeInv'
<1> SUFFICES ASSUME RuntimeInv, CommitStatus PROVE RuntimeInv'
  OBVIOUS
<1>1. TypeOK /\ CopiesInv /\ CompletedInv /\ GoneInv
  BY DEF RuntimeInv
<1>2. /\ pc = "commit" /\ pc' = "idle" /\ wl' = NoWorkload
      /\ UNCHANGED <<cache, exec, succeeded, edits, faults>>
  BY DEF CommitStatus, EndReconcile, bounds
<1>3. Earned(NoWorkload) /\ NoWorkload \in Objects
  BY NoWorkloadType DEF Earned, NoWorkload
<1>4. CASE Fresh(wl)
  <2>1. obj \in Objects /\ wl \in Objects /\ obj' = Stored(wl)
    BY <1>1, <1>4 DEF TypeOK, CommitStatus
  <2>2. SameFields(wl, obj) /\ obj.exists
    BY <1>1, <1>2, <1>4 DEF CopiesInv, WorkOf, Fresh
  <2>3. /\ obj' \in Objects
        /\ obj' = obj \/ obj'.rv > obj.rv
        /\ SameFields(obj', wl) /\ obj'.ref = wl.ref /\ obj'.phase = wl.phase
    BY <2>1, StoredVersion
  <2>4. TypeOK'
    BY <1>1, <1>2, <1>3, <2>3 DEF TypeOK, Steps
  <2>5. CopiesInv'
    <3>1. CopyOf(cache, obj')
      BY <1>1, <2>1, <2>3, CopyKept DEF CopiesInv, TypeOK
    <3> QED BY <3>1, <1>2 DEF CopiesInv
  <2>6. CompletedInv'
    BY <1>1, <1>2, <1>3, <2>3 DEF CompletedInv, Earned
  <2>7. GoneInv'
    BY <1>1, <1>2, <2>2, <2>3 DEF GoneInv, FinalizerFirst, SameFields
  <2> QED BY <2>4, <2>5, <2>6, <2>7 DEF RuntimeInv
<1>5. CASE ~Fresh(wl)
  <2>1. obj' = obj
    BY <1>5 DEF CommitStatus
  <2>2. TypeOK'
    BY <1>1, <1>2, <1>3, <2>1 DEF TypeOK, Steps
  <2>3. CopiesInv' /\ CompletedInv' /\ GoneInv'
    BY <1>1, <1>2, <1>3, <2>1 DEF CopiesInv, CompletedInv, Earned, GoneInv, FinalizerFirst
  <2> QED BY <2>2, <2>3 DEF RuntimeInv
<1> QED BY <1>4, <1>5

LEMMA CrashKeeps == RuntimeInv /\ (Crash \/ SyncCache) => RuntimeInv'
<1> SUFFICES ASSUME RuntimeInv, Crash \/ SyncCache PROVE RuntimeInv'
  OBVIOUS
<1> USE RuntimeAssumption
<1>1. TypeOK /\ CopiesInv /\ CompletedInv /\ GoneInv
  BY DEF RuntimeInv
<1>2. CASE Crash
  <2>1. Earned(NoWorkload) /\ NoWorkload \in Objects
    BY NoWorkloadType DEF Earned, NoWorkload
  <2>2. pc' = "idle" /\ wl' = NoWorkload /\ UNCHANGED <<obj, cache, exec, succeeded, edits>>
    BY <1>2 DEF Crash, EndReconcile
  <2>3. faults' \in 0 .. MaxFaults
    BY <1>1, <1>2 DEF Crash, Fault, TypeOK
  <2>4. TypeOK'
    BY <1>1, <2>1, <2>2, <2>3 DEF TypeOK, Steps
  <2>5. CopiesInv' /\ CompletedInv' /\ GoneInv'
    BY <1>1, <2>1, <2>2 DEF CopiesInv, CompletedInv, Earned, GoneInv, FinalizerFirst
  <2> QED BY <2>4, <2>5 DEF RuntimeInv
<1>3. CASE SyncCache
  <2>1. cache' = obj /\ UNCHANGED <<obj, pc, wl, exec, succeeded, edits, faults>>
    BY <1>3 DEF SyncCache, bounds
  <2>2. CopyOf(obj, obj)
    BY <1>1 DEF CopyOf, TypeOK, Objects
  <2>3. TypeOK' /\ CopiesInv' /\ CompletedInv'
    BY <1>1, <2>1, <2>2 DEF TypeOK, CopiesInv, CompletedInv, Earned
  <2>4. GoneInv'
    BY <1>1, <2>1 DEF GoneInv, FinalizerFirst
  <2> QED BY <2>3, <2>4 DEF RuntimeInv
<1> QED BY <1>2, <1>3

LEMMA UserKeeps == RuntimeInv /\ (EditType \/ EditGates \/ Delete) => RuntimeInv'
<1> SUFFICES ASSUME RuntimeInv, EditType \/ EditGates \/ Delete PROVE RuntimeInv'
  OBVIOUS
<1> USE RuntimeAssumption
<1>1. TypeOK /\ CopiesInv /\ CompletedInv /\ GoneInv
  BY DEF RuntimeInv
<1>2. obj \in Objects /\ obj.rv \in Nat /\ obj.exists
  BY <1>1 DEF TypeOK, Objects, EditType, EditGates, Delete
<1>3. /\ obj' \in Objects /\ obj'.rv > obj.rv
      /\ obj'.ref = obj.ref /\ obj'.phase = obj.phase /\ obj'.finalizer = obj.finalizer
      /\ obj.deleting => obj'.deleting
      /\ ~obj'.exists => obj'.deleting /\ ~obj.finalizer
  <2>1. CASE EditType
    <3>1. PICK t \in Types : obj' = [obj EXCEPT !.rv = @ + 1, !.type = t]
      BY <2>1 DEF EditType
    <3>2. /\ obj'.rv = obj.rv + 1 /\ obj'.deleting = obj.deleting /\ obj'.exists = obj.exists
          /\ obj'.ref = obj.ref /\ obj'.phase = obj.phase /\ obj'.finalizer = obj.finalizer
      BY <3>1, <1>2 DEF Objects
    <3>3. obj.rv + 1 \in Nat /\ obj.rv + 1 > obj.rv
      BY <1>2
    <3>4. obj' \in Objects
      BY <3>1, <3>3, <1>2 DEF Objects
    <3> QED BY <1>2, <3>2, <3>3, <3>4
  <2>2. CASE Delete
    <3>1. obj' = [obj EXCEPT !.rv = @ + 1, !.deleting = TRUE, !.exists = obj.finalizer]
      BY <2>2 DEF Delete
    <3>2. /\ obj'.rv = obj.rv + 1 /\ obj'.deleting /\ obj'.exists = obj.finalizer
          /\ obj'.ref = obj.ref /\ obj'.phase = obj.phase /\ obj'.finalizer = obj.finalizer
      BY <3>1, <1>2 DEF Objects
    <3>3. obj.finalizer \in BOOLEAN /\ obj.rv + 1 \in Nat /\ obj.rv + 1 > obj.rv
      BY <1>2 DEF Objects
    <3>4. obj' \in Objects
      BY <3>1, <3>3, <1>2 DEF Objects
    <3> QED BY <3>2, <3>3, <3>4
  <2>3. CASE EditGates
    <3>1. PICK g \in Gates :
            obj' = [obj EXCEPT !.rv = @ + 1, !.gates = IF g \in @ THEN @ \ {g} ELSE @ \cup {g}]
      BY <2>3 DEF EditGates
    <3> DEFINE gs == IF g \in obj.gates THEN obj.gates \ {g} ELSE obj.gates \cup {g}
    <3>2. gs \in SUBSET Gates
      BY <1>2, <3>1 DEF Objects
    <3>3. obj' = [obj EXCEPT !.rv = obj.rv + 1, !.gates = gs]
      BY <3>1, <1>2 DEF Objects
    <3> HIDE DEF gs
    <3>4. /\ obj'.rv = obj.rv + 1 /\ obj'.deleting = obj.deleting /\ obj'.exists = obj.exists
          /\ obj'.ref = obj.ref /\ obj'.phase = obj.phase /\ obj'.finalizer = obj.finalizer
      BY <3>3, <1>2 DEF Objects
    <3>5. obj.rv + 1 \in Nat /\ obj.rv + 1 > obj.rv
      BY <1>2
    <3>6. obj' \in Objects
      BY <3>2, <3>3, <3>5, <1>2 DEF Objects
    <3> QED BY <1>2, <3>4, <3>5, <3>6
  <2> QED BY <2>1, <2>2, <2>3
<1>4. UNCHANGED <<cache, pc, wl, exec, succeeded, faults>> /\ edits' \in 0 .. MaxEdits
  <2>1. edits \in 0 .. MaxEdits
    BY <1>1 DEF TypeOK
  <2>2. edits' = edits \/ (edits < MaxEdits /\ edits' = edits + 1)
    BY DEF EditType, EditGates, Delete, bounds
  <2>3. edits' \in 0 .. MaxEdits
    BY <2>1, <2>2
  <2> QED BY <2>3 DEF EditType, EditGates, Delete, bounds
<1>5. TypeOK'
  BY <1>1, <1>3, <1>4 DEF TypeOK
<1>6. CopiesInv'
  <2>1. cache \in Objects /\ wl \in Objects
    BY <1>1 DEF TypeOK
  <2>2. CopyOf(cache, obj')
    BY <1>1, <1>2, <1>3, <2>1, CopyKept DEF CopiesInv
  <2>3. pc \in {"finalize", "dispatch", "unfinalize"} => CopyOf(wl, obj')
    BY <1>1, <1>2, <1>3, <2>1, CopyKept DEF CopiesInv
  <2>4. pc = "commit" => WorkOf(wl, obj')
    BY <1>1, <1>2, <1>3, <2>1, WorkKept DEF CopiesInv
  <2> QED BY <1>4, <2>2, <2>3, <2>4 DEF CopiesInv
<1>7. CompletedInv'
  BY <1>1, <1>3, <1>4 DEF CompletedInv, Earned
<1>8. GoneInv'
  BY <1>1, <1>2, <1>3, <1>4 DEF GoneInv, FinalizerFirst
<1> QED BY <1>5, <1>6, <1>7, <1>8 DEF RuntimeInv

LEMMA ExecutionKeeps ==
  ASSUME RuntimeInv, NEW r \in Runtimes, Progress(r) \/ Collect(r)
  PROVE  RuntimeInv'
<1>1. TypeOK /\ CopiesInv /\ CompletedInv /\ GoneInv
  BY DEF RuntimeInv
<1>2. UNCHANGED <<obj, cache, pc, wl, edits, faults>>
  BY DEF Progress, Collect, bounds
<1>3. /\ exec' \in [Runtimes -> ExecPhases \cup {Absent}]
      /\ succeeded' \subseteq Runtimes /\ succeeded \subseteq succeeded'
      /\ \A x \in Runtimes : exec'[x] = "Succeeded" => x \in succeeded'
      /\ \A x \in Runtimes : exec[x] = Absent => exec'[x] = Absent
  <2>1. CASE Progress(r)
    <3>1. PICK p \in {"Running", "Succeeded", "Failed"} :
            exec' = [exec EXCEPT ![r] = p] /\ exec[r] # Absent
      BY <2>1 DEF Progress, Absent
    <3>2. exec'[r] = p /\ \A x \in Runtimes : x # r => exec'[x] = exec[x]
      BY <3>1, <1>1 DEF TypeOK
    <3>3. succeeded' = IF exec'[r] = "Succeeded" THEN succeeded \cup {r} ELSE succeeded
      BY <2>1 DEF Progress
    <3>4. exec' \in [Runtimes -> ExecPhases \cup {Absent}]
      BY <3>1, <1>1 DEF TypeOK, ExecPhases
    <3> QED BY <3>1, <3>2, <3>3, <3>4, <1>1 DEF TypeOK, CompletedInv
  <2>2. CASE Collect(r)
    <3>1. exec' = [exec EXCEPT ![r] = Absent] /\ succeeded' = succeeded
      BY <2>2 DEF Collect
    <3> QED BY <3>1, <1>1 DEF TypeOK, CompletedInv, Absent
  <2> QED BY <2>1, <2>2
<1>4. TypeOK' /\ CopiesInv'
  BY <1>1, <1>2, <1>3 DEF TypeOK, CopiesInv
<1>5. CompletedInv'
  BY <1>1, <1>2, <1>3 DEF CompletedInv, Earned
<1>6. GoneInv'
  <2>1. /\ wl.ref # "none" => wl.ref \in Runtimes
        /\ obj.ref # "none" => obj.ref \in Runtimes
    BY <1>1 DEF TypeOK, Objects
  <2> QED BY <1>1, <1>2, <1>3, <2>1 DEF GoneInv, FinalizerFirst
<1> QED BY <1>4, <1>5, <1>6 DEF RuntimeInv

LEMMA RuntimeStep == RuntimeInv /\ [Next]_vars => RuntimeInv'
<1> SUFFICES ASSUME RuntimeInv, [Next]_vars PROVE RuntimeInv'
  OBVIOUS
<1>1. CASE UNCHANGED vars
  BY <1>1 DEF vars, RuntimeInv, TypeOK, CopiesInv, CompletedInv, Earned, GoneInv, FinalizerFirst
<1>2. CASE Reconcile
  BY <1>2, TemplateKeeps, ClearKeeps, FetchKeeps, CleanupKeeps, RemoveKeeps, RuntimeKeeps, CommitKeeps DEF Reconcile
<1>3. CASE Environment
  BY <1>3, CrashKeeps, UserKeeps, ExecutionKeeps DEF Environment
<1> QED BY <1>1, <1>2, <1>3 DEF Next

-----------------------------------------------------------------------------
(* The theorems.                                                           *)

(* No step drops or replaces a stored reference: the writes that could,    *)
(* the finalizer's and the status update, are refused unless the copy they *)
(* rest on is the stored version.                                          *)
LEMMA ReferenceKept ==
  ASSUME RuntimeInv, Next, obj.ref # "none"
  PROVE  obj'.ref = obj.ref
<1> USE RuntimeAssumption
<1>1. TypeOK /\ CopiesInv
  BY DEF RuntimeInv
<1>2. obj \in Objects /\ cache \in Objects /\ wl \in Objects
  BY <1>1 DEF TypeOK
<1>3. ASSUME NEW w \in Objects, CopyOf(w, obj), NEW new \in Objects, new.ref = w.ref,
             Fresh(w), obj' = Stored(new)
      PROVE  obj'.ref = obj.ref
  <2>1. w = obj
    BY <1>3 DEF CopyOf, Fresh
  <2> QED BY <1>2, <1>3, <2>1, StoredVersion
<1>9. CASE TemplateGate
  <2> DEFINE new == [errored(cache) EXCEPT !.rejected = TRUE]
  <2>1. new \in Objects /\ new.ref = cache.ref
    <3>1. errored(cache) \in Objects /\ errored(cache).ref = cache.ref
      BY <1>2 DEF errored, Objects, Phases
    <3> QED BY <3>1 DEF Objects
  <2>2. obj' = obj \/ (Fresh(cache) /\ obj' = Stored(new))
    BY <1>9 DEF TemplateGate
  <2> HIDE DEF new
  <2> QED BY <1>1, <1>2, <1>3, <2>1, <2>2 DEF CopiesInv
<1>10. CASE ClearRejection
  <2> DEFINE new == [cache EXCEPT !.rejected = FALSE]
  <2>1. new \in Objects /\ new.ref = cache.ref
    BY <1>2 DEF Objects
  <2>2. obj' = obj \/ (Fresh(cache) /\ obj' = Stored(new))
    BY <1>10 DEF ClearRejection
  <2> HIDE DEF new
  <2> QED BY <1>1, <1>2, <1>3, <2>1, <2>2 DEF CopiesInv
<1>11. CASE FetchAndFinalize
  <2>1. PICK w \in Objects : CopyOf(w, obj) /\ AddFinalizer(w)
    BY <1>1, <1>2, <1>11 DEF FetchAndFinalize, CopiesInv
  <2> DEFINE new == [w EXCEPT !.finalizer = TRUE]
  <2>2. new \in Objects /\ new.ref = w.ref
    BY DEF Objects
  <2>3. obj' = obj \/ (Fresh(w) /\ obj' = Stored(new))
    BY <2>1 DEF AddFinalizer
  <2> HIDE DEF new
  <2> QED BY <1>3, <2>1, <2>2, <2>3
<1>4. CASE RemoveFinalizer
  <2>1. CASE Fresh(wl)
    <3>1. wl = obj
      BY <1>1, <1>4, <2>1 DEF CopiesInv, CopyOf, Fresh, RemoveFinalizer
    <3>2. obj' = [obj EXCEPT !.rv = @ + 1, !.exists = FALSE, !.finalizer = FALSE]
      BY <1>4, <2>1, <3>1 DEF RemoveFinalizer
    <3>3. obj'.ref = obj.ref
      BY <3>2, <1>2 DEF Objects
    <3> QED BY <3>3
  <2> QED BY <1>4, <2>1 DEF RemoveFinalizer
<1>5. CASE CommitStatus
  <2>1. CASE Fresh(wl)
    <3>1. wl.ref = obj.ref
      BY <1>1, <1>5, <2>1 DEF CopiesInv, WorkOf, Fresh, CommitStatus
    <3>2. obj' = Stored(wl)
      BY <1>5, <2>1 DEF CommitStatus
    <3> QED BY <1>2, <3>1, <3>2, StoredVersion
  <2> QED BY <1>5, <2>1 DEF CommitStatus
<1>6. CASE EditType
  <2>1. PICK t \in Types : obj' = [obj EXCEPT !.rv = @ + 1, !.type = t]
    BY <1>6 DEF EditType
  <2> QED BY <2>1, <1>2 DEF Objects
<1>12. CASE EditGates
  <2>1. PICK g \in Gates :
          obj' = [obj EXCEPT !.rv = @ + 1, !.gates = IF g \in @ THEN @ \ {g} ELSE @ \cup {g}]
    BY <1>12 DEF EditGates
  <2> QED BY <2>1, <1>2 DEF Objects
<1>7. CASE Delete
  <2>1. obj' = [obj EXCEPT !.rv = @ + 1, !.deleting = TRUE, !.exists = obj.finalizer]
    BY <1>7 DEF Delete
  <2> QED BY <2>1, <1>2 DEF Objects
<1>8. CASE obj' = obj
  BY <1>8
<1> QED BY <1>4, <1>5, <1>6, <1>7, <1>8, <1>9, <1>10, <1>11, <1>12
        DEF Next, Reconcile, Environment, PackGate, LicenceGate, Cleanup, CleanupFails,
            NoAdapter, PollStatus, Execute,
            Crash, SyncCache, Progress, Collect

(* Whatever edits, crashes, failed calls, stale copies and collected       *)
(* executions do, reconcileViaRuntime and the finalizer keep the stored    *)
(* reference, clean up what it names before the workload goes, and report  *)
(* Completed only for an execution of that runtime that succeeded.         *)
THEOREM ReferenceSound == Spec => ReferenceIsSound
<1>1. RuntimeInv => TypeOK /\ ReferencedIsCleaned /\ CompletedMeansSucceeded
  BY DEF RuntimeInv, GoneInv, CompletedInv, Earned, ReferencedIsCleaned, CompletedMeansSucceeded
<1>2. RuntimeInv /\ [Next]_vars => [obj.ref # "none" => obj'.ref = obj.ref]_vars
  BY ReferenceKept
<1> QED BY <1>1, <1>2, RuntimeInit, RuntimeStep, PTL
        DEF Spec, ReferenceIsSound, ReferenceIsAuthoritative

=============================================================================
