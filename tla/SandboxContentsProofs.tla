----------------------- MODULE SandboxContentsProofs ------------------------
(***************************************************************************)
(* What runs in the sandboxes, for every value of the constants: nothing   *)
(* that nobody answers for, nothing under a suspended lease, and, under a  *)
(* live lease, the guest its holder last saw.  The theorems are about one  *)
(* backend process: a restart forgets what its operations had in hand.     *)
(***************************************************************************)
EXTENDS SandboxOwnershipProofs

\* The goroutine boots, or has booted, a guest under its lease's own id.
InPlace(w) == Holds(w) /\ ResumesInPlace(work[w].op)

\* A guest that was snapshot and stopped is not running while its operation
\* goes on: nobody else starts anything under its id.
StoppedInHand ==
    \A w \in Workers : work[w].pc \in {"paused", "ckptResume"} =>
        vm[lease[work[w].lease].sandbox] = NoVM

-----------------------------------------------------------------------------
(* Who answers for a running sandbox. *)

\* The pool, an operation, or a live lease that is not released.
Placed(s) ==
    s \in pool \/ InHand(s) \/ \E l \in Owners(s) : l \notin released /\ live(l)

Stray(s) == vm[s] # NoVM /\ ~Placed(s)

\* A checkpoint found the guest of a live lease running.
CheckpointsLive ==
    \A w \in Workers :
        work[w].pc \in {"ckptResume", "ckptRecord"} /\ work[w].lease \notin released =>
            live(work[w].lease)

\* The old sandbox is gone before the lease names another one; only a grant
\* and a pool fill, which have none, are probed before they commit.
OldDropped ==
    \A w \in Workers :
        /\ \/ work[w].op = "fresh" /\ work[w].pc \in CreatePath
           \/ work[w].op \in {"cold", "restore"} /\ work[w].pc = "commit"
           => vm[lease[work[w].lease].sandbox] = NoVM
        /\ work[w].pc = "probe" => work[w].op \in {"grant", "fill"}

\* Only a released lease may name a stray sandbox.
LeasesPlaced == \A s \in Sandboxes : Stray(s) => Owners(s) \subseteq released

\* The inductive invariant of the guests.
GInv == OInv /\ StoppedInHand /\ CheckpointsLive /\ OldDropped /\ LeasesPlaced

\* The reconcile does not run.
NoReconcile == startup = "no" /\ work[Reconciler].pc = "idle"

\* So it forgets no pooled sandbox that its list did not show; nor does it
\* where there is none.
PoolListed == NoPool \/ NoReconcile

NoneStray == \A s \in Sandboxes : ~Stray(s)

-----------------------------------------------------------------------------
(* What a step of one operation does to the sandboxes of the others. *)

\* A lease gets another sandbox by the commit of its own operation only.
LEMMA SandboxMoved ==
    ASSUME OInv, NEW w \in Workers, WorkStep(w), NEW k \in Leases,
           lease'[k].sandbox # lease[k].sandbox
    PROVE  /\ Commit(w) /\ k = work[w].lease /\ k \notin released
           /\ HoldsBusy(w) \/ (work[w].op = "grant" /\ lease[k].state = "none")
<1>   IInv /\ lease \in [Leases -> LeaseRecord] /\ GrantFresh /\ WorkOK(w)
  BY DEF OInv, RInv, IInv, TypeOK, WorkInv
<1>   Commit(w)
  <2>   ~Admit(w) /\ ~Pop(w)
    BY ZenonT(60) DEF Admit, Pop, memVars
  <2> QED BY WorkHolds DEF SandboxesKept
<1>   /\ work[w].op # "fill" /\ work[w].lease \notin released
      /\ lease' = [lease EXCEPT ![work[w].lease] = Committed(w)]
  BY ZenonT(60) DEF Commit, Save, leaseReleased
<1>   k = work[w].lease
  OBVIOUS
<1>   work[w].pc = "commit" /\ work[w].op \in BusyOps \cup {"grant", "fill"}
  BY ZenonT(60) DEF Commit, WorkOK, CreateSteps
<1>5. CASE work[w].op \in BusyOps
  BY <1>5 DEF HoldsBusy, CreateSteps
<1>6. CASE work[w].op = "grant"
  BY <1>6 DEF GrantFresh
<1> QED BY <1>5, <1>6

\* So nobody gives another sandbox to a lease in hand or to a released one.
LEMMA SandboxStays ==
    ASSUME OInv, NEW w \in Workers, WorkStep(w), NEW k \in Leases,
           \/ \E v \in Workers \ {w} : HoldsBusy(v) /\ work[v].lease = k
           \/ k \in released
    PROVE  lease'[k].sandbox = lease[k].sandbox
<1>1. ASSUME NEW v \in Workers \ {w}, HoldsBusy(v), work[v].lease = k,
             lease'[k].sandbox # lease[k].sandbox
      PROVE  FALSE
  <2> USE <1>1
  <2>   k = work[w].lease /\ (HoldsBusy(w) \/ lease[k].state = "none")
    BY SandboxMoved
  <2>   k \in inStore \cup released
    BY ZenonT(60) DEF OInv, RInv, IInv, WorkInv, WorkOK, HoldsBusy
  <2> QED BY DEF OInv, RInv, IInv, BusyExclusive, StoreGranted
<1>   k \in released => lease'[k].sandbox = lease[k].sandbox
  BY SandboxMoved
<1> QED BY <1>1

\* A boot under a lease's id is its own operation's.
LEMMA BootsOwn ==
    ASSUME OInv, NEW w \in Workers, NEW k \in Leases, lease[k].sandbox \in Sandboxes,
           \/ work[w].pc = "create" /\ lease[k].sandbox = work[w].id
           \/ work[w].pc = "ckptResume" /\ lease[k].sandbox = lease[work[w].lease].sandbox
    PROVE  work[w].lease = k /\ HoldsBusy(w) /\ (work[w].pc = "create" => InPlace(w))
<1>   WorkOK(w) /\ NamedOnce /\ HeldOnce
  BY DEF OInv, OwnInv, RInv, IInv, WorkInv
<1>1. CASE work[w].pc = "create" /\ lease[k].sandbox = work[w].id
  <2> USE <1>1
  <2>   Holds(w) /\ InPlace(w)
    BY DEF HeldOnce, Holds, Fresh, InPlace
  <2>   work[w].op \in BusyOps /\ work[w].lease \in Leases
    BY ZenonT(60) DEF WorkOK, InPlace, ResumesInPlace, BusyOps
  <2>   work[w].id = lease[work[w].lease].sandbox
    BY DEF HeldOnce, InPlace
  <2> QED BY DEF NamedOnce, HoldsBusy, CreateSteps
<1>2. CASE work[w].pc = "ckptResume" /\ lease[k].sandbox = lease[work[w].lease].sandbox
  <2> USE <1>2
  <2>   work[w].op \in BusyOps /\ work[w].lease \in Leases
    BY ZenonT(60) DEF WorkOK, BusySteps
  <2> QED BY DEF NamedOnce, HoldsBusy, BusySteps
<1> QED BY <1>1, <1>2

\* An empty sandbox of a lease in hand stays empty while others step.
LEMMA EmptyStays ==
    ASSUME OInv, NEW w \in Workers, WorkStep(w), NEW v \in Workers \ {w}, HoldsBusy(v),
           vm[lease[work[v].lease].sandbox] = NoVM
    PROVE  vm'[lease'[work[v].lease].sandbox] = NoVM
<1> DEFINE k == work[v].lease
<1>   k \in Leases /\ lease[k].sandbox \in Sandboxes
  BY ZenonT(60) DEF OInv, RInv, IInv, WorkInv, WorkOK, HoldsBusy
<1>2. lease'[k].sandbox = lease[k].sandbox
  BY SandboxStays
<1>3. ASSUME vm'[lease[k].sandbox] # NoVM PROVE FALSE
  <2>   \/ work[w].pc = "create" /\ lease[k].sandbox = work[w].id
        \/ work[w].pc = "ckptResume" /\ lease[k].sandbox = lease[work[w].lease].sandbox
    BY <1>3, WorkNode DEF NodeStep
  <2>   work[w].lease = k /\ HoldsBusy(w)
    BY BootsOwn, ZenonT(60)
  <2> QED BY DEF OInv, RInv, IInv, BusyExclusive
<1> QED BY <1>2, <1>3

\* Who has just stopped a guest.
LEMMA StopsGuest ==
    ASSUME OInv, NEW w \in Workers, WorkStep(w), work'[w].pc \in {"paused", "ckptResume"}
    PROVE  /\ work[w].pc = IF work'[w].pc = "paused" THEN "pause" ELSE "ckpt"
           /\ work'[w].lease = work[w].lease
           /\ work'[w].build = vm[lease[work[w].lease].sandbox]
           /\ vm[lease[work[w].lease].sandbox] \in Moments
           /\ vm' = [vm EXCEPT ![lease[work[w].lease].sandbox] = NoVM]
           /\ UNCHANGED <<lease, inStore, released, busy, reached, pool>>
<1>   work \in [Workers -> WorkRecord]
  BY DEF OInv, RInv, IInv, TypeOK
<1> USE DEF memVars
<1>1. CASE work'[w].pc = "paused"
  <2> USE <1>1
  <2>   Pause(w) /\ ~Leave(w)
    BY ToStopped
  <2> QED BY ZenonT(60) DEF Pause, WorkRecord
<1>2. CASE work'[w].pc = "ckptResume"
  <2> USE <1>2
  <2>   Checkpoint(w) /\ ~Leave(w)
    BY ToStopped
  <2> QED BY ZenonT(60) DEF Checkpoint, WorkRecord
<1> QED BY <1>1, <1>2

\* Nobody else starts a guest under the id of one that was stopped.
LEMMA WorkStopped ==
    ASSUME OInv, StoppedInHand, NEW w \in Workers, WorkStep(w) PROVE StoppedInHand'
<1>   /\ vm \in [Sandboxes -> VMs] /\ WorkOK(w) /\ OpAt(w)
      /\ \A v \in Workers \ {w} : work'[v] = work[v]
  BY WorkAlone DEF OInv, RInv, IInv, TypeOK, WorkInv, PhaseInv, VMs
<1>1. ASSUME NEW v \in Workers \ {w}, work'[v].pc \in {"paused", "ckptResume"}
      PROVE  vm'[lease'[work'[v].lease].sandbox] = NoVM
  <2> USE <1>1
  <2>   HoldsBusy(v)
    BY ZenonT(60) DEF OInv, RInv, IInv, WorkInv, WorkOK, HoldsBusy, BusySteps
  <2> QED BY EmptyStays DEF StoppedInHand
<1>2. ASSUME work'[w].pc \in {"paused", "ckptResume"}
      PROVE  vm'[lease'[work'[w].lease].sandbox] = NoVM
  <2> USE <1>2
  <2>   lease[work[w].lease].sandbox \in Sandboxes
    BY StopsGuest DEF WorkOK, BusySteps
  <2> QED BY StopsGuest
<1> QED BY <1>1, <1>2 DEF StoppedInHand

-----------------------------------------------------------------------------
(* Nothing runs that nobody answers for. *)

\* What another operation has in hand stays in its hands.
LEMMA InHandOthers ==
    ASSUME OInv, NEW w \in Workers, WorkStep(w), NEW s, NEW v \in Workers \ {w},
           \/ Holds(v) /\ work[v].id = s
           \/ /\ work[v].pc \in {"ckptRecord", "relDelete", "stopLost"}
              /\ lease[work[v].lease].sandbox = s
    PROVE  InHand(s)'
<1>   work'[v] = work[v] /\ WorkOK(v)
  BY WorkAlone DEF OInv, RInv, IInv, WorkInv
<1>1. CASE Holds(v) /\ work[v].id = s
  BY <1>1 DEF InHand, Holds
<1>2. CASE /\ work[v].pc \in {"ckptRecord", "relDelete", "stopLost"}
           /\ lease[work[v].lease].sandbox = s
  <2> USE <1>2
  <2>   work[v].lease \in Leases /\ (HoldsBusy(v) \/ work[v].lease \in released)
    BY DEF WorkOK, HoldsBusy, BusySteps
  <2>   lease'[work[v].lease].sandbox = lease[work[v].lease].sandbox
    BY SandboxStays
  <2> QED BY ZenonT(60) DEF InHand
<1> QED BY <1>1, <1>2, ZenonT(60)

\* A delete that cannot fail.
LEMMA DeleteSure ==
    ASSUME "delete" \notin Faults, vm \in [Sandboxes -> VMs], NEW s \in Sandboxes, NEW keep,
           Delete(s, keep)
    PROVE  vm'[s] = NoVM
BY ZenonT(60) DEF Delete

\* What an operation lets go of is gone, stocked, or a live lease's.
LEMMA LetsGo ==
    ASSUME "delete" \notin Faults, OInv, NEW w \in Workers, WorkStep(w), Holds(w), ~Holds(w)',
           NEW s \in Sandboxes, s = work[w].id, vm'[s] # NoVM
    PROVE  Placed(s)'
<1> DEFINE l == work[w].lease
<1>0. /\ work \in [Workers -> WorkRecord] /\ vm \in [Sandboxes -> VMs]
      /\ lease \in [Leases -> LeaseRecord] /\ TypeOK /\ WorkOK(w) /\ HeldOnce
  BY ZenonT(60) DEF OInv, OwnInv, RInv, IInv, TypeOK, WorkInv, WorkOK, VMs
<1>1. ~Delete(s, {}) /\ ~Delete(s, {s})
  BY <1>0, DeleteSure
<1>2. \A step : Goto(w, step) => step \notin {"validate", "create", "check", "dropOld", "probe", "commit"}
  BY <1>0 DEF Goto, Holds, WorkRecord
<1>3. CASE Commit(w)
  <2> USE <1>3
  <2>1. CASE work[w].op = "fill"
    BY <2>1, <1>1, ZenonT(60) DEF Commit, StopFresh, Placed
  <2>2. CASE work[w].op # "fill"
    <3>   /\ l \notin released /\ lease' = [lease EXCEPT ![l] = Committed(w)]
          /\ inStore' = inStore \cup (IF work[w].op = "grant" THEN {l} ELSE {})
          /\ released' = released
      BY ZenonT(60), <1>1, <2>2 DEF Commit, StopFresh, Save, leaseReleased
    <3>   l \in Leases /\ l \in inStore'
      BY ZenonT(60), <1>0, <2>2 DEF Commit, WorkOK, CreateSteps
    <3>3. lease'[l] = Committed(w)
      BY <1>0
    <3>4. Committed(w).sandbox = s
      BY <1>0, <2>2, CommittedSandbox, ZenonT(60) DEF HeldOnce, Commit
    <3>5. Committed(w).state \in {"running", "recovered"}
      BY <1>0, CommittedHeld, ZenonT(60)
    <3>   PICK k \in Leases : k = l
      OBVIOUS
    <3>   k \in Owners(s)' /\ live(k)' /\ k \notin released'
      BY <3>3, <3>4, <3>5 DEF Owners, live
    <3> QED BY DEF Placed
  <2> QED BY <2>1, <2>2, ZenonT(60)
<1>4. CASE Create(w)
  <2>1. CASE Boot(s, work[w].build) /\ Goto(w, "check")
    BY <1>2, <2>1
  <2>2. CASE vm' = [vm EXCEPT ![s] = NoVM]
    BY <1>0, <2>2
  <2> QED BY ZenonT(60), <1>4, <2>1, <2>2 DEF Create
<1>5. CASE Check(w)
  <2>   (CASE work[w].op \in {"grant", "fill"} -> "probe"
           [] work[w].op \in {"cold", "restore"} -> "dropOld"
           [] OTHER -> "commit") \in {"probe", "dropOld", "commit"}
    OBVIOUS
  <2> QED BY ZenonT(60), <1>1, <1>2, <1>5 DEF Check, StopFresh
<1>6. CASE Probe(w) \/ DropOld(w) \/ Validate(w)
  BY ZenonT(60), <1>1, <1>2, <1>6 DEF Probe, DropOld, Validate, StopFresh
<1> QED
  BY ZenonT(60), <1>3, <1>4, <1>5, <1>6
  DEF Holds, WorkStep, Begin, EndBusy, Pause, Paused, Admit, DropFirst, EndCreate, Pop, Checkpoint,
      CheckpointResume, CheckpointRecord, Mark, Crash, Recover, RetryFailed, Lose, StopLost,
      ReleaseDelete, ReleaseDrop

\* A guest that is started is in hand.
LEMMA StartsInHand ==
    ASSUME "delete" \notin Faults, OInv, NEW w \in Workers, WorkStep(w), NEW s \in Sandboxes,
           vm[s] = NoVM, vm'[s] # NoVM
    PROVE  InHand(s)'
<1>   /\ work \in [Workers -> WorkRecord] /\ vm \in [Sandboxes -> VMs] /\ NodeStep(w)
  BY WorkNode, ZenonT(60) DEF OInv, RInv, IInv, TypeOK, VMs
<1>1. CASE work[w].pc = "create" /\ s = work[w].id
  <2> USE <1>1
  <2>1. Create(w)
    BY ZenonT(60) DEF WorkStep, Begin, EndBusy, Pause, Paused, Admit, DropFirst, EndCreate,
       Pop, Checkpoint, CheckpointResume, CheckpointRecord, Mark, Crash, Recover, RetryFailed,
       Lose, StopLost, ReleaseDelete, ReleaseDrop, Check, Probe, DropOld, Commit, Validate
  <2>   Goto(w, "check")
    BY <2>1 DEF Create
  <2>   work'[w].pc = "check" /\ work'[w].id = s
    BY ZenonT(60) DEF Goto, WorkRecord
  <2> QED BY ZenonT(60) DEF InHand, Holds
<1>2. CASE work[w].pc = "ckptResume" /\ s = lease[work[w].lease].sandbox
  <2> USE <1>2
  <2>1. CheckpointResume(w)
    BY ZenonT(60) DEF WorkStep, Begin, EndBusy, Pause, Paused, Admit, DropFirst, EndCreate,
       Pop, Checkpoint, Create, CheckpointRecord, Mark, Crash, Recover, RetryFailed,
       Lose, StopLost, ReleaseDelete, ReleaseDrop, Check, Probe, DropOld, Commit, Validate
  <2>   Goto(w, "ckptRecord") /\ lease' = lease
    BY <2>1, ZenonT(60) DEF CheckpointResume, memVars
  <2>   work'[w].pc = "ckptRecord" /\ work'[w].lease = work[w].lease
    BY ZenonT(60) DEF Goto, WorkRecord
  <2> QED BY ZenonT(60) DEF InHand
<1> QED BY <1>1, <1>2, ZenonT(60) DEF NodeStep

\* The steps at which a goroutine answers for a sandbox go with its step.
LEMMA AtStep ==
    ASSUME NEW w \in Workers, WorkStep(w)
    PROVE  /\ work[w].pc = "ckptRecord" => CheckpointRecord(w)
           /\ work[w].pc = "relDelete" => ReleaseDelete(w)
           /\ work[w].pc = "stopLost" => StopLost(w)
           /\ work[w].pc = "commit" => Commit(w)
           /\ work[w].pc = "create" => Create(w)
           /\ work[w].pc = "ckptResume" => CheckpointResume(w)
           /\ work[w].pc = "paused" => Paused(w)
           /\ Holds(w) => \/ work[w].pc \in {"create", "commit"}
                          \/ Validate(w) \/ Check(w) \/ Probe(w) \/ DropOld(w)
<1>   Holds(w) => \/ work[w].pc \in {"create", "commit"}
                  \/ Validate(w) \/ Check(w) \/ Probe(w) \/ DropOld(w)
  BY ZenonT(60) DEF Holds, WorkStep, Begin, EndBusy, Pause, Paused, Admit, DropFirst, EndCreate,
     Pop, Checkpoint, CheckpointResume, Create, CheckpointRecord, Mark, Crash, Recover, RetryFailed,
     Lose, StopLost, ReleaseDelete, ReleaseDrop, Commit
<1> QED
  BY ZenonT(60) DEF WorkStep, Begin, EndBusy, Pause, Paused, Admit, DropFirst, EndCreate,
   Pop, Checkpoint, CheckpointResume, Create, CheckpointRecord, Mark, Crash, Recover, RetryFailed,
   Lose, StopLost, ReleaseDelete, ReleaseDrop, Check, Probe, DropOld, Commit, Validate

\* A live lease that ceases to be, or that gets another sandbox, leaves no
\* guest behind.
LEMMA LeavesNoGuest ==
    ASSUME OInv, StoppedInHand, OldDropped, NEW w \in Workers, WorkStep(w),
           NEW s \in Sandboxes, vm[s] # NoVM, NEW l \in Owners(s), l \notin released, live(l)
    PROVE  \/ InHand(s)'
           \/ l \in Owners(s)' /\ l \notin released' /\ live(l)'
<1>   /\ work \in [Workers -> WorkRecord] /\ lease \in [Leases -> LeaseRecord] /\ TypeOK
      /\ l \in Leases /\ l \in inStore /\ lease[l].sandbox = s /\ WorkOK(w) /\ OpAt(w)
      /\ inStore \subseteq Leases
  BY ZenonT(60) DEF OInv, RInv, IInv, TypeOK, WorkInv, PhaseInv, Owners
<1> USE DEF memVars
<1>1. l \in inStore' /\ released' = released
  <2>1. CASE ReleaseDrop(w)
    BY <2>1 DEF ReleaseDrop, WorkOK
  <2> QED BY ZenonT(60), <2>1
      DEF WorkStep, Begin, EndBusy, Pause, Paused, Admit, DropFirst, EndCreate,
          Pop, Checkpoint, CheckpointResume, Create, CheckpointRecord, Mark, Crash, Recover,
          RetryFailed, Lose, StopLost, ReleaseDelete, Check, Probe, DropOld, Commit, Validate
<1>2. lease'[l].sandbox = s
  <2>1. ASSUME lease'[l].sandbox # lease[l].sandbox PROVE FALSE
    <3>   Commit(w) /\ l = work[w].lease /\ l \notin released /\ work[w].op \in BusyOps
      BY <2>1, SandboxMoved, ZenonT(60) DEF HoldsBusy, live
    <3>   work[w].pc = "commit" /\ work[w].op # "fill"
      BY ZenonT(60) DEF Commit, BusyOps
    <3>   work[w].op \in {"fresh", "cold", "restore"}
      <4>   ~ResumesInPlace(work[w].op)
        <5>1. ASSUME ResumesInPlace(work[w].op) PROVE FALSE
          <6>1. work[w].id = lease[l].sandbox
            BY <5>1 DEF OInv, OwnInv, HeldOnce, Holds
          <6>   lease' = [lease EXCEPT ![l] = Committed(w)]
            BY ZenonT(60), <2>1 DEF Commit, Save
          <6>   Committed(w).sandbox = work[w].id
            BY CommittedSandbox
          <6> QED BY <2>1, <6>1, ZenonT(60)
        <5> QED BY <5>1, ZenonT(60)
      <4> QED BY ZenonT(60) DEF OpAt, CreatingOps, ResumesInPlace, BusyOps, CreateSteps
    <3> QED BY DEF OldDropped, CreatePath, CreateSteps
  <2> QED BY <2>1, ZenonT(60)
<1>3. CASE live(l)'
  BY <1>1, <1>2, <1>3, ZenonT(60) DEF Owners
<1>4. CASE Paused(w)
  <2> USE <1>4
  <2>1. CASE l = work[w].lease
    BY <2>1 DEF Paused, StoppedInHand
  <2>2. CASE l # work[w].lease
    <3>   lease'[l] = lease[l]
      BY <2>2, ZenonT(60) DEF Paused, Save
    <3> QED BY <1>3 DEF live
  <2> QED BY <2>1, <2>2, ZenonT(60)
<1>5. CASE Lose(w)
  <2>1. CASE l = work[w].lease
    <3> USE <2>1
    <3>   Goto(w, "stopLost")
      BY <1>5 DEF Lose, leaseReleased
    <3>   work'[w].pc = "stopLost" /\ work'[w].lease = l
      BY DEF Goto, WorkRecord
    <3> QED BY <1>2 DEF InHand
  <2>2. CASE l # work[w].lease
    <3>   lease'[l] = lease[l]
      BY <1>5, <2>2 DEF Lose, Save
    <3> QED BY <1>3 DEF live
  <2> QED BY <2>1, <2>2, ZenonT(60)
<1>6. CASE CheckpointRecord(w) \/ Mark(w)
  <2>   lease'[l].state = lease[l].state
    <3>1. CASE CheckpointRecord(w)
      BY <3>1 DEF CheckpointRecord, Save, LeaseRecord
    <3>2. CASE Mark(w)
      BY <3>2, ZenonT(60) DEF Mark, Save
    <3> QED BY <1>6, <3>1, <3>2, ZenonT(60)
  <2> QED BY <1>3, ZenonT(60) DEF live
<1>7. CASE Commit(w)
  <2>1. CASE lease'[l] = lease[l]
    BY <1>3, <2>1, ZenonT(60) DEF live
  <2>2. CASE lease'[l] # lease[l]
    <3> USE <2>2
    <3>1. work[w].op # "fill" /\ lease' = [lease EXCEPT ![work[w].lease] = Committed(w)]
      BY ZenonT(60), <1>7 DEF Commit, Save
    <3>   l = work[w].lease /\ lease'[l] = Committed(w)
      BY <3>1
    <3>   work[w].id \in Sandboxes
      BY <1>7, ZenonT(60) DEF Commit, WorkOK, Holds
    <3>   Committed(w).state \in {"running", "recovered"}
      BY CommittedHeld, ZenonT(60)
    <3> QED BY <1>3 DEF live
  <2> QED BY <2>1, <2>2, ZenonT(60)
<1>8. CASE UNCHANGED lease
  BY <1>3, <1>8 DEF live
<1> QED
  BY ZenonT(60), <1>4, <1>5, <1>6, <1>7, <1>8
  DEF WorkStep, Begin, EndBusy, Pause, Admit, DropFirst, EndCreate, Pop, Checkpoint,
      CheckpointResume, Create, Crash, Recover, RetryFailed, StopLost, ReleaseDelete, ReleaseDrop,
      Check, Probe, DropOld, Validate

\* So a step of an operation leaves a sandbox to nobody only when a
\* checkpoint's record fails after its lease was released.
LEMMA WorkPlaced ==
    ASSUME "delete" \notin Faults, OInv, StoppedInHand, CheckpointsLive, OldDropped,
           NEW w \in Workers, WorkStep(w), NEW s \in Sandboxes, ~Stray(s), Stray(s)'
    PROVE  /\ "record" \in Faults /\ work[w].pc = "ckptRecord"
           /\ work[w].lease \in released /\ s = lease[work[w].lease].sandbox
<1>0. /\ work \in [Workers -> WorkRecord] /\ vm \in [Sandboxes -> VMs] /\ WorkOK(w) /\ IInv
      /\ inStore \subseteq Leases
  BY ZenonT(60) DEF OInv, RInv, IInv, TypeOK, WorkInv, VMs
<1>   /\ vm'[s] # NoVM /\ ~(s \in pool') /\ ~InHand(s)'
      /\ \A l \in Owners(s)' : ~(l \notin released' /\ live(l)')
  BY DEF Stray, Placed
<1>2. vm[s] # NoVM /\ Placed(s)
  BY <1>0, StartsInHand DEF Stray
<1>3. ASSUME s \in pool PROVE FALSE
  <2>1. CASE Pop(w)
    <3>   PICK t \in pool : pool' = pool \ {t}
                            /\ work' = [work EXCEPT ![w] = [@ EXCEPT !.pc = "validate", !.id = t]]
      BY <1>3, <2>1, ZenonT(60) DEF Pop
    <3>   t = s
      BY <1>3
    <3>   work'[w].pc = "validate" /\ work'[w].id = s
      BY <1>0 DEF WorkRecord
    <3> QED BY DEF InHand, Holds
  <2>2. CASE ~Pop(w)
    <3>   pool \subseteq pool'
      <4>1. CASE Commit(w)
        BY <4>1 DEF Commit
      <4>2. CASE Admit(w)
        BY <4>2, ZenonT(60) DEF Admit
      <4> QED BY <1>0, <2>2, <4>1, <4>2, WorkHolds, ZenonT(60)
    <3> QED BY <1>3
  <2> QED BY <2>1, <2>2
<1>4. ASSUME Holds(w), work[w].id = s PROVE FALSE
  <2> USE <1>4
  <2>1. CASE ~Holds(w)'
    BY <2>1, LetsGo, ZenonT(60) DEF Placed
  <2>2. CASE Holds(w)'
    <3> USE <2>2
    <3>1. ~Admit(w) /\ ~Pop(w)
      BY ZenonT(60) DEF Holds, Admit, Pop
    <3>   ~Commit(w)
      <4>   Commit(w) => ~Holds(w)'
        BY <1>0 DEF Commit, StopFresh, Leave, Goto, Holds, IdleWork, WorkRecord
      <4> QED BY ZenonT(60)
    <3>   work'[w].id = s
      BY <1>0, <3>1, WorkHolds, ZenonT(60) DEF HoldKept
    <3> QED BY DEF InHand
  <2> QED BY <2>1, <2>2, ZenonT(60)
<1>5. ASSUME work[w].pc \in {"relDelete", "stopLost"}, lease[work[w].lease].sandbox = s PROVE FALSE
  <2>   Delete(s, {s})
    BY <1>5, AtStep, ZenonT(60) DEF ReleaseDelete, StopLost
  <2> QED BY <1>0, DeleteSure
<1>6. ASSUME work[w].pc = "ckptRecord", lease[work[w].lease].sandbox = s
      PROVE  "record" \in Faults /\ work[w].lease \in released
  <2> USE <1>6
  <2>1. CheckpointRecord(w) /\ work[w].lease \in Leases /\ work[w].lease \in inStore \cup released
    BY <1>0, AtStep, ZenonT(60) DEF WorkOK, BusySteps
  <2>2. CASE work[w].lease \notin released
    <3> USE <2>2
    <3>   work[w].lease \in Owners(s) /\ live(work[w].lease)
      BY <2>1, ZenonT(60) DEF Owners, CheckpointsLive
    <3>   PICK l \in Owners(s) : l \notin released /\ live(l)
      OBVIOUS
    <3> QED BY <1>2, LeavesNoGuest, ZenonT(60)
  <2>3. CASE work[w].lease \in released /\ "record" \notin Faults
    <3>   Delete(s, {s})
      BY <2>1, <2>3, ZenonT(60) DEF CheckpointRecord, leaseReleased
    <3> QED BY <1>0, DeleteSure
  <2> QED BY <2>2, <2>3
<1>7. ASSUME NEW l \in Owners(s), l \notin released, live(l) PROVE FALSE
  BY <1>2, <1>7, LeavesNoGuest, ZenonT(60)
<1>8. ASSUME NEW v \in Workers \ {w},
             \/ Holds(v) /\ work[v].id = s
             \/ /\ work[v].pc \in {"ckptRecord", "relDelete", "stopLost"}
                /\ lease[work[v].lease].sandbox = s
      PROVE  FALSE
  BY <1>8, InHandOthers, ZenonT(60)
<1> QED BY <1>2, <1>3, <1>4, <1>5, <1>6, <1>7, <1>8, ZenonT(60) DEF Placed, InHand

\* What is in hand of a lease that is not released is in the hands of the
\* operation that owns its busy flag.
LEMMA InHandOfLease ==
    ASSUME OInv, NEW l \in inStore, l \notin released, InHand(lease[l].sandbox)
    PROVE  \E v \in Workers : /\ HoldsBusy(v) /\ work[v].lease = l
                              /\ Holds(v) \/ work[v].pc \in {"ckptRecord", "stopLost"}
<1>   l \in Leases /\ lease[l].sandbox \in Sandboxes /\ NamedOnce /\ HeldOnce
  BY DEF OInv, OwnInv, RInv, IInv, TypeOK, StoreNamed
<1>1. ASSUME NEW v \in Workers, Holds(v), work[v].id = lease[l].sandbox
      PROVE  HoldsBusy(v) /\ work[v].lease = l
  <2> USE <1>1
  <2>   ResumesInPlace(work[v].op)
    BY DEF HeldOnce, Fresh
  <2>   work[v].lease \in Leases /\ work[v].op \in BusyOps /\ WorkOK(v)
    BY ZenonT(60) DEF OInv, RInv, IInv, WorkInv, WorkOK, ResumesInPlace, BusyOps
  <2>   work[v].pc \in CreateSteps
    BY DEF Holds, WorkOK, CreateSteps, BusyOps
  <2> QED BY ZenonT(60) DEF HeldOnce, NamedOnce, HoldsBusy
<1>2. ASSUME NEW v \in Workers, work[v].pc \in {"ckptRecord", "relDelete", "stopLost"},
             lease[work[v].lease].sandbox = lease[l].sandbox
      PROVE  work[v].pc # "relDelete" /\ HoldsBusy(v) /\ work[v].lease = l
  <2> USE <1>2
  <2>   /\ work[v].lease \in Leases
        /\ work[v].pc # "relDelete" => HoldsBusy(v)
        /\ work[v].pc = "relDelete" => work[v].lease \in released
    BY DEF OInv, RInv, IInv, WorkInv, WorkOK, HoldsBusy, BusySteps
  <2> QED BY ZenonT(60) DEF NamedOnce
<1> QED BY <1>1, <1>2, ZenonT(60) DEF InHand

\* Only a checkpoint that has resumed its guest goes on to record it.
LEMMA ToRecord ==
    ASSUME OInv, NEW w \in Workers, WorkStep(w), work'[w].pc = "ckptRecord"
    PROVE  /\ work[w].pc = "ckptResume" /\ work'[w].lease = work[w].lease
           /\ UNCHANGED <<lease, released>>
<1>   work \in [Workers -> WorkRecord]
  BY DEF OInv, RInv, IInv, TypeOK
<1>   ~Leave(w)
  BY DEF Leave, IdleWork, WorkRecord
<1>2. \A step : Goto(w, step) => step = "ckptRecord"
  BY DEF Goto, WorkRecord
<1>3. work' # [work EXCEPT ![w] = IdleWork]
  BY DEF IdleWork
<1>4. CASE CheckpointResume(w)
  BY <1>4 DEF CheckpointResume, Goto, WorkRecord, memVars
<1>5. CASE Begin(w)
  <2>   FirstStep(work[w].op) # "ckptRecord"
    BY DEF FirstStep
  <2> QED BY ZenonT(60), <1>2, <1>3, <1>5 DEF Begin
<1>6. CASE EndBusy(w)
  BY <1>6, ZenonT(60) DEF EndBusy, IdleWork
<1>7. CASE Pause(w) \/ Checkpoint(w)
  <2>1. CASE Pause(w)
    BY <2>1, ZenonT(60) DEF Pause, WorkRecord
  <2>2. CASE Checkpoint(w)
    BY <2>2, ZenonT(60) DEF Checkpoint, WorkRecord
  <2> QED BY <1>7, <2>1, <2>2
<1>8. CASE Admit(w)
  <2>1. ASSUME NEW s, NEW b,
               work' = [work EXCEPT ![w] = [@ EXCEPT !.pc = "create", !.id = s, !.build = b]]
        PROVE  FALSE
    <3>   work'[w] = [work[w] EXCEPT !.pc = "create", !.id = s, !.build = b]
      BY <2>1
    <3> QED BY DEF WorkRecord
  <2> QED BY ZenonT(60), <1>2, <1>8, <2>1 DEF Admit, CreateFailed
<1>9. CASE Pop(w)
  <2>1. ASSUME NEW s, work' = [work EXCEPT ![w] = [@ EXCEPT !.pc = "validate", !.id = s]] PROVE FALSE
    <3>   work'[w] = [work[w] EXCEPT !.pc = "validate", !.id = s]
      BY <2>1
    <3> QED BY DEF WorkRecord
  <2> QED BY ZenonT(60), <1>2, <1>9, <2>1 DEF Pop
<1>10. CASE Crash(w)
  BY <1>10, ZenonT(60) DEF Crash, WorkRecord
<1>11. CASE Check(w) \/ Paused(w)
  <2>1. CASE Check(w)
    BY <2>1 DEF Check, StopFresh, Goto, WorkRecord
  <2>2. CASE Paused(w)
    BY <2>2 DEF Paused, Goto, WorkRecord
  <2> QED BY <1>11, <2>1, <2>2
<1>12. CASE Create(w) \/ Probe(w) \/ DropOld(w) \/ DropFirst(w) \/ Validate(w) \/ Commit(w) \/ EndCreate(w)
  BY ZenonT(60), <1>2, <1>12
  DEF Create, CreateFailed, Probe, DropOld, DropFirst, Validate, Commit, EndCreate, StopFresh
<1>13. CASE CheckpointRecord(w) \/ Mark(w) \/ Recover(w) \/ RetryFailed(w)
  BY ZenonT(60), <1>2, <1>13 DEF CheckpointRecord, Mark, Recover, RetryFailed
<1>14. CASE Lose(w) \/ StopLost(w) \/ ReleaseDelete(w) \/ ReleaseDrop(w)
  BY ZenonT(60), <1>2, <1>3, <1>14 DEF Lose, StopLost, ReleaseDelete, ReleaseDrop
<1> QED
  BY ZenonT(60), <1>4, <1>5, <1>6, <1>7, <1>8, <1>9, <1>10, <1>11, <1>12, <1>13, <1>14
  DEF WorkStep

\* A checkpoint finds the guest of a live lease running, or none.
LEMMA WorkCheckpoints ==
    ASSUME GInv, NEW w \in Workers, WorkStep(w) PROVE CheckpointsLive'
<1>   /\ OInv /\ RInv /\ IInv /\ work \in [Workers -> WorkRecord] /\ StatesKept(w)
      /\ \A v \in Workers \ {w} : work'[v] = work[v]
  BY WorkAlone, WorkPhase, ZenonT(60) DEF GInv, OInv, RInv, IInv, TypeOK, PhaseStep
<1>1. ASSUME NEW v \in Workers \ {w}, work'[v].pc \in {"ckptResume", "ckptRecord"},
             work'[v].lease \notin released'
      PROVE  lease'[work'[v].lease].state \in {"running", "recovered"}
  <2> USE <1>1
  <2>   HoldsBusy(v)
    BY ZenonT(60) DEF IInv, WorkInv, WorkOK, HoldsBusy, BusySteps
  <2> QED BY HeldApart, ZenonT(60) DEF GInv, CheckpointsLive, live, StatesKept
<1>2. ASSUME work'[w].pc = "ckptResume", work'[w].lease \notin released'
      PROVE  lease'[work'[w].lease].state \in {"running", "recovered"}
  <2>1. PICK l : l = work[w].lease
    BY ZenonT(60)
  <2>2. /\ work[w].pc = "ckpt" /\ work'[w].lease = l /\ vm[lease[l].sandbox] \in Moments
        /\ UNCHANGED <<lease, inStore, released, busy>>
    BY <1>2, <2>1, StopsGuest, ZenonT(60)
  <2>   /\ HoldsBusy(w) /\ l \in inStore /\ l \notin released /\ l \in Leases
        /\ lease[l].sandbox \in Sandboxes
    BY <1>2, <2>1, <2>2, ZenonT(60) DEF IInv, WorkInv, WorkOK, HoldsBusy, BusySteps, TypeOK
  <2>4. PICK s \in Sandboxes : s = lease[l].sandbox
    OBVIOUS
  <2>5. vm[s] # NoVM /\ l \in Owners(s) /\ s \notin pool
    <3>   NoVM \notin Moments
      BY BoundAssumption DEF NoVM, Moments
    <3>   l \in Owners(s)
      BY <2>4, ZenonT(60) DEF Owners
    <3> QED BY <2>2, <2>4, ZenonT(60) DEF OInv, OwnInv, NamedOnce
  <2>6. Placed(s)
    BY <2>5 DEF GInv, LeasesPlaced, Stray
  <2>7. ~InHand(s)
    <3>1. ASSUME InHand(s) PROVE FALSE
      <4>   PICK v \in Workers : /\ HoldsBusy(v) /\ work[v].lease = l
                                 /\ Holds(v) \/ work[v].pc \in {"ckptRecord", "stopLost"}
        BY <2>4, <3>1, InHandOfLease, ZenonT(60)
      <4>   v = w
        BY <2>1, ZenonT(60) DEF IInv, BusyExclusive
      <4> QED BY <2>2 DEF Holds
    <3> QED BY <3>1
  <2>   PICK k \in Owners(s) : live(k)
    BY <2>5, <2>6, <2>7, ZenonT(60) DEF Placed
  <2>   k = l
    BY <2>4, ZenonT(60) DEF Owners, OInv, OwnInv, NamedOnce, IInv, TypeOK
  <2> QED BY <2>2 DEF live
<1>3. ASSUME work'[w].pc = "ckptRecord", work'[w].lease \notin released'
      PROVE  lease'[work'[w].lease].state \in {"running", "recovered"}
  <2> USE <1>3
  <2>   /\ work[w].pc = "ckptResume" /\ work'[w].lease = work[w].lease
        /\ UNCHANGED <<lease, released>>
    BY ToRecord, ZenonT(60)
  <2> QED BY DEF GInv, CheckpointsLive, live
<1> QED BY <1>1, <1>2, <1>3, ZenonT(60) DEF CheckpointsLive, live

\* An operation that gives its lease another sandbox has deleted the old one.
LEMMA WorkDrops ==
    ASSUME "delete" \notin Faults, GInv, NEW w \in Workers, WorkStep(w) PROVE OldDropped'
<1> DEFINE l == work[w].lease
           Old(v) == \/ work[v].op = "fresh" /\ work[v].pc \in CreatePath
                     \/ work[v].op \in {"cold", "restore"} /\ work[v].pc = "commit"
           OK(v) == /\ Old(v) => vm[lease[work[v].lease].sandbox] = NoVM
                    /\ work[v].pc = "probe" => work[v].op \in {"grant", "fill"}
<1>0. /\ OInv /\ IInv /\ work \in [Workers -> WorkRecord] /\ vm \in [Sandboxes -> VMs]
      /\ WorkOK(w) /\ OpAt(w) /\ OK(w)
      /\ \A v \in Workers \ {w} : work'[v] = work[v]
  BY WorkAlone, ZenonT(60) DEF GInv, OldDropped, OInv, RInv, IInv, TypeOK, WorkInv, PhaseInv, VMs
<1> USE DEF memVars
<1>1. ASSUME NEW v \in Workers \ {w} PROVE OK(v)'
  <2>1. CASE Old(v)
    <3>1. HoldsBusy(v)
      BY <2>1 DEF HoldsBusy, BusyOps, CreatePath, CreateSteps
    <3> QED BY <1>0, <1>1, <2>1, <3>1, EmptyStays, ZenonT(60) DEF GInv, OldDropped
  <2>2. CASE ~Old(v)
    BY <1>0, <1>1, <2>2, ZenonT(60) DEF GInv, OldDropped
  <2> QED BY <2>1, <2>2, ZenonT(60)
<1>a. Leave(w) => OK(w)'
  BY <1>0 DEF Leave, CreatePath, CreateSteps, IdleWork, WorkRecord
<1>b. \A step : Goto(w, step) /\ step \notin CreatePath => OK(w)'
  BY <1>0 DEF Goto, CreatePath, CreateSteps, WorkRecord
<1>c. work' = [work EXCEPT ![w] = IdleWork] => OK(w)'
  <2>1. IdleWork.pc \notin CreatePath /\ IdleWork.pc \notin {"probe", "commit"}
    BY DEF CreatePath, CreateSteps, IdleWork
  <2>2. work' = [work EXCEPT ![w] = IdleWork] => work'[w] = IdleWork
    BY <1>0
  <2> QED BY <2>1, <2>2, ZenonT(60)
<1>d. {"endBusy", "failed", "endCreate", "stopLost", "lose", "relDrop", "ckptRecord", "crash",
       "pop", "pause", "ckpt"} \cap CreatePath = {}
  BY DEF CreatePath, CreateSteps
<1>e. Goto(w, "admit") /\ work[w].op # "fresh" => OK(w)'
  BY <1>0 DEF Goto, WorkRecord
\* The fresh sandbox is not the lease's.
<1>f. work[w].op \in {"fresh", "cold", "restore"} =>
         l \in Leases /\ lease[l].sandbox \in Sandboxes /\ (Holds(w) => work[w].id # lease[l].sandbox)
  BY <1>0, ZenonT(60) DEF WorkOK, BusyOps, OInv, OwnInv, HeldOnce, Fresh, ResumesInPlace
<1>2. ASSUME Begin(w) PROVE OK(w)'
  <2>1. work[w].op # "fresh" /\ FirstStep(work[w].op) \in {"pause", "ckpt", "crash", "admit"}
    BY <1>0, <1>2 DEF Begin, OpAt, FirstStep
  <2>2. CASE Goto(w, FirstStep(work[w].op))
    BY <1>b, <1>d, <1>e, <2>1, <2>2, ZenonT(60)
  <2> QED BY <1>2, <1>c, <2>2, ZenonT(60) DEF Begin
<1>3. ASSUME EndBusy(w) PROVE OK(w)'
  BY <1>0, <1>3 DEF EndBusy, IdleWork, CreatePath, CreateSteps
<1>4. ASSUME Pause(w) \/ Checkpoint(w) PROVE OK(w)'
  <2>1. CASE Leave(w)
    BY <1>a, <2>1, ZenonT(60)
  <2>2. ASSUME NEW step \in {"paused", "ckptResume"}, NEW b,
               work' = [work EXCEPT ![w] = [@ EXCEPT !.pc = step, !.build = b]]
        PROVE  OK(w)'
    <3>1. work'[w].pc = step
      BY <1>0, <2>2, ZenonT(60) DEF WorkRecord
    <3> QED BY <3>1 DEF CreatePath, CreateSteps
  <2> QED BY ZenonT(60), <1>4, <2>1, <2>2 DEF Pause, Checkpoint
<1>5. ASSUME Paused(w) PROVE OK(w)'
  <2>1. work[w].op # "fresh"
    BY <1>0, <1>5, ZenonT(60) DEF Paused, OpAt, PausingOps
  <2>2. \A step \in {"endBusy", "admit"} : Goto(w, step) => OK(w)'
    BY <1>b, <1>d, <1>e, <2>1, ZenonT(60)
  <2> QED BY <1>5, <1>a, <2>2, ZenonT(60) DEF Paused
<1>6. ASSUME Admit(w) PROVE OK(w)'
  <2>1. CASE CreateFailed(w)
    BY <1>a, <1>b, <1>d, <2>1, ZenonT(60) DEF CreateFailed
  <2>2. ASSUME NEW s, NEW b,
               work' = [work EXCEPT ![w] = [@ EXCEPT !.pc = "create", !.id = s, !.build = b]]
        PROVE  OK(w)'
    <3>1. work'[w].pc = "create" /\ work'[w].op = work[w].op /\ work'[w].lease = l
      BY <1>0, <2>2 DEF WorkRecord
    <3>2. UNCHANGED <<vm, lease>>
      BY <1>6, ZenonT(60) DEF Admit
    <3>3. work[w].op = "fresh" => vm[lease[l].sandbox] = NoVM
      BY <1>0, <1>6, ZenonT(60) DEF Admit, CreatePath, CreateSteps
    <3> QED BY <3>1, <3>2, <3>3, ZenonT(60)
  <2> QED BY ZenonT(60), <1>6, <2>1, <2>2 DEF Admit
<1>7. ASSUME Create(w) PROVE OK(w)'
  <2>1. CASE CreateFailed(w)
    BY <1>a, <1>b, <1>d, <2>1, ZenonT(60) DEF CreateFailed
  <2>2. CASE Boot(work[w].id, work[w].build) /\ Goto(w, "check")
    <3>1. /\ work'[w].pc = "check" /\ work'[w].op = work[w].op /\ work'[w].lease = l
          /\ lease' = lease
      BY <1>0, <1>7, <2>2, ZenonT(60) DEF Goto, WorkRecord, Create
    <3>2. work[w].op = "fresh" => vm[lease[l].sandbox] = NoVM /\ Holds(w)
      BY <1>0, <1>7, ZenonT(60) DEF Create, CreatePath, CreateSteps, Holds
    <3>3. work[w].op = "fresh" => vm'[lease[l].sandbox] = NoVM
      BY <1>0, <1>f, <2>2, <3>2, ZenonT(60) DEF Boot
    <3> QED BY <3>1, <3>3, ZenonT(60)
  <2> QED BY ZenonT(60), <1>7, <2>1, <2>2 DEF Create
<1>8. ASSUME Check(w) PROVE OK(w)'
  <2>1. CASE StopFresh(w, {work[w].id})
    BY <1>a, <2>1, ZenonT(60) DEF StopFresh
  <2>2. CASE ~leaseReleased(l)
    <3>1. UNCHANGED <<vm, lease>>
      BY <1>8, <2>2, ZenonT(60) DEF Check
    <3>2. PICK step : step = CASE work[w].op \in {"grant", "fill"} -> "probe"
                                [] work[w].op \in {"cold", "restore"} -> "dropOld"
                                [] OTHER -> "commit"
      OBVIOUS
    <3>3. Goto(w, step)
      BY <1>8, <2>2, <3>2, ZenonT(60) DEF Check
    <3>4. work'[w].pc = step /\ work'[w].op = work[w].op /\ work'[w].lease = l
      BY <1>0, <3>3, ZenonT(60) DEF Goto, WorkRecord
    <3>5. work[w].op = "fresh" => vm[lease[l].sandbox] = NoVM
      BY <1>0, <1>8 DEF Check, CreatePath, CreateSteps
    <3> QED BY <3>1, <3>2, <3>4, <3>5, ZenonT(60)
  <2> QED BY ZenonT(60), <1>8, <2>1, <2>2 DEF Check
<1>9. ASSUME Probe(w) PROVE OK(w)'
  <2>1. CASE StopFresh(w, {})
    BY <1>a, <2>1, ZenonT(60) DEF StopFresh
  <2>2. CASE Goto(w, "commit")
    <3>1. work[w].op \in {"grant", "fill"}
      BY <1>0, <1>9, ZenonT(60) DEF Probe
    <3> QED BY <1>0, <2>2, <3>1, ZenonT(60) DEF Goto, WorkRecord
  <2> QED BY <1>9, <2>1, <2>2, ZenonT(60) DEF Probe
<1>10. ASSUME DropOld(w) PROVE OK(w)'
  <2>1. CASE StopFresh(w, {})
    BY <1>a, <2>1, ZenonT(60) DEF StopFresh
  <2>2. CASE Delete(lease[l].sandbox, {}) /\ Goto(w, "commit")
    <3>1. work[w].op \in {"fresh", "cold", "restore"} => vm'[lease[l].sandbox] = NoVM
      BY <1>0, <1>f, <2>2, DeleteSure, ZenonT(60)
    <3> QED BY <1>0, <1>10, <2>2, <3>1, ZenonT(60) DEF Goto, WorkRecord, DropOld
  <2> QED BY <1>10, <2>1, <2>2, ZenonT(60) DEF DropOld
<1>11. ASSUME DropFirst(w) PROVE OK(w)'
  <2>1. CASE Delete(lease[l].sandbox, {}) /\ Goto(w, "admit")
    <3>1. work[w].op = "fresh"
      BY <1>0, <1>11, ZenonT(60) DEF DropFirst, OpAt
    <3>2. vm'[lease[l].sandbox] = NoVM
      BY <1>0, <1>f, <2>1, <3>1, DeleteSure, ZenonT(60)
    <3> QED BY <1>0, <1>11, <2>1, <3>2, ZenonT(60) DEF Goto, WorkRecord, DropFirst
  <2> QED BY <1>11, <1>a, <2>1, ZenonT(60) DEF DropFirst
<1>12. ASSUME Commit(w) \/ EndCreate(w) \/ CheckpointResume(w) \/ CheckpointRecord(w) PROVE OK(w)'
  BY ZenonT(60), <1>12, <1>a, <1>b, <1>d
  DEF Commit, EndCreate, CheckpointResume, CheckpointRecord, StopFresh
<1>13. ASSUME Pop(w) PROVE OK(w)'
  <2>0. work[w].op = "grant"
    BY <1>0, <1>13, ZenonT(60) DEF Pop, WorkOK
  <2>1. ASSUME NEW s, work' = [work EXCEPT ![w] = [@ EXCEPT !.pc = "validate", !.id = s]] PROVE OK(w)'
    <3>1. work'[w].pc = "validate"
      BY <1>0, <2>1 DEF WorkRecord
    <3> QED BY <3>1 DEF CreatePath, CreateSteps
  <2> QED BY ZenonT(60), <1>13, <1>e, <2>0, <2>1 DEF Pop
<1>14. ASSUME Validate(w) PROVE OK(w)'
  <2>1. CASE Goto(w, "probe")
    <3>1. work[w].op = "grant"
      BY <1>0, <1>14, ZenonT(60) DEF Validate, WorkOK
    <3> QED BY <1>0, <2>1, <3>1, ZenonT(60) DEF Goto, WorkRecord
  <2> QED BY ZenonT(60), <1>14, <1>a, <1>b, <1>d, <2>1 DEF Validate
<1>15. ASSUME Crash(w) PROVE OK(w)'
  <2>1. work'[w].pc = "recover" /\ work'[w].op = "recover"
    BY <1>0, <1>15 DEF Crash, WorkRecord
  <2> QED BY <2>1
<1>16. ASSUME Recover(w) PROVE OK(w)'
  <2>1. work[w].op # "fresh"
    BY <1>0, <1>16, ZenonT(60) DEF Recover, OpAt
  <2> QED BY ZenonT(60), <1>16, <1>b, <1>d, <1>e, <2>1 DEF Recover
<1>17. ASSUME Mark(w) \/ RetryFailed(w) \/ Lose(w) \/ StopLost(w) \/ ReleaseDelete(w) \/ ReleaseDrop(w) PROVE OK(w)'
  BY ZenonT(60), <1>17, <1>a, <1>b, <1>c, <1>d
  DEF Mark, RetryFailed, Lose, StopLost, ReleaseDelete, ReleaseDrop
<1>18. OK(w)'
  BY ZenonT(60), <1>2, <1>3, <1>4, <1>5, <1>6, <1>7, <1>8, <1>9, <1>10, <1>11, <1>12, <1>13,
     <1>14, <1>15, <1>16, <1>17 DEF WorkStep
<1> QED BY <1>1, <1>18, ZenonT(60) DEF OldDropped

\* A step of an operation leaves no guest of an unreleased lease stray.
LEMMA WorkLeasesPlaced ==
    ASSUME "delete" \notin Faults, GInv, NEW w \in Workers, WorkStep(w) PROVE LeasesPlaced'
<1>0. OInv /\ IInv /\ WorkOK(w) /\ NamedOnce /\ inStore \subseteq Leases
  BY ZenonT(60) DEF GInv, OInv, OwnInv, RInv, IInv, TypeOK, WorkInv
<1>1. released' = released
  BY ZenonT(60)
  DEF WorkStep, Begin, EndBusy, Pause, Paused, Admit, Create, Check, Probe, DropOld, DropFirst,
      Commit, EndCreate, Pop, Validate, Checkpoint, CheckpointResume, CheckpointRecord, Mark,
      Crash, Recover, RetryFailed, Lose, StopLost, ReleaseDelete, ReleaseDrop, memVars
<1> SUFFICES ASSUME NEW s \in Sandboxes, Stray(s)', NEW k \in Owners(s)' PROVE k \in released
  BY <1>1 DEF LeasesPlaced
<1>2. k \in inStore' /\ lease'[k].sandbox = s
  BY DEF Owners
<1>3. CASE k \in inStore /\ lease[k].sandbox = s
  <2> USE <1>3
  <2>1. CASE Stray(s)
    BY <2>1, ZenonT(60) DEF GInv, LeasesPlaced, Owners
  <2>2. CASE ~Stray(s)
    <3>   /\ work[w].pc = "ckptRecord" /\ work[w].lease \in released
          /\ s = lease[work[w].lease].sandbox
      BY <2>2, WorkPlaced DEF GInv
    <3>   work[w].lease \in Leases
      BY <1>0, ZenonT(60) DEF WorkOK, BusySteps
    <3> QED BY <1>0, ZenonT(60) DEF NamedOnce
  <2> QED BY <2>1, <2>2, ZenonT(60)
<1>4. CASE Fresh(w) /\ work[w].pc = "commit" /\ s = work[w].id
  <2> USE <1>4
  <2>   ~Stray(s)
    BY ZenonT(60) DEF Stray, Placed, InHand, Fresh
  <2> QED BY WorkPlaced, ZenonT(60) DEF GInv
<1> QED BY <1>0, <1>2, <1>3, <1>4, NewName, ZenonT(60)

\* What every other step does: a goroutine that rests may start, a release
\* takes the sandbox in hand, and no guest starts.
OthersQuiet ==
    /\ UNCHANGED <<inStore, lease>> /\ released \subseteq released' /\ pool' \subseteq pool
    /\ \A s \in Sandboxes : vm'[s] # NoVM => vm[s] # NoVM
    /\ \A v \in Workers : work[v].pc \notin {"idle", "listed", "next"} => work'[v] = work[v]
    /\ \A v \in Workers : work'[v] # work[v] =>
          /\ work'[v].pc \in {"idle", "listed", "next", "found", "pop", "admit", "dropFirst",
                              "pause", "mark", "recover", "relDelete"}
          /\ work'[v].pc = "admit" => work'[v].op # "fresh"
          /\ work'[v].pc = "pop" => work'[v].build = ImageBuild
    /\ \A l \in released' \ released :
          \E v \in Workers : work'[v].pc = "relDelete" /\ work'[v].lease = l

\* Guests only stop.
GuestsStop == UNCHANGED reached /\ \A s \in Sandboxes : vm'[s] \in {vm[s], NoVM}

\* Such a step takes nothing from a guest's owner but its place in the pool.
LEMMA QuietPlaced ==
    ASSUME OthersQuiet, NEW s \in Sandboxes, ~Stray(s), Stray(s)' PROVE s \in pool \ pool'
<1>   vm'[s] # NoVM /\ ~(s \in pool') /\ ~InHand(s)' /\ \A l \in Owners(s)' : ~(l \notin released' /\ live(l)')
  BY DEF Stray, Placed
<1>2. Placed(s)
  BY ZenonT(60) DEF Stray, OthersQuiet
<1>3. ASSUME InHand(s) PROVE FALSE
  <2>   PICK v \in Workers :
           \/ Holds(v) /\ work[v].id = s
           \/ /\ work[v].pc \in {"ckptRecord", "relDelete", "stopLost"}
              /\ lease[work[v].lease].sandbox = s
    BY <1>3, ZenonT(60) DEF InHand
  <2>   work'[v] = work[v] /\ lease' = lease
    BY ZenonT(60) DEF OthersQuiet, Holds
  <2> QED BY ZenonT(60) DEF InHand, Holds
<1>4. ASSUME NEW l \in Owners(s), l \notin released, live(l) PROVE FALSE
  <2> USE <1>4
  <2>   l \in Owners(s)' /\ live(l)' /\ lease'[l].sandbox = s
    BY ZenonT(60) DEF OthersQuiet, Owners, live
  <2>   l \in released' \ released
    BY ZenonT(60)
  <2>   PICK v \in Workers : work'[v].pc = "relDelete" /\ work'[v].lease = l
    BY ZenonT(60) DEF OthersQuiet
  <2> QED BY ZenonT(60) DEF InHand
<1> QED BY <1>2, <1>3, <1>4, ZenonT(60) DEF Placed

\* It starts nothing under a lease in hand, ...
LEMMA QuietEmpty ==
    ASSUME OInv, OthersQuiet, NEW v \in Workers, HoldsBusy(v), vm[lease[work[v].lease].sandbox] = NoVM
    PROVE  vm'[lease[work[v].lease].sandbox] = NoVM
<1>   lease[work[v].lease].sandbox \in Sandboxes
  BY ZenonT(60) DEF OInv, RInv, IInv, WorkInv, WorkOK, HoldsBusy
<1> QED BY ZenonT(60) DEF OthersQuiet

\* ... and nothing that an operation has stopped, ...
LEMMA QuietStopped == ASSUME OInv, StoppedInHand, OthersQuiet PROVE StoppedInHand'
<1> SUFFICES ASSUME NEW v \in Workers, work'[v].pc \in {"paused", "ckptResume"}
             PROVE  vm'[lease'[work'[v].lease].sandbox] = NoVM
  BY ZenonT(60) DEF StoppedInHand
<1>   work'[v] = work[v] /\ lease' = lease
  BY DEF OthersQuiet
<1>   HoldsBusy(v)
  BY ZenonT(60) DEF OInv, RInv, IInv, WorkInv, WorkOK, HoldsBusy, BusySteps
<1> QED BY QuietEmpty, ZenonT(60) DEF StoppedInHand

\* ... and it keeps the invariant of the guests.
LEMMA QuietGuests ==
    ASSUME GInv, OthersQuiet PROVE StoppedInHand' /\ CheckpointsLive' /\ OldDropped' /\ LeasesPlaced'
<1>   OInv /\ NamedOnce /\ UNCHANGED <<inStore, lease>> /\ released \subseteq released'
  BY DEF GInv, OInv, OwnInv, OthersQuiet
<1>1. \A v \in Workers : HoldsBusy(v) /\ vm[lease[work[v].lease].sandbox] = NoVM
                            => vm'[lease[work[v].lease].sandbox] = NoVM
  BY QuietEmpty, ZenonT(60)
<1>2. StoppedInHand'
  BY QuietStopped DEF GInv
<1>3. CheckpointsLive'
  BY ZenonT(60) DEF GInv, CheckpointsLive, OthersQuiet, live
<1>4. OldDropped'
  <2> SUFFICES ASSUME NEW v \in Workers
               PROVE  /\ \/ work'[v].op = "fresh" /\ work'[v].pc \in CreatePath
                         \/ work'[v].op \in {"cold", "restore"} /\ work'[v].pc = "commit"
                         => vm'[lease'[work'[v].lease].sandbox] = NoVM
                      /\ work'[v].pc = "probe" => work'[v].op \in {"grant", "fill"}
    BY ZenonT(60) DEF OldDropped
  <2>1. CASE work'[v] # work[v]
    BY <2>1, ZenonT(60) DEF OthersQuiet, CreatePath, CreateSteps
  <2>2. CASE work'[v] = work[v]
    <3>   \/ work[v].op = "fresh" /\ work[v].pc \in CreatePath
          \/ work[v].op \in {"cold", "restore"} /\ work[v].pc = "commit"
          => HoldsBusy(v)
      BY DEF HoldsBusy, BusyOps, CreatePath, CreateSteps
    <3> QED BY <1>1, <2>2, ZenonT(60) DEF GInv, OldDropped
  <2> QED BY <2>1, <2>2, ZenonT(60)
<1>   LeasesPlaced'
  <2> SUFFICES ASSUME NEW s \in Sandboxes, Stray(s)', NEW k \in Owners(s)' PROVE k \in released'
    BY DEF LeasesPlaced
  <2>   k \in Owners(s) /\ k \in inStore /\ lease[k].sandbox = s
    BY DEF Owners
  <2>2. CASE Stray(s)
    BY <2>2 DEF GInv, LeasesPlaced
  <2>3. CASE ~Stray(s)
    <3>   s \in pool /\ k \in Leases
      BY <2>3, QuietPlaced, ZenonT(60) DEF OInv, RInv, IInv, TypeOK
    <3> QED BY ZenonT(60) DEF NamedOnce
  <2> QED BY <2>2, <2>3, ZenonT(60)
<1> QED BY <1>2, <1>3, <1>4, ZenonT(60)

\* Without a restart, every step that is no operation's is such a step, and
\* only the end of a reconcile takes something out of the pool.
LEMMA OthersAreQuiet ==
    ASSUME MaxRestarts = 0, OInv,
           \/ \E w \in Handlers : Request(w)
           \/ Reconcile \/ Sweep \/ BackendRestart
           \/ \E l \in Leases : GuestRuns(l)
           \/ \E s \in Sandboxes : VmCrash(s)
           \/ UNCHANGED vars
    PROVE  /\ OthersQuiet /\ (pool' = pool \/ ReconcileEnd)
           /\ GuestsStop \/ \E l \in Leases : GuestRuns(l)
<1>   /\ IInv /\ work \in [Workers -> WorkRecord] /\ Reconciler \in Workers
      /\ Handlers \subseteq Workers /\ vm \in [Sandboxes -> VMs] /\ inStore \subseteq Leases /\ StoreNamed
  BY ZenonT(60) DEF OInv, RInv, IInv, TypeOK, Workers, VMs
<1> USE DEF memVars, sweepVars, bootVars, recVars
<1>1. ASSUME NEW w \in Handlers, Request(w) PROVE OthersQuiet /\ GuestsStop /\ pool' = pool
  <2> USE <1>1
  <2>1. UNCHANGED <<inStore, lease, vm, pool, reached>> /\ Idle(w)
    BY ZenonT(60) DEF Request, Fill, Grant, Restart, Release, Lookup, Seize
  <2>   PICK op, l, step, b :
           /\ Start(w, op, l, step, b)
           /\ step \in {"found", "pop", "admit", "dropFirst", "pause", "mark", "relDelete"}
           /\ step = "admit" => op # "fresh"
           /\ step = "pop" => b = ImageBuild
           /\ \/ released' = released
              \/ step = "relDelete" /\ released' = released \cup {l}
    BY ZenonT(60) DEF Request, Fill, Grant, Restart, Release, Lookup, Seize
  <2>   /\ work'[w].pc = step /\ work'[w].op = op /\ work'[w].lease = l /\ work'[w].build = b
        /\ w \in Workers
        /\ \A v \in Workers \ {w} : work'[v] = work[v]
    BY ZenonT(60) DEF Start
  <2> QED BY <2>1, ZenonT(60) DEF OthersQuiet, GuestsStop, Idle
<1>2. ASSUME Reconcile PROVE OthersQuiet /\ GuestsStop /\ (pool' = pool \/ ReconcileEnd)
  <2>   /\ UNCHANGED <<inStore, lease, vm, released, reached>> /\ pool' \subseteq pool /\ (pool' = pool \/ ReconcileEnd)
        /\ work[Reconciler].pc \in {"idle", "listed", "next"}
    BY ZenonT(60), <1>2 DEF Reconcile, ReconcileList, ReconcileTargets, ReconcileNext, ReconcileEnd
  <2>   /\ work'[Reconciler] # work[Reconciler] => work'[Reconciler].pc \in {"idle", "listed", "next", "recover"}
        /\ \A v \in Workers \ {Reconciler} : work'[v] = work[v]
    <3>1. CASE ReconcileList
      BY <3>1 DEF ReconcileList, Goto, WorkRecord
    <3>2. CASE ReconcileTargets
      BY <3>2 DEF ReconcileTargets, Goto, WorkRecord
    <3>3. CASE ReconcileEnd
      BY <3>3, ZenonT(60) DEF ReconcileEnd, IdleWork
    <3>4. ASSUME NEW l \in Leases, ReconcileNext(l)
          PROVE  /\ work'[Reconciler] # work[Reconciler] =>
                       work'[Reconciler].pc \in {"idle", "listed", "next", "recover"}
                 /\ \A v \in Workers \ {Reconciler} : work'[v] = work[v]
      BY <3>4, NextTarget, ZenonT(60)
    <3> QED BY <1>2, <3>1, <3>2, <3>3, <3>4, ZenonT(60) DEF Reconcile
  <2> QED BY ZenonT(60) DEF OthersQuiet, GuestsStop
<1>3. ASSUME Sweep PROVE OthersQuiet /\ GuestsStop /\ pool' = pool
  <2> USE <1>3
  <2>   UNCHANGED <<inStore, lease, released, work, pool, reached>>
    BY ZenonT(60) DEF Sweep, SweepStart, SweepPick, SweepClaims, SweepKill, SweepList,
       SweepFlight, SweepClassify, SweepEnd, SweepUnchanged
  <2>   UNCHANGED vm \/ vm' = [vm EXCEPT ![sweep.id] = NoVM]
    BY ZenonT(60) DEF Sweep, SweepStart, SweepPick, SweepClaims, SweepKill, SweepList,
       SweepFlight, SweepClassify, SweepEnd, SweepUnchanged
  <2> QED BY ZenonT(60) DEF OthersQuiet, GuestsStop
<1>4. ~BackendRestart
  <2>1. BackendRestart => restarts < MaxRestarts
    BY ZenonT(60) DEF BackendRestart
  <2>2. restarts \in 0..MaxRestarts
    BY ZenonT(60) DEF IInv, TypeOK
  <2> QED BY <2>1, <2>2
<1>5. ASSUME NEW l \in Leases, GuestRuns(l) PROVE OthersQuiet /\ pool' = pool
  <2> USE <1>5
  <2>   UNCHANGED <<inStore, lease, released, work, pool>>
    BY ZenonT(60) DEF GuestRuns
  <2>   vm[lease[l].sandbox] # NoVM /\ \A s \in Sandboxes : s # lease[l].sandbox => vm'[s] = vm[s]
    BY GuestMoves, ZenonT(60)
  <2> QED BY ZenonT(60) DEF OthersQuiet, GuestsStop
<1>6. ASSUME NEW s \in Sandboxes, VmCrash(s) PROVE OthersQuiet /\ GuestsStop /\ pool' = pool
  BY <1>6, ZenonT(60) DEF VmCrash, OthersQuiet, GuestsStop
<1>7. ASSUME UNCHANGED vars PROVE OthersQuiet /\ GuestsStop /\ pool' = pool
  <2>   UNCHANGED <<inStore, lease, released, work, pool, vm, reached>>
    BY <1>7, ZenonT(60) DEF vars
  <2> QED BY ZenonT(60) DEF OthersQuiet, GuestsStop
<1> QED BY <1>1, <1>2, <1>3, <1>4, <1>5, <1>6, <1>7, ZenonT(60)

\* The invariant of the guests holds when the backend starts ...
LEMMA GInitInv == ASSUME Init PROVE GInv
<1>1. OInv
  BY OInitInv
<1>   StoppedInHand /\ CheckpointsLive /\ OldDropped
  BY ZenonT(60) DEF Init, StoppedInHand, CheckpointsLive, OldDropped, IdleWork, CreatePath, CreateSteps
<1>   LeasesPlaced
  BY DEF Init, LeasesPlaced, Stray
<1> QED BY <1>1 DEF GInv

\* ... and every step keeps it, while deletes succeed and nothing restarts.
LEMMA GNextInv ==
    ASSUME "delete" \notin Faults, MaxRestarts = 0, GInv, [Next]_vars PROVE GInv'
<1>   OInv'
  BY ONextInv DEF GInv
<1>2. CASE \E w \in Workers : WorkStep(w)
  <2>   StoppedInHand' /\ CheckpointsLive' /\ OldDropped' /\ LeasesPlaced'
    BY <1>2, WorkStopped, WorkCheckpoints, WorkDrops, WorkLeasesPlaced, ZenonT(60) DEF GInv
  <2> QED BY DEF GInv
<1>3. CASE ~(\E w \in Workers : WorkStep(w))
  <2>   OthersQuiet
    BY <1>3, OthersAreQuiet DEF Next, GInv
  <2> QED BY QuietGuests DEF GInv
<1> QED BY <1>2, <1>3, ZenonT(60)

\* A suspended lease that nobody has in hand has no guest.
LEMMA PlacedSuspended == ASSUME GInv PROVE SuspendedHoldsNoVM
<1> SUFFICES ASSUME NEW l \in inStore \ (released \cup busy), lease[l].state = "suspended",
                    vm[lease[l].sandbox] # NoVM
             PROVE  FALSE
  BY DEF SuspendedHoldsNoVM
<1>   OInv /\ l \in Leases /\ lease[l].sandbox \in Sandboxes /\ NamedOnce /\ inStore \subseteq Leases
  BY ZenonT(60) DEF GInv, OInv, OwnInv, RInv, IInv, TypeOK, StoreNamed
<1>1. Placed(lease[l].sandbox)
  BY ZenonT(60) DEF GInv, LeasesPlaced, Stray, Owners
<1>   ~InHand(lease[l].sandbox)
  BY InHandOfLease, ZenonT(60) DEF OInv, RInv, IInv, BusyExclusive
<1>   \A k \in Owners(lease[l].sandbox) : ~live(k)
  BY ZenonT(60) DEF NamedOnce, Owners, live
<1> QED BY <1>1, ZenonT(60) DEF Placed, NamedOnce

\* Whatever operations run beside one another, and whatever guests crash or
\* creates, lists and rows fail, a suspended lease that nobody has in hand
\* has no guest running, as long as a delete does not fail and the backend
\* is not restarted: suspendLease stops the guest before it writes the
\* state, and nobody starts one under a lease without its busy flag.
THEOREM SuspendedLeaseHoldsNoVM ==
    ASSUME "delete" \notin Faults, MaxRestarts = 0 PROVE Spec => []SuspendedHoldsNoVM
<1>1. Init => GInv
  BY GInitInv
<1>2. GInv /\ [Next]_vars => GInv'
  BY GNextInv
<1>3. GInv => SuspendedHoldsNoVM
  BY PlacedSuspended
<1> QED BY <1>1, <1>2, <1>3, PTL DEF Spec

\* Where the ticker does not run it, and nobody restarts the backend, the
\* reconcile never runs.
LEMMA ReconcileRests ==
    ASSUME "reconcile" \notin Ops, MaxRestarts = 0, OInv, NoReconcile, [Next]_vars PROVE NoReconcile'
<1>0. /\ work \in [Workers -> WorkRecord] /\ Reconciler \in Workers /\ Reconciler \notin Handlers
      /\ restarts = 0
  BY SentinelAssumption DEF OInv, RInv, IInv, TypeOK, Workers
<1> USE DEF memVars, sweepVars, bootVars, recVars, NoReconcile
<1>1. ASSUME NEW w \in Workers, WorkStep(w) PROVE NoReconcile'
  <2> USE <1>1
  <2>   work[w].pc # "idle" /\ UNCHANGED startup
    BY ZenonT(60) DEF WorkStep, Begin, EndBusy, Pause, Paused, Admit, Create, Check, Probe,
       DropOld, DropFirst, Commit, EndCreate, Pop, Validate, Checkpoint, CheckpointResume,
       CheckpointRecord, Mark, Crash, Recover, RetryFailed, Lose, StopLost, ReleaseDelete, ReleaseDrop
  <2>   work'[Reconciler] = work[Reconciler]
    BY <1>0, WorkAlone, ZenonT(60) DEF OInv, RInv
  <2> QED BY ZenonT(60)
<1>2. ASSUME NEW w \in Handlers, Request(w) PROVE NoReconcile'
  <2> USE <1>2
  <2>   UNCHANGED startup /\ \E op, l, step, b : Start(w, op, l, step, b)
    BY ZenonT(60) DEF Request, Fill, Grant, Restart, Release, Lookup, Seize
  <2> QED BY <1>0, ZenonT(60) DEF Start
<1>3. ~Reconcile /\ ~BackendRestart
  <2>1. BackendRestart => restarts < MaxRestarts
    BY ZenonT(60) DEF BackendRestart
  <2>2. Reconcile => \/ startup = "reconcile" \/ "reconcile" \in Ops
                     \/ work[Reconciler].pc \in {"listed", "next"}
    BY ZenonT(60) DEF Reconcile, ReconcileList, ReconcileTargets, ReconcileNext, ReconcileEnd
  <2> QED BY <1>0, <2>1, <2>2
<1>4. ASSUME Sweep PROVE NoReconcile'
  BY ZenonT(60), <1>4 DEF Sweep, SweepStart, SweepPick, SweepClaims, SweepKill, SweepList,
     SweepFlight, SweepClassify, SweepEnd, SweepUnchanged
<1>5. ASSUME NEW l \in Leases, GuestRuns(l) PROVE NoReconcile'
  BY <1>5, ZenonT(60) DEF GuestRuns
<1>6. ASSUME NEW s \in Sandboxes, VmCrash(s) PROVE NoReconcile'
  BY <1>6, ZenonT(60) DEF VmCrash
<1>7. ASSUME UNCHANGED vars PROVE NoReconcile'
  BY <1>7, ZenonT(60) DEF vars
<1> QED BY <1>1, <1>2, <1>3, <1>4, <1>5, <1>6, <1>7, ZenonT(60) DEF Next

\* Every running sandbox stays somebody's.
LEMMA StaysPlaced ==
    ASSUME "delete" \notin Faults, "record" \notin Faults, MaxRestarts = 0, GInv, NoneStray,
           PoolListed, [Next]_vars
    PROVE  NoneStray'
<1>1. CASE \E w \in Workers : WorkStep(w)
  BY <1>1, WorkPlaced, ZenonT(60) DEF GInv, NoneStray
<1>2. CASE ~(\E w \in Workers : WorkStep(w))
  <2>   OthersQuiet /\ (pool' = pool \/ ReconcileEnd)
    BY <1>2, OthersAreQuiet, ZenonT(60) DEF Next, GInv
  <2>   ReconcileEnd => pool = {}
    BY DEF PoolListed, NoPool, NoReconcile, ReconcileEnd
  <2> QED BY QuietPlaced, ZenonT(60) DEF NoneStray
<1> QED BY <1>1, <1>2, ZenonT(60)

\* While the backend serves and neither a delete nor a row fails, no sandbox
\* runs that nobody answers for: createSandbox, the pool, the swaps of a
\* lease's sandbox, and release and checkpoint at whatever moment they meet,
\* hand every guest on or stop it.  Where both the pool is filled and the
\* reconcile runs, its last step forgets a pooled sandbox that its list was
\* too early to show, so one of the two must not run.
THEOREM NothingStrays ==
    ASSUME "delete" \notin Faults, "record" \notin Faults, MaxRestarts = 0,
           "fill" \notin Ops \/ "reconcile" \notin Ops
    PROVE  Spec => []NoStray
<1> DEFINE Inv == /\ GInv /\ NoneStray
                  /\ "fill" \notin Ops => NoPool
                  /\ "reconcile" \notin Ops => NoReconcile
<1>1. Init => Inv
  <2>1. Init => NoneStray /\ NoPool
    BY DEF Init, NoneStray, Stray, NoPool, IdleWork
  <2>2. Init => NoReconcile
    BY DEF Init, NoReconcile, IdleWork, Workers
  <2> QED BY <2>1, <2>2, GInitInv, ZenonT(60)
<1>2. Inv /\ [Next]_vars => Inv'
  <2> SUFFICES ASSUME Inv, [Next]_vars PROVE Inv'
    OBVIOUS
  <2>1. OInv /\ PoolListed
    BY DEF GInv, PoolListed
  <2>2. GInv' /\ NoneStray'
    BY <2>1, GNextInv, StaysPlaced, ZenonT(60)
  <2>3. "fill" \notin Ops => NoPool'
    BY <2>1, PoolStaysEmpty
  <2>4. "reconcile" \notin Ops => NoReconcile'
    BY <2>1, ReconcileRests, ZenonT(60)
  <2> QED BY <2>2, <2>3, <2>4, ZenonT(60)
<1>3. Inv => NoStray
  BY DEF NoneStray, Stray, Placed, NoStray, present_ids
<1> HIDE DEF Inv
<1> QED BY <1>1, <1>2, <1>3, PTL DEF Spec

=============================================================================
