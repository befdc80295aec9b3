-------------------------- MODULE MemoryAdmission ---------------------------
(***************************************************************************)
(* Admission of guest memory (api/admit_memory.go, api/preempt.go,         *)
(* api/admission.go): creates and resumes are admitted one at a time under *)
(* preemptMu, take running leases of other owners back when they do not    *)
(* fit (api/take_back.go), and are promised memory against the overcommit  *)
(* cap.  The warm pool, the low-memory floor (api/pressure.go) and the     *)
(* give-back (api/give_back.go) run beside them.                           *)
(***************************************************************************)
EXTENDS TakeBack

CONSTANTS
  MaLeases,     \* leases, numbered
  MaOwner,      \* [MaLeases -> owners, numbered]
  MaMem,        \* [MaLeases -> memory]
  MaRunning,    \* leases that run in the initial state; the others are created
  MaTotal,      \* the hugepage pool
  MaCap,        \* overcommit ratio x pool
  MaFloor,      \* MEMORY_FLOOR_MIB, and the headroom a pool fill keeps
  MaCritical,   \* MEMORY_CRITICAL_MIB
  MaPool,       \* warm-pool size; one pooled VM has memory 1
  MaReported,   \* pages of running guests that free-page reporting returned
  MaGuards,     \* of "no", "pin", "job": what an owner does to a lease
  MaScenarios   \* sets of "floor", "giveback", "fail", "release", "pool", "reported": what may happen

ASSUME MemoryAssumption ==
  /\ MaLeases \subseteq Nat
  /\ MaMem \in [MaLeases -> Nat \ {0}]
  /\ MaRunning \subseteq MaLeases
  /\ MaTotal \in Nat /\ MaCap \in Nat /\ MaFloor \in Nat /\ MaCritical \in Nat /\ MaPool \in Nat
  /\ MaReported \in Nat
  /\ MaGuards \subseteq {"no", "pin", "job"}

VARIABLES
  mst,        \* [MaLeases -> "none" | "running" | "paused"]
  guarded,    \* [MaLeases -> "no" | "pin" | "job"]
  mbusy,      \* leases with an operation in flight
  vms,        \* leases whose VM is up
  stock,      \* pooled VMs in the ledger
  inflight,   \* inflightAdmitMiB
  preempt,    \* holder of preemptMu, 0 when free
  adm,        \* [MaLeases \cup {Floor} -> where the admission is, its reading and plan]
  fill,       \* where warmPool is: its state and reading
  happens,    \* what may happen in this behaviour
  kept        \* ghost: leases guarded while they ran, and not taken since by the floor

leaseVars == <<mst, guarded, mbusy, vms>>
poolVars == <<stock, fill>>
mavars == <<mst, guarded, mbusy, vms, stock, inflight, preempt, adm, fill, happens, kept>>

FloorLoop == 0
RefusedRounds == 3
NoAdm == [at |-> "idle", run |-> 0, plan |-> <<>>, refused |-> 0, any |-> FALSE, soft |-> FALSE]

MAInit ==
  /\ mst = [l \in MaLeases |-> IF l \in MaRunning THEN "running" ELSE "none"]
  /\ guarded = [l \in MaLeases |-> "no"]
  /\ mbusy = {}
  /\ vms = MaRunning
  /\ stock = 0
  /\ inflight = 0
  /\ preempt = -1
  /\ adm = [a \in MaLeases \cup {FloorLoop} |-> NoAdm]
  /\ fill = [at |-> "idle", run |-> 0]
  /\ happens \in MaScenarios
  /\ kept = {}

-----------------------------------------------------------------------------
(* Readings.                                                               *)

Live == {l \in MaLeases : mst[l] = "running"}
SumMem(ls) == MapThenSumSet(LAMBDA l : MaMem[l], ls)

\* runningMemoryMiB: live leases and the pool's ledger.
Running == SumMem(Live) + stock

\* A fresh NodeInfo reading: pages of every VM that is up, pooled ones and the
\* ones popped or being stocked included, less what the guests gave back.
BootingPool == (IF fill.at = "stock" THEN 1 ELSE 0)
               + Cardinality({l \in MaLeases : adm[l].at \in {"popped", "held"}})
FreePages == MaTotal - Max({0, SumMem(vms) + stock + BootingPool - (IF "reported" \in happens THEN MaReported ELSE 0)})

\* Creates hold a quota reservation until they return.
Pending(o) == SumMem({l \in MaLeases : MaOwner[l] = o /\ mst[l] = "none" /\ adm[l].at # "idle"})

\* takeBackOwnersFor: fair slices, usage with what is in flight, running leases.
View(me) ==
  LET owners == {MaOwner[l] : l \in MaLeases}
      active == {o \in owners : Pending(o) > 0 \/ \E l \in MaLeases : MaOwner[l] = o /\ mst[l] # "none"}
      Mine(o) == {l \in Live : MaOwner[l] = o}
      own == IF me # FloorLoop /\ mst[me] = "none" THEN MaMem[me] ELSE 0
  IN [o \in owners |->
        [used |-> SumMem(Mine(o)) + (IF me = FloorLoop THEN 0 ELSE Pending(o))
                    - (IF me # FloorLoop /\ o = MaOwner[me] THEN own ELSE 0),
         slice |-> SliceOf(MaTotal, active, o, TRUE),
         leases |-> {[id |-> l, mem |-> MaMem[l], last |-> l, pinned |-> guarded[l] = "pin",
                      busy |-> l \in mbusy \/ guarded[l] = "job", drained |-> FALSE] : l \in Mine(o)}]]

\* floorFor: the floor counts in every admission when it is on.
FloorNow == IF "floor" \in happens THEN MaFloor ELSE 0

CapShort(run, mem) == run + inflight + mem - MaCap

\* fits: free pages over the request and the floor, and below the cap.
Fits(l) == FreePages >= MaMem[l] + FloorNow /\ CapShort(Running, MaMem[l]) <= 0

-----------------------------------------------------------------------------
(* A create or a resume.                                                   *)

Go(a, at) == adm' = [adm EXCEPT ![a].at = at]

\* grantLease of a new lease, or resumeForUse of a paused one.
Ask(l) ==
  /\ adm[l].at = "idle" /\ mst[l] \in {"none", "paused"} /\ l \notin mbusy
  /\ Go(l, "lock")
  /\ mbusy' = mbusy \cup {l}
  /\ UNCHANGED <<poolVars, mst, guarded, vms, inflight, preempt, happens, kept>>

\* A new lease pops a pooled VM: it leaves the ledger ...
Pop(l) ==
  /\ adm[l].at = "lock" /\ mst[l] = "none" /\ MaMem[l] = 1 /\ stock > 0
  /\ stock' = stock - 1
  /\ Go(l, "popped")
  /\ UNCHANGED <<leaseVars, inflight, preempt, fill, happens, kept>>

\* ... and is held in flight in a later critical section.
PopHold(l) ==
  /\ adm[l].at = "popped"
  /\ inflight' = inflight + MaMem[l]
  /\ Go(l, "held")
  /\ UNCHANGED <<leaseVars, poolVars, preempt, happens, kept>>

\* admitMemory: the lock, then fits; when it does not fit, whether take-back
\* can help decides.
Admit(l) ==
  /\ adm[l].at = "lock" /\ preempt = -1
  /\ (mst[l] = "none" /\ MaMem[l] = 1) => stock = 0
  /\ \E view \in {View(l)} :
     LET me == MaOwner[l]
         takeable == TakeablePool(view, me)
         capShort == Max({CapShort(Running, MaMem[l]), 0})
         Helps(mem) == FreePages + mem >= MaMem[l] + FloorNow /\ mem >= capShort
         boxFull == Helps(takeable + PinnedPool(view, me)) \/ BiggestBorrower(view, me, MaMem[l])
     IN \/ /\ adm[l].soft \/ Fits(l)
           /\ preempt' = l /\ Go(l, "read")
        \/ /\ ~adm[l].soft /\ ~Fits(l) /\ Helps(takeable)
           /\ preempt' = l /\ Go(l, "plan")
        \/ /\ ~adm[l].soft /\ ~Fits(l) /\ ~Helps(takeable) /\ ~boxFull
           /\ preempt' = l /\ Go(l, "read")
        \/ /\ ~adm[l].soft /\ ~Fits(l) /\ ~Helps(takeable) /\ boxFull
           /\ UNCHANGED preempt /\ Go(l, "refused")
  /\ UNCHANGED <<leaseVars, poolVars, inflight, happens, kept>>

\* The top of takeBackForAdmission's loop: re-plan on fresh readings.
Plan(l) ==
  /\ adm[l].at = "plan"
  /\ \E short \in {Max({MaMem[l] + FloorNow - FreePages, CapShort(Running, MaMem[l])})} :
     \E view \in {View(l)} : \E plan \in {MemVictims(view, MaOwner[l], short, MaMem[l])} :
        \/ /\ adm[l].refused >= RefusedRounds \/ short <= 0
           /\ Go(l, "read") /\ UNCHANGED preempt
        \/ /\ adm[l].refused < RefusedRounds /\ short > 0 /\ plan # <<>>
           /\ adm' = [adm EXCEPT ![l].at = "try", ![l].plan = plan]
           /\ UNCHANGED preempt
        \/ /\ adm[l].refused < RefusedRounds /\ short > 0 /\ plan = <<>>
           /\ IF ~adm[l].any /\ BiggestBorrower(view, MaOwner[l], MaMem[l])
              THEN Go(l, "refused") /\ preempt' = -1
              ELSE Go(l, "read") /\ UNCHANGED preempt
  /\ UNCHANGED <<leaseVars, poolVars, inflight, happens, kept>>

\* takeBackPauseWith's guard, under the store lock.
MayTake(v, requesterOwner, takePinned) ==
  /\ mst[v] = "running" /\ v \notin mbusy
  /\ guarded[v] # "job" /\ (guarded[v] = "pin" => takePinned)
  /\ MaOwner[v] # requesterOwner

\* Mutant: a refused round is not counted.
RoundUncounted(n) == n

RoundRefused(n) == n + 1

\* The next candidate: enough room by now, refused by a race, or taken.
Try(l) ==
  /\ adm[l].at = "try"
  /\ \/ /\ adm[l].plan = <<>>
        /\ adm' = [adm EXCEPT ![l].at = "plan", ![l].refused = RoundRefused(@)]
        /\ UNCHANGED mbusy
     \/ /\ adm[l].plan # <<>> /\ Fits(l)
        /\ Go(l, "read")
        /\ UNCHANGED mbusy
     \/ /\ adm[l].plan # <<>> /\ ~Fits(l)
        /\ LET v == Head(adm[l].plan) IN
           IF MayTake(v, MaOwner[l], FALSE)
           THEN Go(l, "pausing") /\ mbusy' = mbusy \cup {v}
           ELSE adm' = [adm EXCEPT ![l].plan = Tail(@)] /\ UNCHANGED mbusy
  /\ UNCHANGED <<poolVars, mst, guarded, vms, inflight, preempt, happens, kept>>

\* pauseLeaseBody: the VM's memory is gone and the lease is suspended, or the
\* pause failed.
Pausing(a) ==
  /\ adm[a].at = "pausing"
  /\ LET v == Head(adm[a].plan) IN
     \/ /\ mst' = [mst EXCEPT ![v] = "paused"]
        /\ vms' = vms \ {v}
        /\ Go(a, "stamp")
        /\ UNCHANGED mbusy
     \/ /\ "fail" \in happens
        /\ mbusy' = mbusy \ {v}
        /\ adm' = [adm EXCEPT ![a].at = "try", ![a].plan = Tail(@)]
        /\ UNCHANGED <<mst, vms>>
  /\ UNCHANGED <<poolVars, guarded, inflight, preempt, happens, kept>>

\* Mutant: a pin that landed during the pause is not noticed.
GuardedNever(v) == FALSE

GuardedMeanwhile(v) == guarded[v] # "no"

\* The stamp, or the resume at once of a lease that was pinned, or got a job,
\* during its pause; that resume may fail.
Stamp(l) ==
  /\ adm[l].at = "stamp" /\ l # FloorLoop
  /\ LET v == Head(adm[l].plan) IN
     /\ mbusy' = mbusy \ {v}
     /\ \/ /\ ~GuardedMeanwhile(v)
           /\ adm' = [adm EXCEPT ![l].at = "plan", ![l].any = TRUE, ![l].plan = <<>>]
           /\ UNCHANGED <<mst, vms, kept>>
        \/ /\ GuardedMeanwhile(v)
           /\ adm' = [adm EXCEPT ![l].at = "try", ![l].plan = Tail(@)]
           /\ \/ mst' = [mst EXCEPT ![v] = "running"] /\ vms' = vms \cup {v} /\ UNCHANGED kept
              \/ "fail" \in happens /\ kept' = kept \ {v} /\ UNCHANGED <<mst, vms>>
  /\ UNCHANGED <<poolVars, guarded, inflight, preempt, happens>>

\* runningMemoryMiB is read before nodeInfoMu is taken ...
Read(l) ==
  /\ adm[l].at = "read"
  /\ adm' = [adm EXCEPT ![l].at = "check", ![l].run = Running, ![l].plan = <<>>,
                        ![l].refused = 0, ![l].any = FALSE]
  /\ UNCHANGED <<leaseVars, poolVars, inflight, preempt, happens, kept>>

\* ... and the cap is checked and the promise made under it.
Check(l) ==
  /\ adm[l].at = "check"
  /\ preempt' = -1
  /\ IF CapShort(adm[l].run, MaMem[l]) > 0
     THEN adm' = [adm EXCEPT ![l].at = "refused", ![l].run = 0] /\ UNCHANGED inflight
     ELSE adm' = [adm EXCEPT ![l].at = "create", ![l].run = 0] /\ inflight' = inflight + MaMem[l]
  /\ UNCHANGED <<leaseVars, poolVars, happens, kept>>

\* createSandbox: the capacity check on a fresh reading, then the VM.
Create(l) ==
  /\ adm[l].at = "create"
  /\ \/ FreePages >= MaMem[l] + FloorNow /\ vms' = vms \cup {l} /\ Go(l, "insert")
     \/ (FreePages < MaMem[l] + FloorNow \/ "fail" \in happens) /\ UNCHANGED vms /\ Go(l, "undo")
  /\ UNCHANGED <<poolVars, mst, guarded, mbusy, inflight, preempt, happens, kept>>

\* The lease is live: in the store, or running again.
Insert(l) ==
  /\ adm[l].at \in {"insert", "held"}
  /\ mst' = [mst EXCEPT ![l] = "running"]
  /\ vms' = vms \cup {l}
  /\ kept' = IF guarded[l] # "no" THEN kept \cup {l} ELSE kept
  /\ Go(l, "undo")
  /\ UNCHANGED <<poolVars, guarded, mbusy, inflight, preempt, happens>>

\* Mutant: a refused admission is undone too.
UndoneAlways(l) == Max({inflight - MaMem[l], 0})

Undone(l) == IF adm[l].at = "undo" THEN Max({inflight - MaMem[l], 0}) ELSE inflight

\* The undo function: the promise is dropped, not below zero.
Undo(l) ==
  /\ adm[l].at \in {"undo", "refused"}
  /\ inflight' = Undone(l)
  /\ adm' = [adm EXCEPT ![l] = NoAdm]
  /\ mbusy' = mbusy \ {l}
  /\ UNCHANGED <<poolVars, mst, guarded, vms, preempt, happens, kept>>

-----------------------------------------------------------------------------
(* The warm pool's fill.                                                   *)

FillRead ==
  /\ "pool" \in happens /\ fill.at = "idle" /\ stock < MaPool
  /\ fill' = [at |-> "check", run |-> Running]
  /\ UNCHANGED <<leaseVars, stock, inflight, preempt, adm, happens, kept>>

FillCheck ==
  /\ fill.at = "check"
  /\ IF CapShort(fill.run, 1) > 0 \/ FreePages < 1 + MaFloor
     THEN fill' = [at |-> "idle", run |-> 0] /\ UNCHANGED inflight
     ELSE fill' = [at |-> "boot", run |-> 0] /\ inflight' = inflight + 1
  /\ UNCHANGED <<leaseVars, stock, preempt, adm, happens, kept>>

FillBoot ==
  /\ fill.at = "boot"
  /\ fill' = [fill EXCEPT !.at = IF FreePages >= 1 + FloorNow THEN "stock" ELSE "release"]
  /\ UNCHANGED <<leaseVars, stock, inflight, preempt, adm, happens, kept>>

FillStock ==
  /\ fill.at = "stock"
  /\ stock' = stock + 1
  /\ fill' = [fill EXCEPT !.at = "release"]
  /\ UNCHANGED <<leaseVars, inflight, preempt, adm, happens, kept>>

FillRelease ==
  /\ fill.at = "release"
  /\ inflight' = Max({inflight - 1, 0})
  /\ fill' = [at |-> "idle", run |-> 0]
  /\ UNCHANGED <<leaseVars, stock, preempt, adm, happens, kept>>

-----------------------------------------------------------------------------
(* The low-memory floor, the give-back, and the owners.                    *)

\* pressureCheck below the floor: a pooled VM first, then one lease.
Pressure ==
  /\ "floor" \in happens /\ adm[FloorLoop].at = "idle"
  /\ FreePages < FloorNow /\ preempt = -1
  /\ LET victim == PressureVictim(View(FloorLoop), MaCritical < MaFloor /\ FreePages < MaCritical) IN
     \/ /\ stock > 0
        /\ stock' = stock - 1
        /\ UNCHANGED <<mbusy, preempt, adm, happens, kept>>
     \/ /\ stock = 0
        /\ \E v \in victim :
             /\ MayTake(v.id, FloorLoop, v.pins)
             /\ mbusy' = mbusy \cup {v.id}
             /\ adm' = [adm EXCEPT ![FloorLoop] = [NoAdm EXCEPT !.at = "pausing", !.plan = <<v.id>>, !.soft = v.pins]]
             /\ kept' = IF v.pins THEN kept \ {v.id} ELSE kept
        /\ preempt' = FloorLoop
        /\ UNCHANGED stock
  /\ UNCHANGED <<mst, guarded, vms, inflight, fill, happens>>

\* The floor's pause ends: a pin does not undo it when pins are taken, and the
\* resume that undoes it may fail.
PressureEnd ==
  /\ adm[FloorLoop].at \in {"stamp", "try"}
  /\ LET a == adm[FloorLoop]
         v == Head(a.plan)
         undo == a.at = "stamp" /\ (guarded[v] = "job" \/ (guarded[v] = "pin" /\ ~a.soft))
     IN /\ mbusy' = IF a.at = "stamp" THEN mbusy \ {v} ELSE mbusy
        /\ \/ undo /\ mst' = [mst EXCEPT ![v] = "running"] /\ vms' = vms \cup {v} /\ UNCHANGED kept
           \/ /\ ~undo \/ "fail" \in happens
              /\ kept' = IF a.at = "stamp" THEN kept \ {v} ELSE kept
              /\ UNCHANGED <<mst, vms>>
  /\ adm' = [adm EXCEPT ![FloorLoop] = NoAdm]
  /\ preempt' = -1
  /\ UNCHANGED <<poolVars, guarded, inflight, happens>>

\* giveBackOne: a paused lease is resumed when it fits with the floor to spare,
\* without taking anything back for it.
GiveBack(l) ==
  /\ "giveback" \in happens
  /\ mst[l] = "paused" /\ l \notin mbusy /\ adm[l].at = "idle"
  /\ FreePages - Max({0, Running - (MaTotal - FreePages)}) >= MaMem[l] + FloorNow
  /\ CapShort(Running, MaMem[l]) <= 0
  /\ adm' = [adm EXCEPT ![l].at = "lock", ![l].soft = TRUE]
  /\ mbusy' = mbusy \cup {l}
  /\ UNCHANGED <<poolVars, mst, guarded, vms, inflight, preempt, happens, kept>>

\* The owner pins a lease, or a job starts on it; later it is let go.
Guard(l, how) ==
  /\ how \in MaGuards
  /\ mst[l] # "none" /\ guarded[l] # how
  /\ guarded' = [guarded EXCEPT ![l] = how]
  /\ kept' = IF how = "no" \/ mst[l] # "running" THEN kept \ {l} ELSE kept \cup {l}
  /\ UNCHANGED <<poolVars, mst, mbusy, vms, inflight, preempt, adm, happens>>

ReleaseLease(l) ==
  /\ "release" \in happens
  /\ mst[l] = "running" /\ l \notin mbusy
  /\ mst' = [mst EXCEPT ![l] = "none"]
  /\ vms' = vms \ {l}
  /\ guarded' = [guarded EXCEPT ![l] = "no"]
  /\ kept' = kept \ {l}
  /\ UNCHANGED <<poolVars, mbusy, inflight, preempt, adm, happens>>

-----------------------------------------------------------------------------
AdmitStep(l) ==
  \/ Pop(l) \/ PopHold(l) \/ Admit(l) \/ Plan(l) \/ Try(l) \/ Pausing(l) \/ Stamp(l)
  \/ Read(l) \/ Check(l) \/ Create(l) \/ Insert(l) \/ Undo(l)

FillStep == FillCheck \/ FillBoot \/ FillStock \/ FillRelease

MANext ==
  \/ \E l \in MaLeases : Ask(l) \/ AdmitStep(l) \/ GiveBack(l) \/ ReleaseLease(l)
  \/ \E l \in MaLeases, how \in {"no", "pin", "job"} : Guard(l, how)
  \/ FillRead \/ FillStep
  \/ Pressure \/ Pausing(FloorLoop) \/ PressureEnd

\* The goroutine that holds preemptMu runs on.
HolderStep ==
  \/ \E l \in MaLeases : preempt = l /\ (Plan(l) \/ Try(l) \/ Pausing(l) \/ Stamp(l) \/ Read(l) \/ Check(l))
  \/ preempt = FloorLoop /\ (Pausing(FloorLoop) \/ PressureEnd)

MASpec == MAInit /\ [][MANext]_mavars

-----------------------------------------------------------------------------
\* The in-flight figure is exactly the memory of the admissions between their
\* promise and their undo and of the pool VMs between hold and release: no
\* path drops it twice or forgets it (undo, undoFn of the pool, releaseHold).
InflightIsPromised ==
  inflight = SumMem({l \in MaLeases : adm[l].at \in {"create", "insert", "undo", "held"}})
               + (IF fill.at \in {"boot", "stock", "release"} THEN 1 ELSE 0)

\* A lease that was pinned, or got a job, while it ran is running again once
\* no operation is in flight on it, even when the pin landed in the middle of
\* its take-back pause (takeBackPauseWith's second check).
PinWins == \A l \in kept : l \notin mbusy => mst[l] = "running"

\* preemptMu is always released, although its holder pauses leases with it and
\* owners keep pinning its victims (the bound on refused rounds): no admission
\* of the box waits for ever.
PreemptReleased == preempt # -1 ~> preempt = -1

\* The memory of the running leases and pooled VMs is within the overcommit
\* cap: the claim of admitMemory and warmPool that no admission slips between
\* the reading and the promise.
WithinOvercommitCap == Running <= MaCap
=============================================================================
