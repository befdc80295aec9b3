------------------------------ MODULE LeaseOps ------------------------------
(***************************************************************************)
(* The lifecycle operations of a lease: grant, warm-pool fill, suspend and *)
(* take-back, resume, restart (warm and cold), restore, checkpoint, crash  *)
(* test, rootfs-probe recovery, crash recovery and release.                *)
(*                                                                         *)
(* One action per lock section or substrate call.  Between two of them any *)
(* other goroutine may run; in particular release ignores the busy flag.   *)
(***************************************************************************)
EXTENDS LeaseStore

Idle(w) == w \in Handlers /\ work[w].pc = "idle" /\ startup = "no"

Start(w, op, l, step, build) ==
    work' = [work EXCEPT ![w] = [pc |-> step, op |-> op, lease |-> l,
                                 id |-> NoSandbox, build |-> build]]

-----------------------------------------------------------------------------
(* Taking the busy flag. *)

\* What the route checks when it looks the lease up, before the lock is
\* dropped and taken again by Begin.
LookupPasses(l, op) ==
    /\ op = "suspend" => lease[l].state # "lost" /\ l \in Persistent
    /\ op = "use" => lease[l].state = "suspended"
    /\ op = "checkpoint" => live(l)
    /\ op = "restore" => lease[l].state # "lost" /\ lease[l].checkpoint # NoBuild

Lookup(w, l, op) ==
    /\ Idle(w)
    /\ op \in Ops \cap {"suspend", "resume", "use", "checkpoint", "restore", "crashTest"}
    /\ l \in inStore \ released
    /\ LookupPasses(l, op)
    /\ Start(w, op, l, "found", IF op = "restore" THEN lease[l].checkpoint ELSE NoBuild)
    /\ UNCHANGED <<memVars, rowVars, pool, creating, orphans, tries, sweepVars,
                   recVars, bootVars, vm, used, reached>>

\* Mutant: the busy flag is not looked at again.
BeginPassesBusy(l, op) ==
    /\ op \in {"resume", "use"} => lease[l].state \notin {"lost", "running"}
    /\ op = "crashTest" => live(l)
    /\ op \in {"restore", "crashTest"} => GenerationRoom(l)

\* What the operation re-checks in the lock section that sets busy.
BeginPasses(l, op) ==
    /\ l \notin busy
    /\ op \in {"resume", "use"} => lease[l].state \notin {"lost", "running"}
    /\ op = "crashTest" => live(l)
    /\ op \in {"restore", "crashTest"} => GenerationRoom(l)

FirstStep(op) ==
    CASE op = "suspend" -> "pause"
      [] op = "checkpoint" -> "ckpt"
      [] op = "crashTest" -> "crash"
      [] OTHER -> "admit"

Begin(w) ==
    /\ work[w].pc = "found"
    /\ LET l == work[w].lease
           op == work[w].op
       IN  IF BeginPasses(l, op)
           THEN /\ busy' = busy \cup {l}
                /\ Goto(w, FirstStep(op))
           ELSE /\ work' = [work EXCEPT ![w] = IdleWork]
                /\ UNCHANGED busy
    /\ UNCHANGED <<inStore, released, lease, rowVars, pool, creating, orphans, tries,
                   sweepVars, recVars, bootVars, vm, used, reached>>

\* restart: looks the lease up and takes busy in one lock section.  A
\* persistent lease makes a snapshot round trip, any other gets a fresh
\* sandbox after its old one is deleted; mode cold creates it first.
Restart(w, l) ==
    /\ Idle(w)
    /\ "restart" \in Ops
    /\ l \in inStore \ (released \cup busy)
    /\ lease[l].state # "lost"
    /\ GenerationRoom(l)
    /\ busy' = busy \cup {l}
    /\ \/ Start(w, "cold", l, "admit", NoBuild)
       \/ l \notin Persistent /\ Start(w, "fresh", l, "dropFirst", NoBuild)
       \/ /\ l \in Persistent
          /\ Start(w, "restart", l,
                   IF lease[l].state = "suspended" THEN "admit" ELSE "pause", NoBuild)
    /\ UNCHANGED <<inStore, released, lease, rowVars, pool, creating, orphans, tries,
                   sweepVars, recVars, bootVars, vm, used, reached>>

\* takeBackPauseWith and recoverProbedLease: busy, released and live are
\* read in the section that sets busy.
Seize(w, l, op) ==
    /\ Idle(w)
    /\ op \in Ops \cap {"takeBack", "probe"}
    /\ l \in inStore \ (released \cup busy)
    /\ live(l)
    /\ op = "probe" => GenerationRoom(l)
    /\ busy' = busy \cup {l}
    /\ Start(w, op, l, IF op = "probe" THEN "mark" ELSE "pause", NoBuild)
    /\ UNCHANGED <<inStore, released, lease, rowVars, pool, creating, orphans, tries,
                   sweepVars, recVars, bootVars, vm, used, reached>>

\* endBusy, and the reconcile loop going on to its next target.
EndBusy(w) ==
    /\ work[w].pc = "endBusy"
    /\ busy' = busy \ {work[w].lease}
    /\ work' = [work EXCEPT ![w] = IF w = Reconciler
                                   THEN [IdleWork EXCEPT !.pc = "next"] ELSE IdleWork]
    /\ UNCHANGED <<inStore, released, lease, rowVars, pool, creating, orphans, tries,
                   sweepVars, recVars, bootVars, vm, used, reached>>

-----------------------------------------------------------------------------
(* Pausing. *)

\* pauseLeaseBody up to sub.Pause.  A refusal (no snapshot slot, no disk
\* room, a failed Pause) leaves the guest as it was.
Pause(w) ==
    /\ work[w].pc = "pause"
    /\ LET s == lease[work[w].lease].sandbox
       IN  \/ Leave(w) /\ UNCHANGED vm
           \/ /\ vm[s] \in Moments
              /\ vm' = [vm EXCEPT ![s] = NoVM]
              /\ work' = [work EXCEPT ![w] = [@ EXCEPT !.pc = "paused", !.build = vm[s]]]
    /\ UNCHANGED <<memVars, rowVars, pool, creating, orphans, tries, sweepVars,
                   recVars, bootVars, used, reached>>

\* The rest of pauseLeaseBody: the build's rows are written, then the lease
\* becomes suspended unless it was released meanwhile.  A take-back whose
\* lease was pinned during the pause resumes it at once.  Bound: a write
\* fails only while the recovery it calls for has a generation left.
Paused(w) ==
    /\ work[w].pc = "paused"
    /\ LET l == work[w].lease
           op == work[w].op
       IN  \/ /\ ("record" \in Faults /\ GenerationRoom(l)) \/ leaseReleased(l)
              /\ Leave(w)
              /\ UNCHANGED <<lease, rowVars>>
           \/ /\ ~leaseReleased(l)
              /\ Save(l, [lease[l] EXCEPT !.state = "suspended",
                                          !.resumeBuild = work[w].build])
              /\ \E step \in (IF op = "suspend" THEN {"endBusy"}
                              ELSE IF op = "restart" THEN {"admit"}
                              ELSE {"endBusy", "admit"}) : Goto(w, step)
    /\ UNCHANGED <<inStore, released, busy, pool, creating, orphans, tries, sweepVars,
                   recVars, bootVars, vm, used, reached>>

-----------------------------------------------------------------------------
(* Creating a sandbox: createSandbox and what its callers do around it. *)

\* The build an operation starts its sandbox from.
SourceBuild(w) ==
    LET l == work[w].lease
        op == work[w].op
    IN  CASE op \in {"resume", "use", "restart", "takeBack"} -> lease[l].resumeBuild
          [] op = "recover" -> lease[l].checkpoint
          [] op = "restore" -> work[w].build
          [] OTHER -> ImageBuild

ResumesInPlace(op) == op \in {"resume", "use", "restart", "takeBack", "recover"}

\* An operation whose create failed: a recovery still has to judge its
\* retry budget, any other returns the error.
CreateFailed(w) ==
    IF work[w].op = "recover" THEN Goto(w, "failed") ELSE Leave(w)

\* Admission (disk room, memory, node status) and the catalog reads, then
\* the id is chosen and held in flight.  A resume without a pause build
\* finds no build row.
Admit(w) ==
    /\ work[w].pc = "admit"
    /\ \/ CreateFailed(w) /\ UNCHANGED <<creating, used>>
       \/ /\ SourceBuild(w) # NoBuild
          /\ \E s \in IF ResumesInPlace(work[w].op)
                      THEN {lease[work[w].lease].sandbox} ELSE Sandboxes \ used :
                /\ creating' = creating \cup {s}
                /\ used' = used \cup {s}
                /\ work' = [work EXCEPT ![w] = [@ EXCEPT !.pc = "create", !.id = s,
                                                        !.build = SourceBuild(w)]]
    /\ UNCHANGED <<memVars, rowVars, pool, orphans, tries, sweepVars, recVars,
                   bootVars, vm, reached>>

\* sub.Create.  An id that still has a sandbox is either replaced or
\* refused.  A failed resume deletes what is there (deleteHalfSandbox),
\* any other failed create leaves that to the client: both best effort.  A
\* cold boot whose init failed is deleted with retries.
Create(w) ==
    /\ work[w].pc = "create"
    /\ LET s == work[w].id
       IN  \/ /\ Boot(s, work[w].build)
              /\ Goto(w, "check")
              /\ UNCHANGED <<creating, orphans>>
           \/ /\ "create" \in Faults \/ vm[s] # NoVM
              /\ \/ vm' = [vm EXCEPT ![s] = NoVM] /\ UNCHANGED <<sweepVars, orphans>>
                 \/ /\ "delete" \in Faults
                    /\ IF vm[s] = NoVM THEN Boot(s, Half) ELSE UNCHANGED <<vm, sweepVars>>
                    /\ UNCHANGED orphans
                 \/ /\ "delete" \in Faults /\ ~ResumesInPlace(work[w].op)
                    /\ Boot(s, work[w].build)
                    /\ orphans' = orphans \cup {s}
              /\ endCreatingSandbox(s)
              /\ CreateFailed(w)
    /\ UNCHANGED <<memVars, rowVars, pool, tries, recVars, bootVars, used, reached>>

\* Mutant: the fresh sandbox is left running.
StopFreshKeeps(w, keep) ==
    /\ endCreatingSandbox(work[w].id)
    /\ Leave(w)
    /\ UNCHANGED <<vm, orphans, tries>>

\* Deletes the fresh sandbox, ends its in-flight mark and returns; a
\* recovery that ends so has no budget left to keep.
StopFresh(w, keep) ==
    /\ Delete(work[w].id, keep)
    /\ endCreatingSandbox(work[w].id)
    /\ IF work[w].op = "recover" THEN ClearRetries(work[w].lease) ELSE UNCHANGED tries
    /\ Leave(w)

\* The released check after the create returned.  What follows it: a grant
\* and a pool fill are probed, a cold restart and a restore drop the old
\* sandbox, the rest commits.
Check(w) ==
    /\ work[w].pc = "check"
    /\ IF leaseReleased(work[w].lease)
       THEN StopFresh(w, {work[w].id})
       ELSE /\ Goto(w, CASE work[w].op \in {"grant", "fill"} -> "probe"
                         [] work[w].op \in {"cold", "restore"} -> "dropOld"
                         [] OTHER -> "commit")
            /\ UNCHANGED <<vm, orphans, creating, tries>>
    /\ UNCHANGED <<memVars, rowVars, pool, sweepVars, recVars, bootVars, used, reached>>

\* The integrity probe, the markers and the secrets of a grant, its
\* owner-deleted guard, or the probe of a pool fill.  A failure deletes the
\* sandbox and ignores the delete's error.
Probe(w) ==
    /\ work[w].pc = "probe"
    /\ \/ Goto(w, "commit") /\ UNCHANGED <<vm, orphans, creating, tries>>
       \/ StopFresh(w, {})
    /\ UNCHANGED <<memVars, rowVars, pool, sweepVars, recVars, bootVars, used, reached>>

\* restartCold and restore delete the old sandbox and ignore the error.  A
\* restore to the start snapshot may fail before it, deleting the fresh one.
DropOld(w) ==
    /\ work[w].pc = "dropOld"
    /\ \/ /\ Delete(lease[work[w].lease].sandbox, {})
          /\ Goto(w, "commit")
          /\ UNCHANGED <<creating, tries>>
       \/ work[w].op = "restore" /\ StopFresh(w, {})
    /\ UNCHANGED <<memVars, rowVars, pool, sweepVars, recVars, bootVars, used, reached>>

\* The non-persistent warm restart deletes the old sandbox before it
\* creates the new one; only a suspended lease can be refused first.
DropFirst(w) ==
    /\ work[w].pc = "dropFirst"
    /\ \/ /\ lease[work[w].lease].state = "suspended"
          /\ Leave(w)
          /\ UNCHANGED <<vm, orphans>>
       \/ /\ Delete(lease[work[w].lease].sandbox, {})
          /\ Goto(w, "admit")
    /\ UNCHANGED <<memVars, rowVars, pool, creating, tries, sweepVars, recVars,
                   bootVars, used, reached>>

\* Mutants: no commit bumps the generation; a suspended lease stays so.
CommittedSameGeneration(w) ==
    [lease[work[w].lease] EXCEPT !.state = "running", !.sandbox = work[w].id]
CommittedStillSuspended(w) ==
    [lease[work[w].lease] EXCEPT !.state = IF @ = "suspended" THEN @ ELSE "running",
                                 !.sandbox = work[w].id,
                                 !.generation = IF ResumesInPlace(work[w].op)
                                                THEN @ ELSE @ + 1]

\* The lease fields after each operation's commit.
Committed(w) ==
    LET r == lease[work[w].lease]
        op == work[w].op
    IN  CASE op \in {"resume", "use", "restart", "takeBack"} ->
                [r EXCEPT !.state = "running"]
          [] op = "recover" ->
                [r EXCEPT !.state = "recovered", !.generation = @ + 1]
          [] op = "fresh" ->
                [r EXCEPT !.state = "running", !.sandbox = work[w].id,
                          !.generation = @ + 1]
          [] op \in {"cold", "restore"} ->
                [r EXCEPT !.state = "running", !.sandbox = work[w].id,
                          !.generation = @ + 1, !.resumeBuild = NoBuild]
          [] OTHER ->
                [NewLease EXCEPT !.state = "running", !.sandbox = work[w].id,
                                 !.generation = 1]

\* The commit, under the store lock: a release that landed since the check
\* wins and the fresh sandbox is stopped; a pool fill stocks its sandbox.
Commit(w) ==
    /\ work[w].pc = "commit"
    /\ LET l == work[w].lease
           op == work[w].op
       IN  \/ /\ op = "fill"
              /\ pool' = pool \cup {work[w].id}
              /\ Goto(w, "endCreate")
              /\ UNCHANGED <<inStore, lease, rowVars, vm, orphans, creating, tries, reached>>
           \/ /\ op # "fill" /\ leaseReleased(l)
              /\ StopFresh(w, {work[w].id})
              /\ UNCHANGED <<inStore, lease, rowVars, pool, reached>>
           \/ /\ op # "fill" /\ ~leaseReleased(l)
              /\ inStore' = inStore \cup (IF op = "grant" THEN {l} ELSE {})
              /\ Save(l, Committed(w))
              /\ reached' = IF Committed(w).generation = lease[l].generation
                            THEN reached ELSE [reached EXCEPT ![l] = work[w].build]
              /\ Goto(w, "endCreate")
              /\ UNCHANGED <<vm, orphans, creating, tries, pool>>
    /\ UNCHANGED <<released, busy, sweepVars, recVars, bootVars, used>>

\* After the commit the in-flight mark ends, and with it the recovery
\* budgets of the lease.
EndCreate(w) ==
    /\ work[w].pc = "endCreate"
    /\ endCreatingSandbox(work[w].id)
    /\ IF work[w].op \in BusyOps THEN ClearRetries(work[w].lease) ELSE UNCHANGED tries
    /\ Leave(w)
    /\ UNCHANGED <<memVars, rowVars, pool, orphans, sweepVars, recVars, bootVars, vm,
                   used, reached>>

-----------------------------------------------------------------------------
(* Granting a lease and stocking the pool. *)

Grant(w, l) ==
    /\ Idle(w)
    /\ "grant" \in Ops
    /\ lease[l].state = "none"
    /\ \A v \in Workers : work[v].lease # l
    /\ Start(w, "grant", l, "pop", ImageBuild)
    /\ UNCHANGED <<memVars, rowVars, pool, creating, orphans, tries, sweepVars,
                   recVars, bootVars, vm, used, reached>>

\* Mutants: the popped sandbox stays in the pool; it is not held in flight.
PopKeepsStock(w) ==
    /\ work[w].pc = "pop"
    /\ \E s \in pool :
          /\ creating' = creating \cup {s}
          /\ work' = [work EXCEPT ![w] = [@ EXCEPT !.pc = "validate", !.id = s]]
    /\ UNCHANGED <<memVars, rowVars, pool, orphans, tries, sweepVars, recVars, bootVars,
                   vm, used, reached>>
PopUnmarked(w) ==
    /\ work[w].pc = "pop"
    /\ \E s \in pool :
          /\ pool' = pool \ {s}
          /\ work' = [work EXCEPT ![w] = [@ EXCEPT !.pc = "validate", !.id = s]]
    /\ UNCHANGED <<memVars, rowVars, creating, orphans, tries, sweepVars, recVars,
                   bootVars, vm, used, reached>>

\* grantLease pops a pooled sandbox and holds it in flight in the same lock
\* section.  A sized create or a snapshot start never looks at the pool;
\* once the loop runs only an empty pool ends it.
Pop(w) ==
    /\ work[w].pc = "pop"
    /\ \/ /\ pool = {} \/ work[w].id = NoSandbox
          /\ Goto(w, "admit")
          /\ UNCHANGED <<pool, creating>>
       \/ \E s \in pool :
             /\ pool' = pool \ {s}
             /\ creating' = creating \cup {s}
             /\ work' = [work EXCEPT ![w] = [@ EXCEPT !.pc = "validate", !.id = s]]
    /\ UNCHANGED <<memVars, rowVars, orphans, tries, sweepVars, recVars, bootVars, vm,
                   used, reached>>

\* A pooled sandbox that is unhealthy, or whose row, egress or end time
\* cannot be moved to the lease, is discarded: the next one is tried or the
\* grant fails.
Validate(w) ==
    /\ work[w].pc = "validate"
    /\ \/ /\ vm[work[w].id] \in Moments
          /\ Goto(w, "probe")
          /\ UNCHANGED <<vm, orphans, creating>>
       \/ /\ Delete(work[w].id, {})
          /\ endCreatingSandbox(work[w].id)
          /\ Goto(w, "pop") \/ Leave(w)
    /\ UNCHANGED <<memVars, rowVars, pool, tries, sweepVars, recVars, bootVars, used,
                   reached>>

\* warmPool, one sandbox.
Fill(w) ==
    /\ Idle(w)
    /\ "fill" \in Ops
    /\ Cardinality(pool) < PoolSize
    /\ \A v \in Workers : work[v].op # "fill"
    /\ Start(w, "fill", NoLease, "admit", ImageBuild)
    /\ UNCHANGED <<memVars, rowVars, pool, creating, orphans, tries, sweepVars,
                   recVars, bootVars, vm, used, reached>>

-----------------------------------------------------------------------------
(* Checkpointing. *)

\* sub.Checkpoint snapshots the guest and stops it ...
Checkpoint(w) ==
    /\ work[w].pc = "ckpt"
    /\ LET s == lease[work[w].lease].sandbox
       IN  \/ Leave(w) /\ UNCHANGED vm
           \/ /\ vm[s] \in Moments
              /\ vm' = [vm EXCEPT ![s] = NoVM]
              /\ work' = [work EXCEPT ![w] = [@ EXCEPT !.pc = "ckptResume", !.build = vm[s]]]
    /\ UNCHANGED <<memVars, rowVars, pool, creating, orphans, tries, sweepVars,
                   recVars, bootVars, used, reached>>

\* ... and resumes it under the same id, whatever happened to it meanwhile.
\* Bound: a resume fails only while its recovery has a generation left.
CheckpointResume(w) ==
    /\ work[w].pc = "ckptResume"
    /\ \/ /\ Boot(lease[work[w].lease].sandbox, work[w].build)
          /\ Goto(w, "ckptRecord")
       \/ /\ "create" \in Faults /\ GenerationRoom(work[w].lease)
          /\ Leave(w)
          /\ UNCHANGED <<vm, sweepVars>>
    /\ UNCHANGED <<memVars, rowVars, pool, creating, orphans, tries, recVars, bootVars,
                   used, reached>>

\* The build rows and afterCheckpoint.
CheckpointRecord(w) ==
    /\ work[w].pc = "ckptRecord"
    /\ Leave(w)
    /\ LET l == work[w].lease
       IN  \/ "record" \in Faults /\ UNCHANGED <<lease, rowVars, vm, orphans>>
           \/ /\ leaseReleased(l)
              /\ Delete(lease[l].sandbox, {lease[l].sandbox})
              /\ UNCHANGED <<lease, rowVars>>
           \/ /\ ~leaseReleased(l)
              /\ Save(l, [lease[l] EXCEPT !.checkpoint = work[w].build])
              /\ UNCHANGED <<vm, orphans>>
    /\ UNCHANGED <<inStore, released, busy, pool, creating, tries, sweepVars, recVars,
                   bootVars, used, reached>>

-----------------------------------------------------------------------------
(* Crash recovery of one lease. *)

\* recoverProbedLease saves the loss reason before it acts.
Mark(w) ==
    /\ work[w].pc = "mark"
    /\ Save(work[w].lease, lease[work[w].lease])
    /\ Goto(w, "crash")
    /\ UNCHANGED <<inStore, released, busy, pool, creating, orphans, tries, sweepVars,
                   recVars, bootVars, vm, used, reached>>

\* crashTest and recoverProbedLease delete the sandbox, ignoring the error,
\* and hand the lease to recoverOneLease.
Crash(w) ==
    /\ work[w].pc = "crash"
    /\ Delete(lease[work[w].lease].sandbox, {})
    /\ work' = [work EXCEPT ![w] = [@ EXCEPT !.pc = "recover", !.op = "recover"]]
    /\ UNCHANGED <<memVars, rowVars, pool, creating, tries, sweepVars, recVars,
                   bootVars, used, reached>>

\* recoverOneLease: without a checkpoint, or when its image or build row is
\* gone, the lease is lost.
Recover(w) ==
    /\ work[w].pc = "recover"
    /\ \/ lease[work[w].lease].checkpoint # NoBuild /\ Goto(w, "admit")
       \/ /\ lease[work[w].lease].checkpoint = NoBuild \/ "record" \in Faults
          /\ Goto(w, "lose")
    /\ UNCHANGED <<memVars, rowVars, pool, creating, orphans, tries, sweepVars,
                   recVars, bootVars, vm, used, reached>>

\* The budget of the lease's current sandbox; one kept for a sandbox the
\* lease has left does not count.
Budget(l) == IF tries[l].sandbox = lease[l].sandbox THEN tries[l] ELSE NoBudget

\* Mutant: one attempt too many.
BudgetSpentLate(failed) == failed > RetryLimit

BudgetSpent(failed) == failed >= RetryLimit

\* noteRetryFailure counts an attempt, noteRetryWait (a capacity refusal)
\* does not; both are spent once the window has passed, which a later note
\* may find, and which RetryPasses notes must.
RetryFailed(w) ==
    /\ work[w].pc = "failed"
    /\ LET l == work[w].lease
           b == Budget(l)
       IN  \E counted \in {0, 1} :
              \/ /\ ~BudgetSpent(b.failed + counted)
                 /\ b.passes + 1 < RetryPasses
                 /\ tries' = [tries EXCEPT ![l] = [sandbox |-> lease[l].sandbox,
                                                   failed |-> b.failed + counted,
                                                   passes |-> b.passes + 1]]
                 /\ Leave(w)
              \/ /\ BudgetSpent(b.failed + counted) \/ b.passes > 0
                 /\ ClearRetries(l)
                 /\ Goto(w, "lose")
    /\ UNCHANGED <<memVars, rowVars, pool, creating, orphans, sweepVars, recVars,
                   bootVars, vm, used, reached>>

\* loseRecovery: markLost leaves a released lease alone.
Lose(w) ==
    /\ work[w].pc = "lose"
    /\ LET l == work[w].lease
       IN  /\ ClearRetries(l)
           /\ IF leaseReleased(l)
              THEN Leave(w) /\ UNCHANGED <<lease, rowVars>>
              ELSE /\ Save(l, [lease[l] EXCEPT !.state = "lost"])
                   /\ Goto(w, "stopLost")
    /\ UNCHANGED <<inStore, released, busy, pool, creating, orphans, sweepVars,
                   recVars, bootVars, vm, used, reached>>

\* Mutant: the lost lease's sandbox is left to itself.
StopLostSkipped(w) ==
    /\ work[w].pc = "stopLost"
    /\ Leave(w)
    /\ UNCHANGED <<memVars, rowVars, pool, creating, orphans, tries, sweepVars, recVars,
                   bootVars, vm, used, reached>>

\* stopLostSandbox.
StopLost(w) ==
    /\ work[w].pc = "stopLost"
    /\ Delete(lease[work[w].lease].sandbox, {lease[work[w].lease].sandbox})
    /\ Leave(w)
    /\ UNCHANGED <<memVars, rowVars, pool, creating, tries, sweepVars, recVars,
                   bootVars, used, reached>>

-----------------------------------------------------------------------------
(* Release: DELETE, a lapsed TTL or the paused-lease clock. *)

Release(w, l) ==
    /\ Idle(w)
    /\ "release" \in Ops
    /\ l \in inStore \ released
    /\ released' = released \cup {l}
    /\ Start(w, "release", l, "relDelete", NoBuild)
    /\ UNCHANGED <<inStore, busy, lease, rowVars, pool, creating, orphans, tries,
                   sweepVars, recVars, bootVars, vm, used, reached>>

ReleaseDelete(w) ==
    /\ work[w].pc = "relDelete"
    /\ Delete(lease[work[w].lease].sandbox, {lease[work[w].lease].sandbox})
    /\ Goto(w, "relDrop")
    /\ UNCHANGED <<memVars, rowVars, pool, creating, tries, sweepVars, recVars,
                   bootVars, used, reached>>

ReleaseDrop(w) ==
    /\ work[w].pc = "relDrop"
    /\ LET l == work[w].lease
       IN  /\ inStore' = inStore \ {l}
           /\ deleteLeaseLocked(l)
           /\ ClearRetries(l)
    /\ work' = [work EXCEPT ![w] = IdleWork]
    /\ UNCHANGED <<released, busy, lease, pool, creating, orphans, sweepVars, recVars,
                   bootVars, vm, used, reached>>

-----------------------------------------------------------------------------

WorkStep(w) ==
    \/ Begin(w) \/ EndBusy(w)
    \/ Pause(w) \/ Paused(w)
    \/ Admit(w) \/ Create(w) \/ Check(w) \/ Probe(w) \/ DropOld(w) \/ DropFirst(w)
    \/ Commit(w) \/ EndCreate(w)
    \/ Pop(w) \/ Validate(w)
    \/ Checkpoint(w) \/ CheckpointResume(w) \/ CheckpointRecord(w)
    \/ Mark(w) \/ Crash(w) \/ Recover(w) \/ RetryFailed(w) \/ Lose(w) \/ StopLost(w)
    \/ ReleaseDelete(w) \/ ReleaseDrop(w)

Request(w) ==
    \/ Fill(w)
    \/ \E l \in Leases : Grant(w, l) \/ Restart(w, l) \/ Release(w, l)
    \/ \E l \in Leases, op \in Ops : Lookup(w, l, op) \/ Seize(w, l, op)

=============================================================================
