----------------------------- MODULE LeaseStore -----------------------------
(***************************************************************************)
(* The state the lease backend works on: the in-memory lease table guarded *)
(* by store.mu, its rows in SQLite, the warm pool, the orphan bookkeeping, *)
(* the recovery budgets, the goroutines that run lifecycle operations, and *)
(* the sandboxes (microVMs) that exist on the node.                        *)
(*                                                                         *)
(* Data abstraction.  A guest's memory is the number of steps its          *)
(* processes have taken (a moment).  A build is the moment it captured;    *)
(* the image's build is moment 0.  Sandbox ids are never reused: every     *)
(* create that does not resume in place draws one outside `used`.          *)
(***************************************************************************)
EXTENDS Integers, FiniteSets

CONSTANTS
    Leases,         \* lease ids
    Sandboxes,      \* sandbox ids
    Handlers,       \* request and loop goroutines that run one operation at a time
    Reconciler,     \* the crash reconcile goroutine
    NoLease, NoSandbox,
    Persistent,     \* the leases granted with persistent set
    Ops,            \* the operations the handlers run in this instance
    Faults,         \* what may fail: "vm", "list", "delete", "create", "record"
    PoolSize,       \* cfg.PoolSize
    MaxMoment,      \* bound on guest progress
    MaxGeneration,  \* bound on continuity breaks per lease
    MaxRestarts,    \* bound on backend restarts
    RetryLimit,     \* RECOVERY_RETRY_ATTEMPTS
    RetryPasses     \* RECOVERY_RETRY_WINDOW, in reconcile passes

ASSUME SentinelAssumption ==
    /\ NoLease \notin Leases
    /\ NoSandbox \notin Sandboxes
    /\ Reconciler \notin Handlers

ASSUME BoundAssumption ==
    /\ MaxMoment \in Nat
    /\ MaxGeneration \in Nat \ {0}
    /\ MaxRestarts \in Nat
    /\ PoolSize \in Nat
    /\ RetryLimit \in Nat \ {0}
    /\ RetryPasses \in Nat \ {0, 1}

ASSUME SubsetAssumption == Persistent \subseteq Leases

VARIABLES
    inStore,    \* the leases in store.leases
    released,   \* the leases whose released flag is set
    busy,       \* the leases whose busy flag is set
    lease,      \* the fields of each lease that its row also carries
    rows,       \* the leases that have a row in the leases table
    row,        \* what those rows say
    pool,       \* store.pool, written through to the pool table
    creating,   \* orphanSweep.creating: ids a create holds in flight
    seen,       \* orphanSweep.seen: ids unclaimed on the previous pass
    orphans,    \* orphanSandboxIDs: ids whose delete failed
    tries,      \* recoveryRetries, the pending budget of each lease
    work,       \* what each goroutine is doing
    sweep,      \* the orphan sweep pass
    present,    \* the ids reconcileCrash listed
    targets,    \* the leases reconcileCrash still has to recover
    startup,    \* the startup stage: "reconcile", "sweep" or "no"
    restarts,   \* backend restarts so far
    vm,         \* the sandboxes on the node
    used,       \* sandbox ids ever drawn
    reached     \* history: the last moment the holder saw in this generation

memVars == <<inStore, released, busy, lease>>
rowVars == <<rows, row>>
sweepVars == <<seen, sweep>>
recVars == <<present, targets>>
bootVars == <<startup, restarts>>
vars == <<memVars, rowVars, pool, creating, orphans, tries, work, sweepVars,
          recVars, bootVars, vm, used, reached>>

-----------------------------------------------------------------------------

Workers == Handlers \cup {Reconciler}
Moments == 0..MaxMoment
ImageBuild == 0
NoBuild == -1
Builds == Moments \cup {NoBuild}
NoVM == -1
\* A create that failed without its cleanup: listed, but no guest answers.
Half == -2

LeaseStates == {"none", "running", "suspended", "recovered", "lost"}

LeaseRecord ==
    [state: LeaseStates, sandbox: Sandboxes \cup {NoSandbox},
     resumeBuild: Builds, checkpoint: Builds, generation: Nat]

NewLease == [state |-> "none", sandbox |-> NoSandbox, resumeBuild |-> NoBuild,
             checkpoint |-> NoBuild, generation |-> 0]

live(l) == lease[l].state \in {"running", "recovered"}

NoBudget == [sandbox |-> NoSandbox, failed |-> 0, passes |-> 0]

BusyOps == {"suspend", "resume", "use", "restart", "fresh", "cold", "takeBack",
            "checkpoint", "restore", "crashTest", "probe", "recover"}
OpNames == BusyOps \cup {"none", "grant", "fill", "release"}

\* The steps between two of which a goroutine holds no lock; a lease
\* operation owns its lease's busy flag in exactly the BusySteps.
BusySteps == {"mark", "crash", "pause", "paused", "dropFirst", "ckpt", "ckptResume",
              "ckptRecord", "recover", "failed", "lose", "stopLost", "endBusy"}
CreateSteps == {"admit", "create", "check", "dropOld", "probe", "commit", "endCreate"}
Steps == BusySteps \cup CreateSteps
           \cup {"idle", "found", "pop", "validate", "relDelete", "relDrop",
                 "listed", "next"}

IdleWork == [pc |-> "idle", op |-> "none", lease |-> NoLease,
             id |-> NoSandbox, build |-> NoBuild]

\* The goroutine owns its lease's busy flag.
HoldsBusy(w) ==
    work[w].op \in BusyOps /\ work[w].pc \in BusySteps \cup CreateSteps

\* The goroutine has drawn or popped a sandbox id that it has not yet
\* claimed or put away.
Holds(w) ==
    work[w].pc \in {"validate", "create", "check", "dropOld", "probe", "commit"}

present_ids == {s \in Sandboxes : vm[s] # NoVM}

\* Mutant: a release is noticed by nobody.
LeaseReleasedNever(l) == FALSE

\* leaseReleased, and l.released read under the store lock: what an operation
\* re-reads once a substrate call has returned.
leaseReleased(l) == l \in released

\* Mutants: busy is not looked at; a recovered lease is not recovered again.
TrySetBusyShared(l) == l \notin released /\ live(l)
TrySetBusyRunning(l) == l \notin busy \cup released /\ lease[l].state = "running"

\* What trySetBusy checks.
TrySetBusyPasses(l) == l \notin busy \cup released /\ live(l)

-----------------------------------------------------------------------------
(* Writes. *)

Goto(w, step) == work' = [work EXCEPT ![w].pc = step]

\* Mutant: the operation returns without endBusy.
LeaveKeepsBusy(w) == work' = [work EXCEPT ![w] = IdleWork]

\* Where an operation goes once its substrate work is over: a lease
\* operation still has to drop the busy flag, a grant or pool fill is done.
Leave(w) ==
    work' = [work EXCEPT ![w] = IF @.op \in BusyOps
                                THEN [@ EXCEPT !.pc = "endBusy"] ELSE IdleWork]

\* Mutant: a released lease is written back.
SaveUnguarded(l, r) ==
    /\ lease' = [lease EXCEPT ![l] = r]
    /\ rows' = rows \cup {l} /\ row' = [row EXCEPT ![l] = r]

\* saveLeaseLocked after the fields of l became r: a released lease is
\* never written back.
Save(l, r) ==
    /\ lease' = [lease EXCEPT ![l] = r]
    /\ IF l \in released
       THEN UNCHANGED rowVars
       ELSE rows' = rows \cup {l} /\ row' = [row EXCEPT ![l] = r]

\* Mutant: the row outlives its lease.
DeleteRowSkipped(l) == UNCHANGED rowVars

\* deleteLeaseLocked.
deleteLeaseLocked(l) == rows' = rows \ {l} /\ row' = [row EXCEPT ![l] = NewLease]

\* Mutant: a failed delete is forgotten.
DeleteForgets(s, keep) ==
    /\ vm' = [vm EXCEPT ![s] = NoVM] \/ ("delete" \in Faults /\ UNCHANGED vm)
    /\ UNCHANGED orphans

\* sub.Delete(s), whose failure the caller answers by remembering the ids
\* in keep for the orphan sweep ({} when it ignores the error).
Delete(s, keep) ==
    \/ vm' = [vm EXCEPT ![s] = NoVM] /\ UNCHANGED orphans
    \/ "delete" \in Faults /\ orphans' = orphans \cup keep /\ UNCHANGED vm

\* Mutant: the in-flight mark stays.
EndCreatingSkipped(s) == UNCHANGED creating

endCreatingSandbox(s) == creating' = creating \ {s}

\* A sandbox boots under id s at moment m.  Its StartedAt is new, so the
\* sweep's earlier sightings of the id no longer match it.
Boot(s, m) ==
    /\ vm' = [vm EXCEPT ![s] = m]
    /\ seen' = seen \ {s}
    /\ sweep' = IF sweep.pc \in {"flight", "classify"}
                THEN [sweep EXCEPT !.booted = @ \cup {s}] ELSE sweep

\* clearRecoveryRetries.
ClearRetries(l) == tries' = [tries EXCEPT ![l] = NoBudget]

\* Bound: operations that break the guest's continuity stop here.
GenerationRoom(l) == lease[l].generation < MaxGeneration

=============================================================================
