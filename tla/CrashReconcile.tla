--------------------------- MODULE CrashReconcile ---------------------------
(***************************************************************************)
(* reconcileCrash: one pass over the leases whose sandbox is gone.  The    *)
(* sandbox list is read first and outside the store lock; the targets are  *)
(* chosen against it in one lock section; each target is recovered by the  *)
(* steps of LeaseOps under the lease's busy flag.                          *)
(***************************************************************************)
EXTENDS LeaseOps

\* recoveryPending: a budget for the sandbox the lease has now.
RecoveryPending(l) == tries[l].sandbox = lease[l].sandbox /\ tries[l].passes > 0

\* sub.List.  A failed list ends the pass before anything changes.
ReconcileList ==
    /\ work[Reconciler].pc = "idle"
    /\ startup = "reconcile" \/ (startup = "no" /\ "reconcile" \in Ops)
    /\ \/ /\ present' = present_ids
          /\ Goto(Reconciler, "listed")
          /\ UNCHANGED startup
       \/ /\ "list" \in Faults /\ startup = "reconcile"
          /\ startup' = "sweep"
          /\ UNCHANGED <<present, work>>
    /\ UNCHANGED <<memVars, rowVars, pool, creating, orphans, tries, sweepVars,
                   targets, restarts, vm, used, reached>>

\* pruneStaleLeaseRows and the choice of targets.
ReconcileTargets ==
    /\ work[Reconciler].pc = "listed"
    /\ LET stale == {l \in rows \ inStore : row[l].sandbox \notin present}
       IN  /\ rows' = rows \ stale
           /\ row' = [l \in Leases |-> IF l \in stale THEN NewLease ELSE row[l]]
    /\ targets' = {l \in inStore \ (released \cup busy) :
                      live(l) /\ (lease[l].sandbox \notin present \/ RecoveryPending(l))}
    /\ Goto(Reconciler, "next")
    /\ UNCHANGED <<memVars, pool, creating, orphans, tries, sweepVars, present,
                   bootVars, vm, used, reached>>

\* trySetBusy on the next target; a target another operation holds, or one
\* that is released or no longer live, is passed over.
ReconcileNext(l) ==
    /\ work[Reconciler].pc = "next"
    /\ l \in targets
    /\ targets' = targets \ {l}
    /\ IF TrySetBusyPasses(l) /\ GenerationRoom(l)
       THEN /\ busy' = busy \cup {l}
            /\ Start(Reconciler, "recover", l, "recover", NoBuild)
       ELSE UNCHANGED <<busy, work>>
    /\ UNCHANGED <<inStore, released, lease, rowVars, pool, creating, orphans, tries,
                   sweepVars, present, bootVars, vm, used, reached>>

\* The end of the pass: pool entries the list did not show are dropped.
ReconcileEnd ==
    /\ work[Reconciler].pc = "next"
    /\ targets = {}
    /\ pool' = pool \cap present
    /\ present' = {}
    /\ work' = [work EXCEPT ![Reconciler] = IdleWork]
    /\ startup' = IF startup = "reconcile" THEN "sweep" ELSE startup
    /\ UNCHANGED <<memVars, rowVars, creating, orphans, tries, sweepVars, targets,
                   restarts, vm, used, reached>>

Reconcile ==
    \/ ReconcileList \/ ReconcileTargets \/ ReconcileEnd
    \/ \E l \in Leases : ReconcileNext(l)

=============================================================================
