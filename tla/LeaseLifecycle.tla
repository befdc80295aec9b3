--------------------------- MODULE LeaseLifecycle ---------------------------
(***************************************************************************)
(* The lease backend as a whole: request and loop goroutines running the   *)
(* operations of LeaseOps, the crash reconcile and the orphan sweep, over  *)
(* one store, with guests that run and die and a backend that restarts.    *)
(***************************************************************************)
EXTENDS CrashReconcile, OrphanSweep

Init ==
    /\ inStore = {} /\ released = {} /\ busy = {}
    /\ lease = [l \in Leases |-> NewLease]
    /\ rows = {} /\ row = [l \in Leases |-> NewLease]
    /\ pool = {} /\ creating = {} /\ seen = {} /\ orphans = {}
    /\ tries = [l \in Leases |-> NoBudget]
    /\ work = [w \in Workers |-> IdleWork]
    /\ sweep = IdleSweep
    /\ present = {} /\ targets = {}
    /\ startup = "no" /\ restarts = 0
    /\ vm = [s \in Sandboxes |-> NoVM]
    /\ used = {}
    /\ reached = [l \in Leases |-> 0]

-----------------------------------------------------------------------------
(* The environment. *)

\* The guest of a live lease gets on with its work, seen by its holder; a
\* guest an operation has just started is nobody's until the commit.
GuestRuns(l) ==
    LET s == lease[l].sandbox
    IN  /\ l \in inStore /\ live(l)
        /\ \A w \in Workers : ~(Holds(w) /\ work[w].id = s)
        /\ vm[s] \in 0..(MaxMoment - 1)
        /\ vm' = [vm EXCEPT ![s] = @ + 1]
        /\ reached' = [reached EXCEPT ![l] = vm[s] + 1]
        /\ UNCHANGED <<memVars, rowVars, pool, creating, orphans, tries, work,
                       sweepVars, recVars, bootVars, used>>

\* A microVM dies on the node.  Bound: only while a recovery, after what an
\* operation under way may still add, has a generation left.
VmCrash(s) ==
    /\ "vm" \in Faults
    /\ vm[s] # NoVM
    /\ \A l \in Leases :
          l \in Owners(s) \/ (\E w \in Workers : work[w].id = s /\ work[w].lease = l)
          => lease[l].generation + (IF l \in busy THEN 1 ELSE 0) < MaxGeneration
    /\ vm' = [vm EXCEPT ![s] = NoVM]
    /\ UNCHANGED <<memVars, rowVars, pool, creating, orphans, tries, work, sweepVars,
                   recVars, bootVars, used, reached>>

\* The backend process dies and a new one runs LoadState and
\* sweepForeignSandboxes.  Rows and sandboxes survive; the flags, the
\* in-flight set, the remembered orphans, the budgets and every goroutine
\* do not.  Requests are served once the startup reconcile and sweep end.
BackendRestart ==
    /\ restarts < MaxRestarts
    /\ restarts' = restarts + 1
    /\ startup' = "reconcile"
    /\ inStore' = rows
    /\ released' = released \ rows
    /\ lease' = [l \in Leases |-> IF l \in rows THEN row[l] ELSE lease[l]]
    /\ busy' = {} /\ creating' = {} /\ seen' = {}
    /\ tries' = [l \in Leases |-> NoBudget]
    /\ work' = [w \in DOMAIN work |-> IdleWork]
    /\ sweep' = IdleSweep
    /\ present' = {} /\ targets' = {}
    /\ LET foreign == present_ids \ (pool \cup {row[l].sandbox : l \in rows})
       IN  \/ \E left \in SUBSET (IF "delete" \in Faults THEN foreign ELSE {}) :
                 /\ vm' = [s \in Sandboxes |-> IF s \in foreign \ left THEN NoVM ELSE vm[s]]
                 /\ orphans' = left
           \/ "list" \in Faults /\ orphans' = {} /\ UNCHANGED vm
    /\ UNCHANGED <<rowVars, pool, used, reached>>

Next ==
    \/ \E w \in Handlers : Request(w)
    \/ \E w \in Workers : WorkStep(w)
    \/ Reconcile
    \/ Sweep
    \/ \E l \in Leases : GuestRuns(l)
    \/ \E s \in Sandboxes : VmCrash(s)
    \/ BackendRestart

Spec == Init /\ [][Next]_vars

-----------------------------------------------------------------------------
(* Safety. *)

WorkRecord == [pc: Steps, op: OpNames, lease: Leases \cup {NoLease},
               id: Sandboxes \cup {NoSandbox}, build: Builds]

SweepRecord == [pc: SweepPcs, phase: {"retry", "sweep"}, listed: SUBSET Sandboxes,
                again: SUBSET Sandboxes, booted: SUBSET Sandboxes,
                flight: SUBSET Sandboxes, todo: SUBSET Sandboxes,
                id: Sandboxes \cup {NoSandbox}]

\* A kept budget is never a spent one.
BudgetRecord == [sandbox: Sandboxes \cup {NoSandbox},
                 failed: 0..(RetryLimit - 1), passes: 0..(RetryPasses - 1)]

\* The variables keep their types; a lease in the store names a sandbox.
TypeOK ==
    /\ inStore \in SUBSET Leases /\ released \in SUBSET Leases
    /\ busy \in SUBSET Leases /\ rows \in SUBSET Leases
    /\ lease \in [Leases -> LeaseRecord] /\ row \in [Leases -> LeaseRecord]
    /\ pool \in SUBSET Sandboxes /\ creating \in SUBSET Sandboxes
    /\ seen \in SUBSET Sandboxes /\ orphans \in SUBSET Sandboxes
    /\ tries \in [Leases -> BudgetRecord]
    /\ work \in [Workers -> WorkRecord] /\ sweep \in SweepRecord
    /\ present \in SUBSET Sandboxes /\ targets \in SUBSET Leases
    /\ startup \in {"reconcile", "sweep", "no"} /\ restarts \in 0..MaxRestarts
    /\ vm \in [Sandboxes -> Moments \cup {NoVM, Half}]
    /\ used \in SUBSET Sandboxes /\ reached \in [Leases -> Moments]

\* A lease's busy flag is owned by exactly one running operation: no two
\* lifecycle operations work on a lease's sandbox at once, and no flag
\* outlives the operation that set it (every error path reaches endBusy).
BusyExclusive ==
    /\ \A l \in Leases :
          l \in busy <=> \E w \in Workers : HoldsBusy(w) /\ work[w].lease = l
    /\ \A v, w \in Workers :
          HoldsBusy(v) /\ HoldsBusy(w) /\ work[v].lease = work[w].lease => v = w

\* The table and its rows agree: the lease table holds a row for exactly
\* the leases in memory, saying what memory says, so a backend restart at
\* any moment loads the state the running backend had, and an operation
\* that outlives its lease's release never writes the row back.
RowsAgree == rows = inStore /\ \A l \in rows : row[l] = lease[l]

\* The sweep's in-flight set covers every such id: it is marked, or a lease
\* in the store names it, or the operation's lease is released (a grant's
\* late endCreatingSandbox can end the mark of an operation that already
\* works on the lease it committed).  And no mark outlives its operation,
\* which would shield a stray sandbox from the sweep for good.
InFlightExact ==
    /\ \A w \in Workers : Holds(w) =>
          \/ work[w].id \in creating
          \/ Owners(work[w].id) # {}
          \/ work[w].lease \in released
    /\ \A s \in creating : \E w \in Workers :
          work[w].id = s /\ (Holds(w) \/ work[w].pc = "endCreate")

\* A sandbox has one owner: two leases never name the same sandbox, no
\* lease names a pooled one, no two operations hold one, and an operation
\* that holds a lease's sandbox works for that lease.
SoleOwner ==
    /\ \A k, l \in inStore : lease[k].sandbox = lease[l].sandbox => k = l
    /\ \A l \in inStore : lease[l].sandbox \notin pool
    /\ \A v, w \in Workers : Holds(v) /\ Holds(w) /\ work[v].id = work[w].id => v = w
    /\ \A w \in Workers, l \in inStore :
          Holds(w) /\ lease[l].sandbox = work[w].id => work[w].lease = l
    /\ \A w \in Workers : Holds(w) => work[w].id \notin pool

\* The sweep's promise: at the moment it deletes a sandbox, no operation
\* of an unreleased lease holds it, the pool does not stock it, and no
\* lease owns it except one already lost.
SweepSpares ==
    sweep.pc = "kill" =>
        /\ \A w \in Workers :
              Holds(w) /\ work[w].id = sweep.id => work[w].lease \in released
        /\ sweep.id \notin pool
        /\ \A l \in Owners(sweep.id) : lease[l].state = "lost"

\* A goroutine other than a create that has or will start a sandbox it
\* must put away: a checkpoint's resume, a release before its delete, a
\* loss before its stop.
InHand(s) ==
    \/ \E w \in Workers : Holds(w) /\ work[w].id = s
    \/ \E w \in Workers : /\ work[w].pc \in {"ckptRecord", "relDelete", "stopLost"}
                          /\ lease[work[w].lease].sandbox = s

\* Without delete failures and backend restarts nothing leaks: a running
\* sandbox is stocked, in an operation's hands, or the sandbox of a live
\* or busy lease that is not released.
NoStray ==
    \A s \in present_ids :
        \/ s \in pool
        \/ InHand(s)
        \/ \E l \in Owners(s) : l \notin released /\ (live(l) \/ l \in busy)

\* A suspended lease holds no hugepages: once its operation is over, no
\* guest runs under its sandbox id.
SuspendedHoldsNoVM ==
    \A l \in inStore \ (released \cup busy) :
        lease[l].state = "suspended" => vm[lease[l].sandbox] = NoVM

\* A lost lease means a stopped guest: once the operation that lost it is
\* over, its sandbox is gone or its id is remembered for the sweep.  A
\* backend that died in between has caught up when it serves again.  (Where
\* the periodic sweep runs it may forget the id and find the guest again on
\* its own: StraysSwept.)
LostStopped ==
    startup = "no" =>
        \A l \in inStore \ busy :
            lease[l].state = "lost" =>
                vm[lease[l].sandbox] = NoVM \/ lease[l].sandbox \in orphans

\* The generation counts the breaks in the guest's memory: while it stays
\* the same, the guest the holder talks to is never behind what the holder
\* has already seen of it.
Continuity ==
    \A l \in inStore \ (released \cup busy) :
        live(l) /\ vm[lease[l].sandbox] \in Moments => vm[lease[l].sandbox] = reached[l]

-----------------------------------------------------------------------------
(* Action properties. *)

\* A lost lease never comes back: its only way on is its release.
LostStaysLost ==
    [][\A l \in inStore : lease[l].state = "lost" /\ l \in inStore'
                             => lease'[l].state = "lost"]_vars

\* The reconcile never rolls a healthy lease back or loses it: a lease it
\* picks has no running guest, or has a recovery of that sandbox pending.
NoHealthyRollback ==
    [][\A l \in Leases :
          work[Reconciler].pc = "next" /\ work'[Reconciler].pc = "recover"
             /\ work'[Reconciler].lease = l
          => vm[lease[l].sandbox] \notin Moments \/ RecoveryPending(l)]_vars

-----------------------------------------------------------------------------
(* Liveness.  Every goroutine that has begun gets on, the reconcile and    *)
(* sweep tickers keep firing, and a list or a delete that the sweep        *)
(* attempts again and again succeeds at last.  Nothing obliges a request,  *)
(* a guest or a fault to happen.                                           *)

KillSucceeds(s) == SweepKill /\ sweep.id = s /\ vm'[s] = NoVM
ListSucceeds == SweepList /\ sweep'.pc = "flight"

Fairness ==
    /\ \A w \in Workers : WF_vars(WorkStep(w))
    /\ WF_vars(Reconcile)
    /\ WF_vars(Sweep)
    /\ SF_vars(ListSucceeds)
    /\ \A s \in Sandboxes : SF_vars(KillSucceeds(s))

FairSpec == Spec /\ Fairness

\* Every operation ends and gives the lease's busy flag back.
BusyEnds == \A l \in Leases : l \in busy ~> l \notin busy

\* A live lease whose guest is gone.
Crashed(l) == l \in inStore \ released /\ live(l) /\ vm[lease[l].sandbox] = NoVM

\* Once no request works on it any more, a live lease whose guest is gone
\* is recovered or given up within the retry budget: a failing recovery
\* neither hangs the lease nor makes the reconcile skip it for ever.
CrashResolved ==
    \A l \in Leases :
        <>[](\A w \in Handlers : work[w].lease # l) => (Crashed(l) ~> ~Crashed(l))

\* A running sandbox that nobody claims, or only a lost lease.
Abandoned(s) ==
    /\ vm[s] # NoVM
    /\ s \notin pool
    /\ \A w \in Workers : ~(Holds(w) /\ work[w].id = s)
    /\ \A l \in Owners(s) : lease[l].state = "lost"

\* Every abandoned sandbox is deleted in the end, whichever delete failed
\* and whoever forgot it, a backend restart included.
StraysSwept == \A s \in Sandboxes : Abandoned(s) ~> ~Abandoned(s)

=============================================================================
