------------------------ MODULE LeaseLifecycleProofs ------------------------
(***************************************************************************)
(* Proofs about LeaseLifecycle for every value of its constants: the type  *)
(* invariant, the ownership of the busy flag and the agreement of the      *)
(* lease table with its rows.  None of the three is inductive alone.  IInv *)
(* adds what a goroutine at a given step carries (WorkInv), that leases in *)
(* the table name sandboxes (StoreNamed), that the sweep names the sandbox *)
(* it deletes (SweepNamed) and that the reconcile's targets are in the     *)
(* table or released (TargetsKnown).                                       *)
(***************************************************************************)
EXTENDS LeaseLifecycle, TLAPS

\* What a goroutine's step says about the operation it runs and about the
\* lease, the sandbox id and the build it carries.
WorkOK(w) ==
    /\ work[w].pc \in BusySteps \cup {"found"} => work[w].op \in BusyOps
    /\ work[w].pc \in CreateSteps => work[w].op \in BusyOps \cup {"grant", "fill"}
    /\ work[w].pc \in {"pop", "validate"} => work[w].op = "grant"
    /\ work[w].pc \in {"relDelete", "relDrop"} =>
          work[w].op = "release" /\ work[w].lease \in released
    /\ work[w].op \in BusyOps \cup {"grant", "release"} => work[w].lease \in Leases
    /\ work[w].op \in BusyOps \cup {"release"} => lease[work[w].lease].sandbox \in Sandboxes
    /\ work[w].op \in BusyOps => work[w].lease \in inStore \cup released
    /\ Holds(w) \/ work[w].pc = "endCreate" => work[w].id \in Sandboxes
    /\ Holds(w) \/ work[w].pc \in {"endCreate", "pop"} => work[w].build \in Moments

WorkInv == \A w \in Workers : WorkOK(w)

\* A lease in the table names a sandbox.
StoreNamed == \A l \in inStore : lease[l].sandbox \in Sandboxes

\* The sandbox the sweep is judging is known.
SweepNamed == sweep.pc \in {"claims", "kill"} => sweep.id \in Sandboxes

\* A lease the reconcile still has to recover has not vanished unreleased.
TargetsKnown == targets \subseteq inStore \cup released

\* The inductive invariant.
IInv ==
    /\ TypeOK /\ WorkInv /\ StoreNamed /\ SweepNamed /\ TargetsKnown
    /\ BusyExclusive /\ RowsAgree

\* What may be under a sandbox id.
VMs == Moments \cup {NoVM, Half}

\* The builds and moments the operations start from are builds and states of
\* a sandbox.
LEMMA NumberType ==
    /\ ImageBuild \in Builds /\ NoBuild \in Builds /\ ImageBuild \in Moments
    /\ NoVM \in VMs /\ Half \in VMs /\ Moments \subseteq VMs /\ Moments \subseteq Builds
    /\ Builds \subseteq VMs
BY BoundAssumption DEF ImageBuild, Builds, NoBuild, NoVM, VMs, Moments

\* A guest below the bound has a next moment.
LEMMA NextMoment == ASSUME NEW m \in 0..(MaxMoment - 1) PROVE m + 1 \in Moments
BY BoundAssumption DEF Moments

\* An idle goroutine, a lease not yet granted and an empty retry budget have
\* their types.
LEMMA RecordType ==
    /\ IdleWork \in WorkRecord /\ NewLease \in LeaseRecord
    /\ NoBudget \in BudgetRecord
BY BoundAssumption, NumberType DEF IdleWork, WorkRecord, Steps, OpNames, NewLease,
   LeaseRecord, LeaseStates, NoBudget, BudgetRecord

\* Moving an operation to its next step keeps the goroutines typed.
LEMMA GotoType ==
    ASSUME TypeOK, NEW w \in Workers, NEW step \in Steps, Goto(w, step)
    PROVE  work' \in [Workers -> WorkRecord]
BY DEF TypeOK, Goto, WorkRecord

\* So does returning from an operation, by way of endBusy or not.
LEMMA LeaveType ==
    ASSUME TypeOK, NEW w \in Workers, Leave(w)
    PROVE  work' \in [Workers -> WorkRecord]
BY RecordType DEF TypeOK, Leave, WorkRecord, Steps, BusySteps

\* So does a handler taking up an operation.
LEMMA StartType ==
    ASSUME TypeOK, NEW w \in Workers, NEW op \in OpNames, NEW l \in Leases \cup {NoLease},
           NEW step \in Steps, NEW build \in Builds, Start(w, op, l, step, build)
    PROVE  work' \in [Workers -> WorkRecord]
BY DEF TypeOK, Start, WorkRecord

\* saveLeaseLocked keeps the lease table and its rows typed, whether or not
\* it refuses a released lease.
LEMMA SaveType ==
    ASSUME TypeOK, NEW l \in Leases, NEW r \in LeaseRecord, Save(l, r)
    PROVE  /\ lease' \in [Leases -> LeaseRecord]
           /\ rows' \in SUBSET Leases /\ row' \in [Leases -> LeaseRecord]
BY DEF TypeOK, Save, rowVars

\* sub.Delete, and remembering the id when it fails, keep their types.
LEMMA DeleteType ==
    ASSUME TypeOK, NEW s, NEW keep \in SUBSET Sandboxes, Delete(s, keep)
    PROVE  vm' \in [Sandboxes -> VMs] /\ orphans' \in SUBSET Sandboxes
BY NumberType DEF TypeOK, Delete, VMs

\* A sandbox booting under an id keeps the node and the sweep typed.
LEMMA BootType ==
    ASSUME TypeOK, NEW s \in Sandboxes, NEW m \in VMs, Boot(s, m)
    PROVE  vm' \in [Sandboxes -> VMs] /\ seen' \in SUBSET Sandboxes /\ sweep' \in SweepRecord
BY DEF TypeOK, Boot, VMs, SweepRecord

\* clearRecoveryRetries keeps the budgets typed.
LEMMA ClearType ==
    ASSUME TypeOK, NEW l \in Leases, ClearRetries(l)
    PROVE  tries' \in [Leases -> BudgetRecord]
BY RecordType DEF TypeOK, ClearRetries

\* Putting a fresh sandbox away (the released check, a failed probe) keeps
\* every variable it writes typed.
LEMMA StopFreshType ==
    ASSUME IInv, NEW w \in Workers, NEW keep \in SUBSET Sandboxes, StopFresh(w, keep)
    PROVE  /\ vm' \in [Sandboxes -> VMs] /\ orphans' \in SUBSET Sandboxes
           /\ creating' \in SUBSET Sandboxes /\ tries' \in [Leases -> BudgetRecord]
           /\ work' \in [Workers -> WorkRecord]
<1>   tries' \in [Leases -> BudgetRecord]
  BY ClearType DEF IInv, TypeOK, WorkInv, WorkOK, BusyOps, StopFresh
<1>2. QED BY DeleteType, LeaveType DEF IInv, TypeOK, StopFresh, endCreatingSandbox

\* What an operation commits is a lease record.
LEMMA CommittedType ==
    ASSUME TypeOK, NEW w \in Workers, work[w].lease \in Leases, work[w].id \in Sandboxes
    PROVE  Committed(w) \in LeaseRecord
<1>   lease[work[w].lease] \in LeaseRecord BY DEF TypeOK
<1>2. NoBuild \in Builds BY NumberType
<1>   lease[work[w].lease].generation + 1 \in Nat BY DEF LeaseRecord
<1> DEFINE op == work[w].op
<1>3. CASE op \in {"resume", "use", "restart", "takeBack"}
  BY <1>3 DEF Committed, LeaseRecord, LeaseStates
<1>4. CASE op = "recover"
  BY ZenonT(60), <1>4 DEF Committed, LeaseRecord, LeaseStates
<1>5. CASE op = "fresh"
  BY ZenonT(60), <1>5 DEF Committed, LeaseRecord, LeaseStates
<1>6. CASE op \in {"cold", "restore"}
  BY ZenonT(60), <1>2, <1>6 DEF Committed, LeaseRecord, LeaseStates
<1>7. CASE op \notin {"resume", "use", "restart", "takeBack", "recover", "fresh", "cold",
                      "restore"}
  BY ZenonT(60), <1>2, <1>7 DEF Committed, LeaseRecord, LeaseStates, NewLease
<1> QED BY <1>3, <1>4, <1>5, <1>6, <1>7

\* Every step of a running operation keeps the types; for the retry budget
\* this is that a budget noteRetryFailure or noteRetryWait keeps is unspent.
LEMMA TypeWork == ASSUME IInv, NEW w \in Workers, WorkStep(w) PROVE TypeOK'
<1> USE NumberType, RecordType
    DEF IInv, TypeOK, VMs, memVars, rowVars, sweepVars, recVars, bootVars
<1> DEFINE l == work[w].lease
<1>0. /\ work[w] \in WorkRecord
      /\ \A step \in BusySteps \cup CreateSteps \cup {"pop", "validate", "relDrop"} : step \in Steps
  BY DEF Steps
<1>1. CASE Begin(w)
  BY <1>0, <1>1, GotoType DEF Begin, WorkInv, WorkOK, FirstStep, BusySteps, CreateSteps
<1>2. CASE EndBusy(w)
  BY <1>2 DEF EndBusy, IdleWork, WorkRecord, Steps
<1>3. CASE Pause(w)
  <2> USE <1>3
  <2>   work' \in [Workers -> WorkRecord]
    <3>1. CASE Leave(w)
      BY <3>1, LeaveType
    <3>2. ASSUME NEW m \in Moments,
                 work' = [work EXCEPT ![w] = [@ EXCEPT !.pc = "paused", !.build = m]]
          PROVE  work' \in [Workers -> WorkRecord]
      BY ZenonT(60), <1>0, <3>2 DEF WorkRecord, BusySteps
    <3> QED BY <3>1, <3>2, ZenonT(60) DEF Pause
  <2>   vm' \in [Sandboxes -> VMs]
    BY DEF Pause
  <2> QED BY DEF Pause
<1>4. CASE Paused(w)
  <2> USE <1>4
  <2>   l \in Leases /\ [lease[l] EXCEPT !.state = "suspended", !.resumeBuild = work[w].build]
                           \in LeaseRecord
    BY ZenonT(60)
    DEF Paused, WorkInv, WorkOK, BusySteps, LeaseRecord, LeaseStates, WorkRecord
  <2> QED BY <1>0, LeaveType, SaveType, GotoType DEF Paused, BusySteps, CreateSteps
<1>5. CASE Admit(w)
  <2> USE <1>5
  <2>1. SourceBuild(w) \in Builds
    BY ZenonT(60)
    DEF Admit, SourceBuild, WorkInv, WorkOK, CreateSteps, BusyOps, LeaseRecord,
       WorkRecord
  <2>2. CASE CreateFailed(w) /\ UNCHANGED <<creating, used>>
    BY ZenonT(60), <1>0, <2>2, LeaveType, GotoType DEF Admit, CreateFailed, BusySteps
  <2>3. ASSUME NEW s \in Sandboxes, creating' = creating \cup {s}, used' = used \cup {s},
               work' = [work EXCEPT ![w] = [@ EXCEPT !.pc = "create", !.id = s, !.build = SourceBuild(w)]]
        PROVE TypeOK'
    BY ZenonT(60), <1>0, <2>1, <2>3 DEF Admit, WorkRecord, CreateSteps
  <2> QED
    BY ZenonT(60), <2>2, <2>3 DEF Admit, ResumesInPlace, WorkInv, WorkOK, BusyOps
<1>6. CASE Create(w)
  <2> USE <1>6
  <2>   work[w].id \in Sandboxes /\ work[w].build \in VMs
    BY ZenonT(60) DEF Create, WorkInv, WorkOK, Holds
  <2>   work' \in [Workers -> WorkRecord]
    BY <1>0, GotoType, LeaveType, ZenonT(60) DEF Create, CreateFailed, CreateSteps, BusySteps
  <2>   vm' \in [Sandboxes -> VMs] /\ seen' \in SUBSET Sandboxes /\ sweep' \in SweepRecord
    BY BootType DEF Create
  <2> QED BY DEF Create, endCreatingSandbox
<1>7. CASE Check(w)
  <2> USE <1>7
  <2>1. CASE StopFresh(w, {work[w].id})
    <3>   {work[w].id} \in SUBSET Sandboxes
      BY DEF Check, WorkInv, WorkOK, Holds
    <3> QED BY <2>1, StopFreshType DEF Check
  <2>2. CASE work' \in [Workers -> WorkRecord] /\ UNCHANGED <<vm, orphans, creating, tries>>
    BY <2>2 DEF Check
  <2> QED BY <1>0, <2>1, <2>2, GotoType DEF Check, CreateSteps
<1>8. CASE Probe(w)
  <2> USE <1>8
  <2>1. CASE StopFresh(w, {})
    BY <2>1, StopFreshType DEF Probe
  <2>2. CASE work' \in [Workers -> WorkRecord] /\ UNCHANGED <<vm, orphans, creating, tries>>
    BY <2>2 DEF Probe
  <2> QED BY <1>0, <2>1, <2>2, GotoType DEF Probe, CreateSteps
<1>9. CASE DropOld(w)
  <2> USE <1>9
  <2>1. CASE StopFresh(w, {})
    BY <2>1, StopFreshType DEF DropOld
  <2>2. CASE Delete(lease[l].sandbox, {}) /\ Goto(w, "commit") /\ UNCHANGED <<creating, tries>>
    <3> USE <2>2
    <3>   work' \in [Workers -> WorkRecord]
      BY <1>0, GotoType DEF CreateSteps
    <3>   vm' \in [Sandboxes -> VMs] /\ orphans' \in SUBSET Sandboxes
      BY DeleteType
    <3> QED BY DEF DropOld
  <2> QED BY <2>1, <2>2 DEF DropOld
<1>10. CASE DropFirst(w)
  <2> USE <1>10
  <2>   work' \in [Workers -> WorkRecord]
    BY <1>0, LeaveType, GotoType DEF DropFirst, CreateSteps
  <2>   vm' \in [Sandboxes -> VMs] /\ orphans' \in SUBSET Sandboxes
    BY DeleteType DEF DropFirst
  <2> QED BY DEF DropFirst
<1>11. CASE Commit(w)
  <2> USE <1>11
  <2>   work[w].id \in Sandboxes /\ work[w].build \in Moments
    BY ZenonT(60) DEF Commit, WorkInv, WorkOK, Holds
  <2>2. work[w].op # "fill" => l \in Leases
    BY DEF Commit, WorkInv, WorkOK, CreateSteps
  <2>3. work[w].op # "fill" => Committed(w) \in LeaseRecord
    BY <2>2, CommittedType, ZenonT(60)
  <2>4. CASE StopFresh(w, {work[w].id}) /\ UNCHANGED <<inStore, lease, rowVars, pool, reached>>
    BY <2>4, StopFreshType, ZenonT(60) DEF Commit
  <2>5. Goto(w, "endCreate") => work' \in [Workers -> WorkRecord]
    BY <1>0, GotoType, ZenonT(60) DEF CreateSteps
  <2>6. CASE work[w].op = "fill"
    BY <2>5, <2>6, ZenonT(60) DEF Commit
  <2>7. CASE /\ work[w].op # "fill" /\ Save(l, Committed(w)) /\ Goto(w, "endCreate")
             /\ inStore' = inStore \cup (IF work[w].op = "grant" THEN {l} ELSE {})
             /\ UNCHANGED <<vm, orphans, creating, tries, pool>>
    <3> USE <2>7
    <3>1. /\ lease' \in [Leases -> LeaseRecord]
          /\ rows' \in SUBSET Leases /\ row' \in [Leases -> LeaseRecord]
      BY <2>2, <2>3, SaveType, ZenonT(60)
    <3>   inStore' \in SUBSET Leases
      BY <2>2, ZenonT(60)
    <3>   reached' \in [Leases -> Moments]
      BY ZenonT(60) DEF Commit
    <3> QED BY <2>5, <3>1, ZenonT(60) DEF Commit
  <2> QED BY ZenonT(60), <2>4, <2>6, <2>7 DEF Commit
<1>12. CASE EndCreate(w)
  BY <1>12, LeaveType, ClearType, ZenonT(60) DEF EndCreate, endCreatingSandbox, WorkInv, WorkOK
<1>13. CASE Pop(w)
  <2> USE <1>13
  <2>1. CASE Goto(w, "admit") /\ UNCHANGED <<pool, creating>>
    BY <1>0, <2>1, GotoType, ZenonT(60) DEF Pop, CreateSteps
  <2>2. ASSUME NEW s \in pool, pool' = pool \ {s}, creating' = creating \cup {s},
               work' = [work EXCEPT ![w] = [@ EXCEPT !.pc = "validate", !.id = s]]
        PROVE  TypeOK'
    <3> USE <2>2
    <3>   s \in Sandboxes
      OBVIOUS
    <3>   work' \in [Workers -> WorkRecord]
      BY ZenonT(60), <1>0 DEF WorkRecord
    <3> QED BY ZenonT(60) DEF Pop
  <2> QED BY ZenonT(60), <2>1, <2>2 DEF Pop
<1>14. CASE Validate(w)
  <2> USE <1>14
  <2>   work' \in [Workers -> WorkRecord]
    BY <1>0, LeaveType, GotoType DEF Validate, CreateSteps
  <2>   vm' \in [Sandboxes -> VMs] /\ orphans' \in SUBSET Sandboxes
    BY DeleteType DEF Validate
  <2> QED BY ZenonT(60) DEF Validate, endCreatingSandbox
<1>15. CASE Checkpoint(w)
  <2> USE <1>15
  <2>   work' \in [Workers -> WorkRecord]
    <3>1. CASE Leave(w)
      BY <3>1, LeaveType
    <3>2. ASSUME NEW m \in Moments,
                 work' = [work EXCEPT ![w] = [@ EXCEPT !.pc = "ckptResume", !.build = m]]
          PROVE  work' \in [Workers -> WorkRecord]
      BY ZenonT(60), <1>0, <3>2 DEF WorkRecord, BusySteps
    <3> QED BY <3>1, <3>2, ZenonT(60) DEF Checkpoint
  <2>   vm' \in [Sandboxes -> VMs]
    BY ZenonT(60) DEF Checkpoint
  <2> QED BY DEF Checkpoint
<1>16. CASE CheckpointResume(w)
  BY <1>0, <1>16, LeaveType, GotoType, BootType, ZenonT(60)
  DEF CheckpointResume, WorkInv, WorkOK, WorkRecord, BusySteps
<1>17. CASE CheckpointRecord(w)
  <2> USE <1>17
  <2>   /\ l \in Leases /\ lease[l].sandbox \in Sandboxes
        /\ [lease[l] EXCEPT !.checkpoint = work[w].build] \in LeaseRecord
    BY ZenonT(60)
    DEF CheckpointRecord, WorkInv, WorkOK, BusySteps, LeaseRecord, WorkRecord
  <2> QED BY LeaveType, SaveType, DeleteType DEF CheckpointRecord
<1>18. CASE Mark(w)
  BY ZenonT(60), <1>0, <1>18, SaveType, GotoType DEF Mark, WorkInv, WorkOK, BusySteps
<1>19. CASE Crash(w)
  <2> USE <1>19
  <2>   "recover" \in OpNames /\ "recover" \in Steps
    BY DEF OpNames, BusyOps, Steps, BusySteps
  <2>   work' \in [Workers -> WorkRecord]
    BY ZenonT(60), <1>0 DEF Crash, WorkRecord
  <2> QED BY DeleteType DEF Crash
<1>20. CASE Recover(w)
  BY <1>0, <1>20, GotoType, ZenonT(60) DEF Recover, BusySteps, CreateSteps
<1>21. CASE RetryFailed(w)
  <2> USE <1>21
  <2>   l \in Leases /\ Budget(l) \in BudgetRecord
    BY ZenonT(60) DEF RetryFailed, WorkInv, WorkOK, BusySteps, Budget
  <2>   tries' \in [Leases -> BudgetRecord]
    <3>1. CASE ClearRetries(l)
      BY <3>1, ClearType
    <3>2. ASSUME NEW counted \in {0, 1}, ~BudgetSpent(Budget(l).failed + counted),
                 Budget(l).passes + 1 < RetryPasses
          PROVE  [sandbox |-> lease[l].sandbox, failed |-> Budget(l).failed + counted,
                  passes |-> Budget(l).passes + 1] \in BudgetRecord
      BY <3>2, BoundAssumption DEF BudgetSpent, BudgetRecord, LeaseRecord
    <3> QED BY <3>1, <3>2 DEF RetryFailed
  <2> QED BY SMTT(30), <1>0, LeaveType, GotoType DEF RetryFailed, BusySteps
<1>22. CASE Lose(w)
  <2> USE <1>22
  <2>   l \in Leases /\ [lease[l] EXCEPT !.state = "lost"] \in LeaseRecord
    BY ZenonT(60) DEF Lose, WorkInv, WorkOK, BusySteps, LeaseRecord, LeaseStates
  <2> QED BY <1>0, LeaveType, ClearType, SaveType, GotoType DEF Lose, BusySteps
<1>23. CASE StopLost(w)
  <2> USE <1>23
  <2>   work' \in [Workers -> WorkRecord]
    BY LeaveType, ZenonT(60) DEF StopLost
  <2>   lease[l].sandbox \in Sandboxes
    BY ZenonT(60) DEF StopLost, WorkInv, WorkOK, BusySteps
  <2> QED BY DeleteType DEF StopLost
<1>24. CASE ReleaseDelete(w)
  <2> USE <1>24
  <2>   work' \in [Workers -> WorkRecord]
    BY <1>0, GotoType DEF ReleaseDelete
  <2>   lease[l].sandbox \in Sandboxes
    BY ZenonT(60) DEF ReleaseDelete, WorkInv, WorkOK
  <2> QED BY DeleteType DEF ReleaseDelete
<1>25. CASE ReleaseDrop(w)
  BY ZenonT(60), <1>25, ClearType DEF ReleaseDrop, WorkInv, WorkOK, deleteLeaseLocked
<1> QED
  BY ZenonT(60), <1>1, <1>2, <1>3, <1>4, <1>5, <1>6, <1>7, <1>8, <1>9, <1>10, <1>11, <1>12, <1>13,
     <1>14, <1>15, <1>16, <1>17, <1>18, <1>19, <1>20, <1>21, <1>22, <1>23, <1>24, <1>25 DEF
     WorkStep

\* A handler taking up a request keeps the types.
LEMMA TypeRequest == ASSUME IInv, NEW w \in Handlers, Request(w) PROVE TypeOK'
<1> USE NumberType DEF IInv, TypeOK, VMs, memVars, rowVars, sweepVars, recVars, bootVars
<1>   /\ w \in Workers
      /\ {"admit", "pop", "found", "pause", "dropFirst", "mark", "relDelete"} \subseteq Steps
  BY DEF Workers, Steps, CreateSteps, BusySteps
<1>1. CASE Fill(w)
  BY ZenonT(60), <1>1, StartType DEF Fill, OpNames
<1>2. ASSUME NEW l \in Leases, Grant(w, l) PROVE TypeOK'
  BY ZenonT(60), <1>2, StartType DEF Grant, OpNames
<1>3. ASSUME NEW l \in Leases, Restart(w, l) PROVE TypeOK'
  <2>   {"cold", "fresh", "restart"} \subseteq OpNames BY DEF OpNames, BusyOps
  <2> QED BY <1>3, StartType DEF Restart
<1>4. ASSUME NEW l \in Leases, Release(w, l) PROVE TypeOK'
  BY ZenonT(60), <1>4, StartType DEF Release, OpNames
<1>5. ASSUME NEW l \in Leases, NEW op \in Ops, Lookup(w, l, op) PROVE TypeOK'
  <2> USE <1>5
  <2>   op \in OpNames BY ZenonT(60) DEF Lookup, OpNames, BusyOps
  <2> QED BY StartType DEF Lookup, LeaseRecord
<1>6. ASSUME NEW l \in Leases, NEW op \in Ops, Seize(w, l, op) PROVE TypeOK'
  <2> USE <1>6
  <2>   op \in OpNames BY ZenonT(60) DEF Seize, OpNames, BusyOps
  <2> QED BY StartType DEF Seize
<1> QED BY <1>1, <1>2, <1>3, <1>4, <1>5, <1>6, ZenonT(60) DEF Request

\* Every step of reconcileCrash keeps the types.
LEMMA TypeReconcile == ASSUME IInv, Reconcile PROVE TypeOK'
<1> USE DEF IInv, TypeOK, VMs, memVars, rowVars, sweepVars, recVars, bootVars
<1>   /\ Reconciler \in Workers
      /\ {"listed", "next", "recover"} \subseteq Steps /\ "recover" \in OpNames
  BY ZenonT(60) DEF Workers, Steps, BusySteps, OpNames, BusyOps
<1>1. CASE ReconcileList
  BY <1>1, GotoType, ZenonT(60) DEF ReconcileList, present_ids
<1>2. CASE ReconcileTargets
  BY <1>2, GotoType, RecordType DEF ReconcileTargets
<1>3. CASE ReconcileEnd
  BY <1>3, RecordType, ZenonT(60) DEF ReconcileEnd
<1>4. ASSUME NEW l \in Leases, ReconcileNext(l) PROVE TypeOK'
  BY <1>4, StartType, NumberType DEF ReconcileNext
<1> QED BY <1>1, <1>2, <1>3, <1>4 DEF Reconcile

\* Every step of the orphan sweep keeps the types.
LEMMA TypeSweep == ASSUME IInv, Sweep PROVE TypeOK'
<1>   /\ sweep \in SweepRecord /\ orphans \in SUBSET Sandboxes /\ vm \in [Sandboxes -> VMs]
      /\ IdleSweep \in SweepRecord
  BY DEF IInv, TypeOK, VMs, IdleSweep, SweepRecord, SweepPcs
<1>1. ASSUME SweepUnchanged, sweep' \in SweepRecord, orphans' \in SUBSET Sandboxes,
             seen' \in SUBSET Sandboxes, vm' \in [Sandboxes -> VMs], startup' \in {startup, "no"}
      PROVE  TypeOK'
  BY <1>1 DEF IInv, TypeOK, SweepUnchanged, VMs, memVars, rowVars, recVars
<1>   seen \in SUBSET Sandboxes /\ present_ids \in SUBSET Sandboxes /\ creating \in SUBSET Sandboxes
  BY DEF IInv, TypeOK, present_ids
<1> USE DEF SweepRecord, SweepPcs
<1>3. CASE SweepStart
  BY ZenonT(60), <1>1, <1>3 DEF SweepStart, IdleSweep
<1>4. ASSUME NEW s \in Sandboxes, SweepSkip(s)
      PROVE  sweep' \in SweepRecord /\ orphans' \in SUBSET Sandboxes
  BY ZenonT(60), <1>4 DEF SweepSkip
<1>5. CASE SweepClaims
  <2> USE <1>5
  <2>   sweep' \in SweepRecord /\ orphans' \in SUBSET Sandboxes
    <3>1. CASE SweepSkip(sweep.id)
      BY <1>4, <3>1 DEF SweepClaims, IInv, SweepNamed
    <3>2. CASE sweep' = [sweep EXCEPT !.pc = "kill"] /\ UNCHANGED orphans
      BY <3>2
    <3> QED BY <3>1, <3>2 DEF SweepClaims
  <2> QED BY <1>1 DEF SweepClaims
<1>6. CASE SweepKill
  <2> USE <1>6
  <2>1. sweep' \in SweepRecord BY ZenonT(60) DEF SweepKill
  <2>2. vm' \in [Sandboxes -> VMs] BY NumberType DEF SweepKill
  <2>   sweep.id \in Sandboxes => orphans' \in SUBSET Sandboxes
    BY DEF SweepKill
  <2>   sweep.id \in Sandboxes
    BY DEF SweepKill, IInv, SweepNamed
  <2> QED BY <1>1, <2>1, <2>2 DEF SweepKill
<1>7. CASE SweepList
  <2>   [sweep EXCEPT !.pc = "flight", !.phase = "sweep", !.listed = present_ids,
                      !.again = present_ids \cap seen] \in SweepRecord
    BY ZenonT(60)
  <2> QED BY ZenonT(60), <1>1, <1>7 DEF SweepList
<1>8. CASE SweepFlight
  BY ZenonT(60), <1>1, <1>8 DEF SweepFlight
<1>9. CASE SweepClassify
  <2> USE <1>9
  <2>   sweep' \in SweepRecord /\ seen' \in SUBSET Sandboxes
    BY ZenonT(60) DEF SweepClassify, IdleSweep
  <2> QED BY ZenonT(60), <1>1 DEF SweepClassify
<1>10. CASE SweepEnd
  BY <1>1, <1>10 DEF SweepEnd
<1>11. ASSUME NEW s \in Sandboxes, SweepPick(s) PROVE TypeOK'
  <2> USE <1>11
  <2>   sweep' \in SweepRecord /\ orphans' \in SUBSET Sandboxes
    BY ZenonT(60), <1>4 DEF SweepPick
  <2> QED BY <1>1 DEF SweepPick
<1> QED BY ZenonT(60), <1>3, <1>5, <1>6, <1>7, <1>8, <1>9, <1>10, <1>11 DEF Sweep

\* LoadState and sweepForeignSandboxes keep the types.
LEMMA TypeRestart == ASSUME TypeOK, BackendRestart PROVE TypeOK'
<1>1. /\ inStore' \in SUBSET Leases /\ released' \in SUBSET Leases
      /\ UNCHANGED <<rowVars, pool, used, reached>>
  BY ZenonT(60) DEF BackendRestart, TypeOK
<1>2. lease' \in [Leases -> LeaseRecord]
  BY DEF BackendRestart, TypeOK
<1>3. /\ busy' = {} /\ creating' = {} /\ seen' = {} /\ present' = {} /\ targets' = {}
      /\ startup' = "reconcile"
  BY ZenonT(60) DEF BackendRestart
<1>4. tries' \in [Leases -> BudgetRecord] /\ work' \in [Workers -> WorkRecord]
  BY RecordType DEF BackendRestart, TypeOK
<1>5. sweep' \in SweepRecord
  BY ZenonT(60) DEF BackendRestart, IdleSweep, SweepRecord, SweepPcs
<1>6. restarts' \in 0..MaxRestarts
  BY BoundAssumption DEF BackendRestart, TypeOK
<1>7. vm' \in [Sandboxes -> VMs] /\ orphans' \in SUBSET Sandboxes
  <2> DEFINE foreign == present_ids \ (pool \cup {row[l].sandbox : l \in rows})
  <2>1. \/ \E left \in SUBSET foreign :
              /\ vm' = [s \in Sandboxes |-> IF s \in foreign \ left THEN NoVM ELSE vm[s]]
              /\ orphans' = left
        \/ orphans' = {} /\ vm' = vm
    BY DEF BackendRestart
  <2>2. foreign \subseteq Sandboxes
    BY DEF present_ids
  <2>3. vm \in [Sandboxes -> VMs]
    BY DEF TypeOK, VMs
  <2>4. CASE orphans' = {} /\ vm' = vm
    BY <2>3, <2>4
  <2>5. CASE \E left \in SUBSET foreign :
                /\ vm' = [s \in Sandboxes |-> IF s \in foreign \ left THEN NoVM ELSE vm[s]]
                /\ orphans' = left
    <3>1. PICK left \in SUBSET foreign :
             /\ vm' = [s \in Sandboxes |-> IF s \in foreign \ left THEN NoVM ELSE vm[s]]
             /\ orphans' = left
      BY <2>5, ZenonT(60)
    <3> QED BY <3>1, <2>2, <2>3, NumberType
  <2> QED BY <2>1, <2>4, <2>5
<1> QED BY <1>1, <1>2, <1>3, <1>4, <1>5, <1>6, <1>7 DEF TypeOK, VMs, rowVars

\* The guests, the node and a backend restart keep the types.
LEMMA TypeEnvironment ==
    ASSUME IInv,
           \/ \E l \in Leases : GuestRuns(l)
           \/ \E s \in Sandboxes : VmCrash(s)
           \/ BackendRestart
           \/ UNCHANGED vars
    PROVE  TypeOK'
<1> USE DEF IInv, TypeOK, memVars, rowVars, sweepVars, recVars, bootVars
<1>1. ASSUME NEW l \in Leases, GuestRuns(l) PROVE TypeOK'
  <2> USE <1>1
  <2>   vm[lease[l].sandbox] + 1 \in Moments
    BY ZenonT(60), NextMoment DEF GuestRuns
  <2> QED BY ZenonT(60) DEF GuestRuns
<1>2. ASSUME NEW s \in Sandboxes, VmCrash(s) PROVE TypeOK'
  BY <1>2, ZenonT(60) DEF VmCrash
<1>3. CASE BackendRestart
  BY <1>3, TypeRestart, ZenonT(60)
<1>4. CASE UNCHANGED vars
  BY <1>4 DEF vars
<1> QED BY <1>1, <1>2, <1>3, <1>4

\* Every step keeps the types.
LEMMA TypeStep == ASSUME IInv, [Next]_vars PROVE TypeOK'
BY TypeWork, TypeRequest, TypeReconcile, TypeSweep, TypeEnvironment DEF Next

\* A step of w that touches nobody else's work and keeps its hold on busy.
Moves(w) ==
    /\ \A v \in Workers \ {w} : work'[v] = work[v]
    /\ HoldsBusy(w)' <=> HoldsBusy(w)
    /\ HoldsBusy(w) => work'[w].lease = work[w].lease
    /\ WorkOK(w)'

\* An operation that neither takes nor gives back busy leaves the other
\* goroutines alone, stays on its lease, and goes on owning busy exactly if
\* it did: no error path of an operation leaves it without passing endBusy.
LEMMA WorkMoves ==
    ASSUME IInv, NEW w \in Workers, WorkStep(w), ~Begin(w), ~EndBusy(w)
    PROVE  Moves(w)
<1>0. work \in [Workers -> WorkRecord] /\ lease \in [Leases -> LeaseRecord] /\ WorkOK(w)
  BY DEF IInv, TypeOK, WorkInv
<1> USE NumberType DEF Moves, WorkOK, HoldsBusy, Holds, WorkRecord, IdleWork, BusyOps,
    BusySteps, CreateSteps, memVars
<1>a. ASSUME NEW step \in {"paused", "ckptResume"}, NEW b,
             work' = [work EXCEPT ![w] = [@ EXCEPT !.pc = step, !.build = b]],
             work[w].pc \in {"pause", "ckpt"}, UNCHANGED memVars
      PROVE  Moves(w)
  BY <1>0, <1>a
<1>b. ASSUME Leave(w), work[w].pc \in {"pause", "ckpt"}, UNCHANGED memVars PROVE Moves(w)
  BY <1>0, <1>b DEF Leave
<1>1. CASE Pause(w)
  <2>1. work[w].pc = "pause" /\ UNCHANGED memVars
    BY <1>1, ZenonT(60) DEF Pause
  <2> HIDE DEF Moves, memVars
  <2> QED BY ZenonT(60), <1>1, <1>a, <1>b, <2>1 DEF Pause
<1>2. CASE Paused(w)
  <2>1. /\ work[w].lease \in Leases /\ lease'[work[w].lease].sandbox = lease[work[w].lease].sandbox
        /\ UNCHANGED <<inStore, released, busy>>
    BY ZenonT(60), <1>0, <1>2 DEF Paused, Save, LeaseRecord
  <2> QED BY <1>0, <1>2, <2>1 DEF Paused, Leave, Goto
<1>3. CASE Admit(w)
  <2>0. work[w].pc = "admit" /\ UNCHANGED memVars
    BY ZenonT(60), <1>3 DEF Admit
  <2>1. CASE CreateFailed(w)
    BY <1>0, <2>0, <2>1 DEF CreateFailed, Leave, Goto
  <2>2. SourceBuild(w) # NoBuild => SourceBuild(w) \in Moments
    BY ZenonT(60), <1>0, <1>3 DEF Admit, SourceBuild, LeaseRecord, Builds
  <2>3. ASSUME NEW s \in Sandboxes, SourceBuild(w) # NoBuild,
               work' = [work EXCEPT ![w] = [@ EXCEPT !.pc = "create", !.id = s, !.build = SourceBuild(w)]]
        PROVE  Moves(w)
    BY <1>0, <2>0, <2>2, <2>3
  <2>4. ResumesInPlace(work[w].op) => lease[work[w].lease].sandbox \in Sandboxes
    BY <1>0 DEF ResumesInPlace
  <2> QED BY ZenonT(60), <1>3, <2>1, <2>3, <2>4 DEF Admit
<1>4. CASE Create(w)
  BY <1>0, <1>4 DEF Create, Leave, Goto, CreateFailed
<1>5. CASE Check(w)
  BY <1>0, <1>5 DEF Check, StopFresh, Leave, Goto
<1>6. CASE Probe(w)
  BY <1>0, <1>6 DEF Probe, StopFresh, Leave, Goto
<1>7. CASE DropOld(w)
  BY <1>0, <1>7 DEF DropOld, StopFresh, Leave, Goto
<1>8. CASE DropFirst(w)
  BY <1>0, <1>8 DEF DropFirst, Leave, Goto
<1>9. CASE EndCreate(w)
  BY <1>0, <1>9 DEF EndCreate, Leave
<1>10. CASE Pop(w)
  <2>1. pool \in SUBSET Sandboxes BY ZenonT(60) DEF IInv, TypeOK
  <2>0. work[w].pc = "pop" /\ work[w].op = "grant" /\ UNCHANGED memVars
    BY <1>0, <1>10, ZenonT(60) DEF Pop
  <2>2. CASE Goto(w, "admit")
    BY <1>0, <2>0, <2>2, ZenonT(60) DEF Goto
  <2>3. ASSUME NEW s \in pool, work' = [work EXCEPT ![w] = [@ EXCEPT !.pc = "validate", !.id = s]]
        PROVE  Moves(w)
    <3>1. /\ \A v \in Workers \ {w} : work'[v] = work[v]
          /\ work'[w].pc = "validate" /\ work'[w].id = s /\ work'[w].op = "grant"
          /\ work'[w].lease = work[w].lease /\ work'[w].build = work[w].build
      BY <1>0, <2>0, <2>3
    <3> QED BY <1>0, <2>0, <2>1, <3>1, ZenonT(60)
  <2> QED BY ZenonT(60), <1>10, <2>2, <2>3 DEF Pop
<1>11. CASE Validate(w)
  BY <1>0, <1>11 DEF Validate, Leave, Goto
<1>12. CASE Checkpoint(w)
  <2>1. work[w].pc = "ckpt" /\ UNCHANGED memVars
    BY <1>12 DEF Checkpoint
  <2> HIDE DEF Moves, memVars
  <2> QED BY ZenonT(60), <1>12, <1>a, <1>b, <2>1 DEF Checkpoint
<1>13. CASE CheckpointResume(w)
  BY <1>0, <1>13 DEF CheckpointResume, Leave, Goto
<1>14. CASE CheckpointRecord(w)
  <2>1. /\ work[w].lease \in Leases /\ lease'[work[w].lease].sandbox = lease[work[w].lease].sandbox
        /\ UNCHANGED <<inStore, released, busy>>
    BY <1>0, <1>14 DEF CheckpointRecord, Save, LeaseRecord
  <2> QED BY <1>0, <1>14, <2>1 DEF CheckpointRecord, Leave, Goto
<1>15. CASE Mark(w)
  BY <1>0, <1>15 DEF Mark, Goto, Save
<1>16. CASE Crash(w)
  BY <1>0, <1>16 DEF Crash
<1>17. CASE Recover(w)
  BY <1>0, <1>17 DEF Recover, Goto
<1>18. CASE RetryFailed(w)
  BY <1>0, <1>18 DEF RetryFailed, Leave, Goto
<1>19. CASE Lose(w)
  <2>1. /\ work[w].lease \in Leases /\ lease'[work[w].lease].sandbox = lease[work[w].lease].sandbox
        /\ UNCHANGED <<inStore, released, busy>>
    BY <1>0, <1>19, ZenonT(60) DEF Lose, Save, LeaseRecord
  <2> QED BY <1>0, <1>19, <2>1 DEF Lose, Leave, Goto
<1>20. CASE StopLost(w)
  BY <1>0, <1>20 DEF StopLost, Leave
<1>21. CASE ReleaseDelete(w)
  BY ZenonT(60), <1>0, <1>21 DEF ReleaseDelete, Goto
<1>22. CASE ReleaseDrop(w)
  BY <1>0, <1>22, ZenonT(60) DEF ReleaseDrop
<1>23. CASE Commit(w)
  <2>1. CASE StopFresh(w, {work[w].id}) /\ UNCHANGED <<inStore, lease>>
    BY <1>0, <1>23, <2>1 DEF Commit, StopFresh, Leave
  <2>2. CASE work[w].op = "fill"
    BY <1>0, <1>23, <2>2 DEF Commit, Goto
  <2>3. CASE work[w].op # "fill" /\ Save(work[w].lease, Committed(w)) /\ Goto(w, "endCreate")
    <3>1. /\ work[w].lease \in Leases
          /\ Committed(w).sandbox \in Sandboxes \cup {lease[work[w].lease].sandbox}
      BY ZenonT(60), <1>0, <1>23, <2>3 DEF Commit, Committed, LeaseRecord, NewLease
    <3>2. lease'[work[w].lease] = Committed(w) /\ UNCHANGED released /\ inStore \subseteq inStore'
      BY ZenonT(60), <1>0, <1>23, <2>3, <3>1 DEF Commit, Save
    <3> QED BY SMTT(30), <1>0, <1>23, <2>3, <3>1, <3>2 DEF Commit, Goto
  <2> QED BY ZenonT(60), <1>23, <2>1, <2>2, <2>3 DEF Commit
<1> QED
  BY ZenonT(60), <1>1, <1>2, <1>3, <1>4, <1>5, <1>6, <1>7, <1>8, <1>9, <1>10, <1>11, <1>12, <1>13,
     <1>14, <1>15, <1>16, <1>17, <1>18, <1>19, <1>20, <1>21, <1>22, <1>23 DEF WorkStep

\* What a step of the running backend keeps of the store.
StoreKept ==
    /\ StoreNamed' /\ RowsAgree'
    /\ released \subseteq released' /\ inStore \subseteq inStore' \cup released'
    /\ \A l \in Leases : lease'[l].sandbox \in Sandboxes \cup {lease[l].sandbox}

\* A step that writes no lease and no row keeps the store.
LEMMA StoreQuiet ==
    ASSUME IInv, UNCHANGED <<inStore, released, lease, rows, row>>
    PROVE  StoreKept
BY DEF IInv, StoreKept, StoreNamed, RowsAgree

\* Saving an unreleased lease that names a sandbox keeps the store.
LEMMA StoreSave ==
    ASSUME IInv, NEW l \in Leases \ released, NEW r \in LeaseRecord, r.sandbox \in Sandboxes,
           Save(l, r), UNCHANGED released, inStore' = inStore \cup {l}
    PROVE  StoreKept
BY DEF IInv, TypeOK, StoreKept, StoreNamed, RowsAgree, Save

\* Every step of an operation keeps the store: each of its saves is of a
\* lease that is in the table or released, and a release drops both the
\* lease and its row.
LEMMA StoreWork == ASSUME IInv, NEW w \in Workers, WorkStep(w) PROVE StoreKept
<1> DEFINE l == work[w].lease
<1>   /\ work[w] \in WorkRecord /\ WorkOK(w) /\ TypeOK
      /\ work[w].op \in BusyOps => l \in Leases /\ lease[l] \in LeaseRecord
                                   /\ lease[l].sandbox \in Sandboxes
                                   /\ (l \notin released => inStore = inStore \cup {l})
  BY ZenonT(60) DEF IInv, TypeOK, WorkInv, WorkOK
<1>1. CASE Paused(w)
  <2> USE <1>1
  <2>   work[w].op \in BusyOps BY DEF Paused, WorkOK, BusySteps
  <2>2. CASE ~leaseReleased(l) /\ Save(l, [lease[l] EXCEPT !.state = "suspended",
                                                          !.resumeBuild = work[w].build])
    <3>   [lease[l] EXCEPT !.state = "suspended", !.resumeBuild = work[w].build] \in LeaseRecord
      BY ZenonT(60) DEF WorkRecord, LeaseRecord, LeaseStates
    <3>   [lease[l] EXCEPT !.state = "suspended", !.resumeBuild = work[w].build].sandbox
            \in Sandboxes
      BY DEF LeaseRecord
    <3> QED BY ZenonT(60), <2>2, StoreSave
      DEF Paused, leaseReleased
  <2> QED BY <2>2, StoreQuiet DEF Paused, rowVars
<1>2. CASE Commit(w)
  <2> USE <1>2
  <2>1. CASE work[w].op # "fill" /\ ~leaseReleased(l) /\ Save(l, Committed(w))
             /\ inStore' = inStore \cup (IF work[w].op = "grant" THEN {l} ELSE {})
    <3> USE <2>1
    <3>   l \in Leases /\ work[w].id \in Sandboxes
      BY ZenonT(60) DEF Commit, WorkOK, CreateSteps, Holds
    <3>2. inStore' = inStore \cup {l} /\ UNCHANGED released
      BY ZenonT(60) DEF Commit, WorkOK, CreateSteps, leaseReleased
    <3>3. Committed(w) \in LeaseRecord BY CommittedType
    <3>   work[w].op \in BusyOps \cup {"grant"}
      BY ZenonT(60) DEF Commit, WorkOK, CreateSteps
    <3>   Committed(w).sandbox \in Sandboxes
      BY DEF Committed, LeaseRecord, NewLease, BusyOps
    <3> QED BY <3>2, <3>3, StoreSave DEF leaseReleased
  <2> QED BY ZenonT(60), <2>1, StoreQuiet DEF Commit, rowVars
<1>3. CASE CheckpointRecord(w)
  <2> USE <1>3
  <2>   work[w].op \in BusyOps BY DEF CheckpointRecord, WorkOK, BusySteps
  <2>2. CASE ~leaseReleased(l) /\ Save(l, [lease[l] EXCEPT !.checkpoint = work[w].build])
    <3>   [lease[l] EXCEPT !.checkpoint = work[w].build] \in LeaseRecord
      BY DEF WorkRecord, LeaseRecord
    <3>   [lease[l] EXCEPT !.checkpoint = work[w].build].sandbox \in Sandboxes
      BY DEF LeaseRecord
    <3> QED BY ZenonT(60), <2>2, StoreSave
      DEF CheckpointRecord, leaseReleased
  <2> QED BY <2>2, StoreQuiet DEF CheckpointRecord, rowVars
<1>4. CASE Mark(w)
  <2> USE <1>4
  <2>   work[w].op \in BusyOps BY ZenonT(60) DEF Mark, WorkOK, BusySteps
  <2>2. CASE l \in released
    <3>   UNCHANGED <<inStore, released, lease, rows, row>>
      BY <2>2 DEF Mark, Save, TypeOK, rowVars
    <3> QED BY StoreQuiet, ZenonT(60)
  <2>3. CASE l \notin released
    BY ZenonT(60), <2>3, StoreSave DEF Mark
  <2> QED BY <2>2, <2>3
<1>5. CASE Lose(w)
  <2> USE <1>5
  <2>   work[w].op \in BusyOps BY DEF Lose, WorkOK, BusySteps
  <2>2. CASE ~leaseReleased(l)
    <3>   [lease[l] EXCEPT !.state = "lost"] \in LeaseRecord
      BY DEF LeaseRecord, LeaseStates
    <3>   [lease[l] EXCEPT !.state = "lost"].sandbox \in Sandboxes
      BY DEF LeaseRecord
    <3> QED BY ZenonT(60), <2>2, StoreSave
      DEF Lose, leaseReleased
  <2> QED BY <2>2, StoreQuiet DEF Lose, rowVars
<1>6. CASE ReleaseDrop(w)
  BY ZenonT(60), <1>6
  DEF ReleaseDrop, WorkOK, deleteLeaseLocked, IInv, TypeOK, StoreKept, StoreNamed,
     RowsAgree
<1>7. CASE \/ Begin(w) \/ EndBusy(w) \/ Pause(w) \/ Admit(w) \/ Create(w) \/ Check(w)
           \/ Probe(w) \/ DropOld(w) \/ DropFirst(w) \/ EndCreate(w) \/ Pop(w) \/ Validate(w)
  BY ZenonT(60), <1>7, StoreQuiet
  DEF Begin, EndBusy, Pause, Admit, Create, Check, Probe, DropOld, DropFirst, EndCreate, Pop,
      Validate, memVars, rowVars
<1>8. CASE \/ Checkpoint(w) \/ CheckpointResume(w) \/ Crash(w) \/ Recover(w)
           \/ RetryFailed(w) \/ StopLost(w) \/ ReleaseDelete(w)
  BY ZenonT(60), <1>8, StoreQuiet
  DEF Checkpoint, CheckpointResume, Crash, Recover, RetryFailed, StopLost, ReleaseDelete,
      memVars, rowVars
<1> QED BY <1>1, <1>2, <1>3, <1>4, <1>5, <1>6, <1>7, <1>8, ZenonT(60) DEF WorkStep

\* A step of one goroutine that keeps the store keeps what holds of the
\* others.
LEMMA WorkFrame ==
    ASSUME IInv, StoreKept, NEW w \in Workers, WorkOK(w)',
           \A v \in Workers \ {w} : work'[v] = work[v]
    PROVE  WorkInv'
<1> SUFFICES ASSUME NEW v \in Workers, v # w PROVE WorkOK(v)'
  BY DEF WorkInv
<1> QED BY ZenonT(60) DEF IInv, WorkInv, StoreKept, WorkOK, Holds

\* A step that moves one operation and no busy flag keeps the ownership.
LEMMA BusyKept ==
    ASSUME IInv, NEW w \in Workers, Moves(w), UNCHANGED busy
    PROVE  BusyExclusive'
BY DEF IInv, BusyExclusive, Moves, HoldsBusy

\* Setting a clear busy flag makes its taker the only owner.
LEMMA BusyTaken ==
    ASSUME IInv, NEW w \in Workers, NEW l \in Leases \ busy, busy' = busy \cup {l},
           \A v \in Workers \ {w} : work'[v] = work[v],
           ~HoldsBusy(w), HoldsBusy(w)', work'[w].lease = l
    PROVE  BusyExclusive'
BY DEF IInv, BusyExclusive, HoldsBusy

\* The steps of an operation, Begin and endBusy included.
LEMMA WorkStepInv ==
    ASSUME IInv, NEW w \in Workers, WorkStep(w)
    PROVE  WorkInv' /\ BusyExclusive'
<1>0. work \in [Workers -> WorkRecord] /\ WorkOK(w)
  BY DEF IInv, TypeOK, WorkInv
<1>1. CASE Begin(w)
  <2> USE <1>1
  <2>1. CASE BeginPasses(work[w].lease, work[w].op)
    <3> USE <2>1
    <3>   /\ HoldsBusy(w)' /\ ~HoldsBusy(w) /\ WorkOK(w)' /\ work'[w].lease = work[w].lease
          /\ \A v \in Workers \ {w} : work'[v] = work[v]
      BY <1>0
      DEF Begin, Goto, FirstStep, WorkOK, Holds, HoldsBusy, WorkRecord, BusyOps, BusySteps,
          CreateSteps
    <3>   work[w].lease \in Leases \ busy /\ busy' = busy \cup {work[w].lease}
      BY ZenonT(60), <1>0 DEF Begin, BeginPasses, WorkOK
    <3> QED BY BusyTaken, WorkFrame, StoreWork
  <2>2. CASE ~BeginPasses(work[w].lease, work[w].op)
    <3>   work' = [work EXCEPT ![w] = IdleWork] /\ UNCHANGED busy /\ work[w].pc = "found"
      BY <2>2 DEF Begin
    <3>   Moves(w)
      BY ZenonT(60), <1>0
      DEF Moves, IdleWork, WorkOK, Holds, HoldsBusy, BusyOps, BusySteps,
         CreateSteps
    <3> QED BY BusyKept, WorkFrame, StoreWork, ZenonT(60) DEF Moves
  <2> QED BY <2>1, <2>2, ZenonT(60)
<1>2. CASE EndBusy(w)
  <2> USE <1>2
  <2>   /\ HoldsBusy(w) /\ ~HoldsBusy(w)' /\ WorkOK(w)'
        /\ \A v \in Workers \ {w} : work'[v] = work[v]
    BY <1>0
    DEF EndBusy, IdleWork, WorkOK, Holds, HoldsBusy, BusyOps, BusySteps, CreateSteps
  <2>   BusyExclusive'
    BY SMTT(30) DEF EndBusy, IInv, BusyExclusive, HoldsBusy
  <2> QED BY ZenonT(60), WorkFrame, StoreWork
<1>3. CASE ~Begin(w) /\ ~EndBusy(w)
  <2> USE <1>3
  <2>   UNCHANGED busy
    BY ZenonT(60)
    DEF WorkStep, Pause, Paused, Admit, Create, Check, Probe, DropOld, DropFirst,
       Commit,
       EndCreate, Pop, Validate, Checkpoint, CheckpointResume, CheckpointRecord, Mark, Crash,
       Recover, RetryFailed, Lose, StopLost, ReleaseDelete, ReleaseDrop, memVars
  <2> QED BY WorkMoves, BusyKept, WorkFrame, StoreWork DEF Moves
<1> QED BY <1>1, <1>2, <1>3

\* The requests that take busy at once (restart, take-back, probe) and the
\* others.
LEMMA RequestInv ==
    ASSUME IInv, NEW w \in Handlers, Request(w)
    PROVE  WorkInv' /\ BusyExclusive' /\ StoreKept
<1>   w \in Workers /\ work \in [Workers -> WorkRecord] /\ WorkOK(w)
      /\ \A l \in inStore : l \in Leases /\ lease[l].sandbox \in Sandboxes
  BY DEF IInv, TypeOK, WorkInv, Workers, StoreNamed
<1> USE DEF Idle, Start, WorkOK, Holds, HoldsBusy, memVars
<1>1. CASE Fill(w) \/ \E l \in Leases : Grant(w, l)
  <2> USE <1>1
  <2>0. UNCHANGED busy /\ StoreKept
    BY ZenonT(60), StoreQuiet DEF Fill, Grant, rowVars
  <2>1. ASSUME Fill(w) PROVE Moves(w)
    BY ZenonT(60), <2>1, NumberType DEF Fill, Moves, BusyOps, BusySteps, CreateSteps
  <2>2. ASSUME NEW l \in Leases, Grant(w, l) PROVE Moves(w)
    BY ZenonT(60), <2>2, NumberType DEF Grant, Moves, BusyOps, BusySteps, CreateSteps
  <2>   Moves(w)
    BY <2>1, <2>2
  <2> QED BY ZenonT(60), <2>0, BusyKept, WorkFrame DEF Moves
<1>2. ASSUME NEW l \in Leases, Restart(w, l) PROVE WorkInv' /\ BusyExclusive' /\ StoreKept
  <2> USE <1>2
  <2>   /\ HoldsBusy(w)' /\ ~HoldsBusy(w) /\ WorkOK(w)' /\ work'[w].lease = l
        /\ \A v \in Workers \ {w} : work'[v] = work[v]
    <3>   PICK op \in {"cold", "fresh", "restart"}, step \in {"admit", "dropFirst", "pause"} :
             Start(w, op, l, step, NoBuild)
      BY ZenonT(60) DEF Restart
    <3>   l \in inStore /\ UNCHANGED <<inStore, released, lease>> /\ work[w].pc = "idle"
      BY ZenonT(60) DEF Restart
    <3> QED BY ZenonT(60) DEF BusyOps, BusySteps, CreateSteps
  <2>   l \notin busy /\ busy' = busy \cup {l} /\ StoreKept
    BY StoreQuiet, ZenonT(60) DEF Restart, rowVars
  <2> QED BY ZenonT(60), BusyTaken, WorkFrame
<1>3. ASSUME NEW l \in Leases, Release(w, l) PROVE WorkInv' /\ BusyExclusive' /\ StoreKept
  <2> USE <1>3
  <2>   Moves(w) /\ UNCHANGED busy
    BY ZenonT(60) DEF Release, Moves, BusyOps, BusySteps, CreateSteps
  <2>   StoreKept
    BY ZenonT(60) DEF Release, rowVars, IInv, StoreKept, StoreNamed, RowsAgree
  <2> QED BY ZenonT(60), BusyKept, WorkFrame DEF Moves
<1>4. ASSUME NEW l \in Leases, NEW op \in Ops, Lookup(w, l, op)
      PROVE  WorkInv' /\ BusyExclusive' /\ StoreKept
  <2>   Moves(w) /\ UNCHANGED busy /\ StoreKept
    BY ZenonT(60), <1>4, StoreQuiet
    DEF Lookup, Moves, rowVars, BusyOps, BusySteps, CreateSteps
  <2> QED BY ZenonT(60), BusyKept, WorkFrame DEF Moves
<1>5. ASSUME NEW l \in Leases, NEW op \in Ops, Seize(w, l, op)
      PROVE  WorkInv' /\ BusyExclusive' /\ StoreKept
  <2> USE <1>5
  <2>   /\ HoldsBusy(w)' /\ ~HoldsBusy(w) /\ WorkOK(w)' /\ work'[w].lease = l
        /\ \A v \in Workers \ {w} : work'[v] = work[v]
    BY ZenonT(60) DEF Seize, BusyOps, BusySteps, CreateSteps
  <2>   l \notin busy /\ busy' = busy \cup {l} /\ StoreKept
    BY StoreQuiet, ZenonT(60) DEF Seize, rowVars
  <2> QED BY ZenonT(60), BusyTaken, WorkFrame
<1> QED BY <1>1, <1>2, <1>3, <1>4, <1>5, ZenonT(60) DEF Request

\* The reconcile: trySetBusy takes a clear flag of a lease still in the
\* table, pruneStaleLeaseRows finds no row without a lease.
LEMMA ReconcileInv == ASSUME IInv, Reconcile PROVE WorkInv' /\ BusyExclusive' /\ StoreKept
<1> DEFINE w == Reconciler
<1>   w \in Workers /\ work \in [Workers -> WorkRecord] /\ WorkOK(w)
      /\ \A l \in inStore : l \in Leases /\ lease[l].sandbox \in Sandboxes
  BY DEF IInv, TypeOK, WorkInv, Workers, StoreNamed
<1> USE DEF Goto, Start, WorkOK, Holds, HoldsBusy, memVars, BusyOps, BusySteps, CreateSteps
<1>1. ASSUME ReconcileList \/ ReconcileTargets \/ ReconcileEnd
      PROVE  Moves(w) /\ UNCHANGED busy
  BY <1>1
  DEF ReconcileList, ReconcileTargets, ReconcileEnd, Moves, IdleWork, WorkRecord
<1>2. CASE ReconcileList \/ ReconcileEnd
  <2> USE <1>2
  <2>   StoreKept
    BY StoreQuiet DEF ReconcileList, ReconcileEnd, rowVars
  <2> QED BY ZenonT(60), <1>1, BusyKept, WorkFrame DEF Moves
<1>3. CASE ReconcileTargets
  <2> USE <1>3
  <2>   StoreKept
    BY DEF ReconcileTargets, IInv, TypeOK, StoreKept, StoreNamed, RowsAgree
  <2> QED BY ZenonT(60), <1>1, BusyKept, WorkFrame DEF Moves
<1>4. ASSUME NEW l \in Leases, ReconcileNext(l) PROVE WorkInv' /\ BusyExclusive' /\ StoreKept
  <2> USE <1>4
  <2>1. StoreKept
    BY StoreQuiet, ZenonT(60) DEF ReconcileNext, rowVars
  <2>2. CASE TrySetBusyPasses(l) /\ GenerationRoom(l)
    <3> USE <2>2
    <3>1. l \in inStore
      BY ZenonT(60) DEF TargetsKnown, IInv, ReconcileNext, TrySetBusyPasses
    <3>   /\ HoldsBusy(w)' /\ ~HoldsBusy(w) /\ WorkOK(w)' /\ work'[w].lease = l
          /\ \A v \in Workers \ {w} : work'[v] = work[v]
          /\ l \notin busy /\ busy' = busy \cup {l}
      <4>   /\ Start(w, "recover", l, "recover", NoBuild) /\ l \notin busy
            /\ busy' = busy \cup {l} /\ UNCHANGED <<inStore, released, lease>>
            /\ work[w].pc = "next"
        BY ZenonT(60) DEF ReconcileNext, TrySetBusyPasses
      <4> QED BY ZenonT(60), <3>1
    <3> QED BY ZenonT(60), <2>1, BusyTaken, WorkFrame
  <2>3. CASE ~(TrySetBusyPasses(l) /\ GenerationRoom(l))
    <3>   Moves(w) /\ UNCHANGED busy
      BY ZenonT(60), <2>3 DEF ReconcileNext, Moves
    <3> QED BY ZenonT(60), <2>1, BusyKept, WorkFrame DEF Moves
  <2> QED BY <2>2, <2>3, ZenonT(60)
<1> QED BY <1>2, <1>3, <1>4, ZenonT(60) DEF Reconcile

\* The sweep, the guests and the node write neither leases nor goroutines.
LEMMA QuietInv ==
    ASSUME IInv,
           \/ Sweep
           \/ \E l \in Leases : GuestRuns(l)
           \/ \E s \in Sandboxes : VmCrash(s)
           \/ UNCHANGED vars
    PROVE  WorkInv' /\ BusyExclusive' /\ StoreKept
<1>   UNCHANGED <<memVars, rowVars, work>>
  BY ZenonT(60)
  DEF Sweep, SweepStart, SweepClaims, SweepKill, SweepList, SweepFlight, SweepClassify,
     SweepEnd, SweepPick, SweepUnchanged, GuestRuns, VmCrash, vars
<1>   StoreKept
  BY StoreQuiet DEF memVars, rowVars
<1> QED BY ZenonT(60)
  DEF IInv, WorkInv, WorkOK, Holds, BusyExclusive, HoldsBusy, memVars,
    rowVars

\* A backend restart at any moment reloads the table from its rows.
LEMMA RestartInv ==
    ASSUME IInv, BackendRestart
    PROVE  WorkInv' /\ BusyExclusive' /\ StoreNamed' /\ RowsAgree'
<1>   /\ work' = [w \in Workers |-> IdleWork] /\ busy' = {} /\ inStore' = rows
      /\ lease' = [l \in Leases |-> IF l \in rows THEN row[l] ELSE lease[l]]
      /\ UNCHANGED <<rows, row>>
  BY ZenonT(60) DEF BackendRestart, rowVars, IInv, TypeOK
<1>   WorkInv' /\ BusyExclusive'
  BY ZenonT(60)
  DEF WorkInv, WorkOK, Holds, HoldsBusy, IdleWork, BusyExclusive, BusyOps, BusySteps,
     CreateSteps
<1>   rows \subseteq Leases /\ RowsAgree /\ StoreNamed
  BY DEF IInv, TypeOK
<1> QED BY DEF StoreNamed, RowsAgree

\* The sweep always knows which sandbox it is about to delete.
LEMMA SweepStepInv == ASSUME IInv, [Next]_vars PROVE SweepNamed'
<1>0. sweep \in SweepRecord /\ SweepNamed
  BY DEF IInv, TypeOK
<1>1. ASSUME NEW s, NEW m, Boot(s, m) PROVE SweepNamed'
  BY <1>0, <1>1 DEF Boot, SweepNamed, SweepRecord
<1>2. CASE UNCHANGED sweep
  BY <1>0, <1>2 DEF SweepNamed
<1>3. CASE Sweep
  <2>1. CASE SweepStart \/ SweepList \/ SweepFlight \/ SweepClassify \/ SweepEnd
    <3>   sweep'.pc \in {"idle", "pick", "flight", "classify"}
      <4>1. CASE SweepStart
        BY <4>1 DEF SweepStart, IdleSweep
      <4>2. CASE SweepFlight
        BY <1>0, <4>2, ZenonT(60) DEF SweepFlight, SweepRecord
      <4>3. CASE SweepEnd
        BY <4>3 DEF SweepEnd, IdleSweep
      <4>4. CASE SweepClassify
        BY <4>4 DEF SweepClassify, IdleSweep
      <4>5. CASE SweepList
        <5>1. CASE sweep' = IdleSweep
          BY <5>1 DEF IdleSweep
        <5>2. CASE sweep' = [sweep EXCEPT !.pc = "flight", !.phase = "sweep",
                                          !.listed = present_ids,
                                          !.again = present_ids \cap seen]
          BY <1>0, <5>2 DEF SweepRecord
        <5> QED BY <4>5, <5>1, <5>2 DEF SweepList
      <4> QED BY <2>1, <4>1, <4>2, <4>3, <4>4, <4>5
    <3> QED BY DEF SweepNamed
  <2>2. CASE SweepClaims
    BY ZenonT(60), <1>0, <2>2 DEF SweepClaims, SweepSkip, SweepNamed, SweepRecord
  <2>3. CASE SweepKill
    BY <1>0, <2>3 DEF SweepKill, SweepNamed, SweepRecord
  <2>4. ASSUME NEW s \in Sandboxes, SweepPick(s) PROVE SweepNamed'
    BY ZenonT(60), <1>0, <2>4 DEF SweepPick, SweepSkip, SweepNamed, SweepRecord
  <2> QED BY <1>3, <2>1, <2>2, <2>3, <2>4 DEF Sweep
<1>4. CASE BackendRestart
  BY <1>4 DEF BackendRestart, IdleSweep, SweepNamed
<1>5. ASSUME NEW w \in Workers, WorkStep(w) PROVE SweepNamed'
  <2>1. CASE Create(w)
    BY ZenonT(60), <1>1, <1>2, <2>1 DEF Create, sweepVars
  <2>2. CASE CheckpointResume(w)
    BY ZenonT(60), <1>1, <1>2, <2>2 DEF CheckpointResume, sweepVars
  <2>3. CASE ~Create(w) /\ ~CheckpointResume(w)
    <3>   UNCHANGED sweep
      BY ZenonT(60), <1>5, <2>3
      DEF WorkStep, Begin, EndBusy, Pause, Paused, Admit, Check, Probe, DropOld, DropFirst,
          Commit, EndCreate, Pop, Validate, Checkpoint, CheckpointRecord, Mark, Crash, Recover,
          RetryFailed, Lose, StopLost, ReleaseDelete, ReleaseDrop, sweepVars
    <3> QED BY <1>2
  <2> QED BY <2>1, <2>2, <2>3
<1>6. ASSUME \/ \E w \in Handlers : Request(w)
             \/ Reconcile
             \/ \E l \in Leases : GuestRuns(l)
             \/ \E s \in Sandboxes : VmCrash(s)
             \/ UNCHANGED vars
      PROVE  UNCHANGED sweep
  BY ZenonT(60), <1>6
  DEF Request, Fill, Grant, Restart, Release, Lookup, Seize, Reconcile, ReconcileList,
      ReconcileTargets, ReconcileNext, ReconcileEnd, GuestRuns, VmCrash, vars, sweepVars
<1> QED BY <1>2, <1>3, <1>4, <1>5, <1>6 DEF Next

\* The reconcile's targets stay leases of the table or released ones.
LEMMA TargetsStepInv ==
    ASSUME IInv, StoreKept, [Next]_vars, ~BackendRestart
    PROVE  TargetsKnown'
<1>1. CASE ReconcileTargets
  BY ZenonT(60), <1>1 DEF ReconcileTargets, TargetsKnown, memVars
<1>2. CASE targets' \subseteq targets
  BY <1>2 DEF IInv, TargetsKnown, StoreKept
<1>3. ASSUME NEW w \in Workers, WorkStep(w) PROVE UNCHANGED targets
  BY ZenonT(60), <1>3
  DEF WorkStep, Begin, EndBusy, Pause, Paused, Admit, Create, Check, Probe, DropOld, DropFirst,
      Commit, EndCreate, Pop, Validate, Checkpoint, CheckpointResume, CheckpointRecord, Mark,
      Crash, Recover, RetryFailed, Lose, StopLost, ReleaseDelete, ReleaseDrop, recVars
<1>4. ASSUME \/ \E w \in Handlers : Request(w)
             \/ ReconcileList \/ ReconcileEnd
             \/ Sweep
             \/ \E l \in Leases : GuestRuns(l)
             \/ \E s \in Sandboxes : VmCrash(s)
             \/ UNCHANGED vars
      PROVE  UNCHANGED targets
  BY ZenonT(60), <1>4
  DEF Request, Fill, Grant, Restart, Release, Lookup, Seize, ReconcileList, ReconcileEnd,
      Sweep, SweepStart, SweepClaims, SweepKill, SweepList, SweepFlight, SweepClassify,
      SweepEnd, SweepPick, SweepUnchanged, GuestRuns, VmCrash, vars, recVars
<1>5. ASSUME NEW l \in Leases, ReconcileNext(l) PROVE targets' \subseteq targets
  BY <1>5 DEF ReconcileNext
<1> QED BY <1>1, <1>2, <1>3, <1>4, <1>5 DEF Next, Reconcile

\* The invariant holds of the empty backend.
LEMMA InitInv == ASSUME Init PROVE IInv
<1>1. TypeOK
  <2>   IdleSweep \in SweepRecord
    BY ZenonT(60) DEF IdleSweep, SweepRecord, SweepPcs
  <2>   0 \in Moments /\ 0 \in 0..MaxRestarts
    BY SMTT(30), BoundAssumption DEF Moments
  <2> QED BY RecordType DEF Init, TypeOK
<1>   WorkInv /\ BusyExclusive
  BY ZenonT(60) DEF Init, WorkInv, WorkOK, IdleWork, Holds, HoldsBusy, BusyExclusive, BusyOps, BusySteps,
     CreateSteps
<1>   StoreNamed /\ SweepNamed /\ TargetsKnown /\ RowsAgree
  BY DEF Init, StoreNamed, SweepNamed, IdleSweep, TargetsKnown, RowsAgree
<1> QED BY <1>1 DEF IInv

\* Every step preserves the invariant.
LEMMA NextInv == ASSUME IInv, [Next]_vars PROVE IInv'
<1>   TypeOK' /\ SweepNamed'
  BY TypeStep, SweepStepInv
<1>2. CASE BackendRestart
  <2> USE <1>2
  <2>   TargetsKnown'
    BY ZenonT(60) DEF BackendRestart, TargetsKnown
  <2> QED BY RestartInv, ZenonT(60) DEF IInv
<1>3. CASE ~BackendRestart
  <2> USE <1>3
  <2>   WorkInv' /\ BusyExclusive' /\ StoreKept
    BY WorkStepInv, StoreWork, RequestInv, ReconcileInv, QuietInv DEF Next
  <2> QED BY TargetsStepInv DEF IInv, StoreKept
<1> QED BY <1>2, <1>3

\* The inductive invariant holds of every behaviour of the backend, for any
\* number of leases, sandboxes, goroutines, retries and restarts and any set
\* of faults.
THEOREM Invariance == Spec => []IInv
BY InitInv, NextInv, PTL DEF Spec

\* Every variable keeps its type, and reconcileCrash never keeps a retry
\* budget that noteRetryFailure or noteRetryWait should have found spent.
THEOREM TypeCorrect == Spec => []TypeOK
BY Invariance, PTL DEF IInv

\* A lease is busy exactly while one operation works on it, and never two:
\* every path out of every operation, failures and releases included, ends
\* in endBusy, and each place that sets busy looks at it in the same lock
\* section.
THEOREM BusyIsExclusive == Spec => []BusyExclusive
BY Invariance, PTL DEF IInv

\* The rows of the leases table are the lease table: saveLeaseLocked and
\* deleteLeaseLocked keep them equal under every interleaving of operations
\* with a release, so a restart at any moment loads what the backend had.
THEOREM RowsAlwaysAgree == Spec => []RowsAgree
BY Invariance, PTL DEF IInv

=============================================================================
