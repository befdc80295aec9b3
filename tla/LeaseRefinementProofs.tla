----------------------- MODULE LeaseRefinementProofs -----------------------
(***************************************************************************)
(* The backend implements LeaseContract, for every value of its constants, *)
(* and a lost lease stays lost where no suspend and no restore runs.       *)
(* The refinement needs to know, beyond IInv, what a goroutine relies on   *)
(* when it commits: the state it read when it took the busy flag is the    *)
(* state the lease still has, unless the lease was released.               *)
(***************************************************************************)
EXTENDS LeaseLifecycleProofs, LeaseRefinement

\* A lease that is or was in the table has been granted.
StoreGranted == \A l \in inStore \cup released : lease[l].state # "none"

\* A grant works on a lease that nobody knows yet, and alone.
GrantFresh ==
    /\ \A w \in Workers :
          work[w].op = "grant" /\ work[w].pc # "endCreate" => lease[work[w].lease].state = "none"
    /\ \A v, w \in Workers :
          work[v].op = "grant" /\ work[w].op = "grant" /\ work[v].lease = work[w].lease => v = w

\* The operations that pause a guest, and those that create one.
PausingOps == {"suspend", "restart", "takeBack"}
CreatingOps == {"resume", "use", "restart", "takeBack", "recover", "fresh", "cold",
                "restore", "grant", "fill"}
CreatePath == CreateSteps \ {"endCreate"}

\* Which operation a goroutine at a given step runs.
OpAt(w) ==
    /\ work[w].pc = "found" =>
          work[w].op \in {"suspend", "resume", "use", "checkpoint", "restore", "crashTest"}
    /\ work[w].pc \in {"pause", "paused"} => work[w].op \in PausingOps
    /\ work[w].pc \in CreateSteps => work[w].op \in CreatingOps
    /\ work[w].pc = "dropFirst" => work[w].op = "fresh"
    /\ work[w].pc \in {"mark", "crash"} => work[w].op \in {"crashTest", "probe"}
    /\ work[w].pc \in {"ckpt", "ckptResume", "ckptRecord"} => work[w].op = "checkpoint"
    /\ work[w].pc \in {"recover", "failed", "lose"} => work[w].op = "recover"
    /\ work[w].pc \in {"idle", "listed", "next"} => work[w].op = "none"

\* What an operation found when it took the busy flag still holds when it
\* commits.
PhaseOK(w) ==
    work[w].op \in BusyOps /\ work[w].lease \notin released =>
        /\ work[w].op \in {"resume", "use"} /\ work[w].pc \in CreatePath
              => lease[work[w].lease].state \in {"suspended", "recovered"}
        /\ work[w].op \in {"restart", "takeBack"} /\ work[w].pc \in CreatePath
              => lease[work[w].lease].state = "suspended"
        /\ work[w].op = "recover" /\ work[w].pc \in CreatePath => live(work[w].lease)
        /\ work[w].pc \in {"mark", "crash", "recover", "failed", "lose"}
              => live(work[w].lease)

PhaseInv == \A w \in Workers : OpAt(w) /\ PhaseOK(w)

\* The inductive invariant of the refinement.
RInv == IInv /\ StoreGranted /\ GrantFresh /\ PhaseInv

-----------------------------------------------------------------------------
(* The invariant. *)

\* What a step of w may do to the states of the leases: only the operation
\* that has a lease in hand, or its grant, moves it, and never to "none".
StatesKept(w) ==
    /\ UNCHANGED released
    /\ \A k \in Leases : lease'[k].state # lease[k].state =>
          /\ k = work[w].lease /\ lease'[k].state # "none"
          /\ HoldsBusy(w) \/ (work[w].op = "grant" /\ work[w].pc = "commit")
    /\ \A k \in inStore' \ inStore : lease'[k].state # "none"

\* A grant stays the grant of its lease until it commits.
GrantKept(w) ==
    work'[w].op = "grant" =>
        /\ work[w].op = "grant" /\ work'[w].lease = work[w].lease
        /\ work'[w].pc # "endCreate" =>
              work[w].pc # "endCreate"
              /\ lease'[work[w].lease].state = lease[work[w].lease].state

\* A step that leaves the table alone keeps the states.
LEMMA StatesQuiet ==
    ASSUME NEW w, UNCHANGED <<inStore, released, lease>>
    PROVE  StatesKept(w)
BY DEF StatesKept

\* So does saving a lease in a state other than "none".
LEMMA StatesSaved ==
    ASSUME TypeOK, NEW w \in Workers, work[w].lease \in Leases, NEW r \in LeaseRecord,
           r.state # "none", UNCHANGED released,
           Save(work[w].lease, r), inStore' \subseteq inStore \cup {work[w].lease},
           HoldsBusy(w) \/ (work[w].op = "grant" /\ work[w].pc = "commit")
    PROVE  StatesKept(w) /\ lease'[work[w].lease] = r
BY DEF StatesKept, Save, TypeOK

\* What an operation commits is a held lease.
LEMMA CommittedHeld ==
    ASSUME TypeOK, NEW w \in Workers, work[w].lease \in Leases, work[w].id \in Sandboxes
    PROVE  Committed(w).state \in {"running", "recovered"}
<1>   lease[work[w].lease] \in LeaseRecord BY DEF TypeOK
<1> QED BY ZenonT(60) DEF Committed, LeaseRecord, NewLease

\* A step of one goroutine that keeps the states keeps what the others found
\* when they took busy: a lease in their hands is not in its.
LEMMA PhaseFrame ==
    ASSUME RInv, NEW w \in Workers, StatesKept(w), GrantKept(w),
           OpAt(w)', PhaseOK(w)', \A v \in Workers \ {w} : work'[v] = work[v]
    PROVE  StoreGranted' /\ GrantFresh' /\ PhaseInv'
<1>   /\ BusyExclusive /\ WorkInv /\ TypeOK /\ StoreGranted /\ GrantFresh /\ PhaseInv
      /\ released' = released
  BY DEF RInv, IInv, StatesKept
<1>1. StoreGranted'
  BY DEF StoreGranted, StatesKept, TypeOK
<1>2. ASSUME NEW v \in Workers \ {w}, work[v].lease \in Leases,
             (work[v].op = "grant" /\ work[v].pc # "endCreate") \/ HoldsBusy(v)
      PROVE  lease'[work[v].lease].state = lease[work[v].lease].state
  <2> SUFFICES ASSUME lease'[work[v].lease].state # lease[work[v].lease].state PROVE FALSE
    OBVIOUS
  <2>   /\ work[v].lease = work[w].lease
        /\ HoldsBusy(w) \/ (work[w].op = "grant" /\ work[w].pc = "commit")
    BY <1>2 DEF StatesKept
  <2>2. ASSUME NEW u \in Workers, HoldsBusy(u)
        PROVE  lease[work[u].lease].state # "none"
    BY <2>2 DEF HoldsBusy, WorkInv, WorkOK, StoreGranted
  <2>3. CASE HoldsBusy(v) /\ HoldsBusy(w)
    BY <2>3 DEF BusyExclusive
  <2>4. CASE work[v].op = "grant" /\ work[w].op = "grant"
    BY <2>4 DEF GrantFresh
  <2>5. CASE HoldsBusy(v) /\ work[w].op = "grant" /\ work[w].pc = "commit"
    BY <2>2, <2>5 DEF GrantFresh
  <2>6. CASE work[v].op = "grant" /\ work[v].pc # "endCreate" /\ HoldsBusy(w)
    BY <2>2, <2>6 DEF GrantFresh
  <2> QED BY <1>2, <2>3, <2>4, <2>5, <2>6
<1>3. GrantFresh'
  <2>1. ASSUME NEW v \in Workers, work'[v].op = "grant", work'[v].pc # "endCreate"
        PROVE  lease'[work'[v].lease].state = "none"
    <3> USE <2>1
    <3>1. CASE v = w
      BY <3>1 DEF GrantKept, GrantFresh
    <3>2. CASE v # w
      BY <1>2, <3>2 DEF GrantFresh, WorkInv, WorkOK
    <3> QED BY <3>1, <3>2
  <2>2. ASSUME NEW u \in Workers, NEW v \in Workers, work'[u].op = "grant",
               work'[v].op = "grant", work'[u].lease = work'[v].lease
        PROVE  u = v
    <3> USE <2>2
    <3>   \A x \in {u, v} : work[x].op = "grant" /\ work'[x].lease = work[x].lease
      BY DEF GrantKept
    <3> QED BY DEF GrantFresh
  <2> QED BY <2>1, <2>2 DEF GrantFresh
<1>4. ASSUME NEW v \in Workers, v # w PROVE OpAt(v)' /\ PhaseOK(v)'
  <2>   OpAt(v) /\ PhaseOK(v) /\ WorkOK(v) /\ work'[v] = work[v]
    BY <1>4 DEF PhaseInv, WorkInv
  <2>   OpAt(v)'
    BY ZenonT(60) DEF OpAt
  <2>2. CASE HoldsBusy(v)
    <3>   lease'[work[v].lease].state = lease[work[v].lease].state
      BY <1>2, <1>4, <2>2, ZenonT(60) DEF HoldsBusy, WorkOK
    <3> QED BY DEF PhaseOK, live
  <2>3. CASE ~HoldsBusy(v)
    BY <2>3 DEF PhaseOK, HoldsBusy, CreatePath, BusySteps
  <2> QED BY <2>2, <2>3
<1> QED BY <1>1, <1>3, <1>4 DEF PhaseInv

\* What one step of an operation keeps.
PhaseStep(w) == StatesKept(w) /\ GrantKept(w) /\ OpAt(w)' /\ PhaseOK(w)'

\* Every step of an operation moves only the lease in its hands, and goes on
\* to a step at which the lease is still what the operation found.
LEMMA WorkPhase == ASSUME RInv, NEW w \in Workers, WorkStep(w) PROVE PhaseStep(w)
<1> DEFINE l == work[w].lease
<1>0. /\ work \in [Workers -> WorkRecord] /\ lease \in [Leases -> LeaseRecord]
      /\ WorkOK(w) /\ OpAt(w) /\ PhaseOK(w) /\ TypeOK
      /\ work[w].op \in BusyOps \cup {"grant"} => l \in Leases
      /\ HoldsBusy(w) /\ l \notin released => lease[l].state # "none"
  BY ZenonT(60)
  DEF RInv, IInv, TypeOK, WorkInv, PhaseInv, StoreGranted, WorkOK, HoldsBusy
<1>   UNCHANGED <<inStore, released, lease>> => StatesKept(w)
  BY StatesQuiet, ZenonT(60)
<1> USE <1>0 DEF PhaseStep, GrantKept, OpAt, PhaseOK, live, WorkRecord, IdleWork, BusyOps,
    BusySteps, CreateSteps, CreatePath, CreatingOps, PausingOps, memVars
<1>1. CASE Begin(w)
  BY <1>1 DEF Begin, BeginPasses, Goto, FirstStep, WorkOK, RInv, StoreGranted, LeaseRecord, LeaseStates
<1>2. CASE EndBusy(w)
  BY <1>2, ZenonT(60) DEF EndBusy
<1>d. ASSUME NEW step \in {"paused", "ckptResume"}, NEW b, UNCHANGED memVars,
             work' = [work EXCEPT ![w] = [@ EXCEPT !.pc = step, !.build = b]],
             work[w].pc = IF step = "paused" THEN "pause" ELSE "ckpt"
      PROVE  PhaseStep(w)
  <2> USE <1>d
  <2>   /\ work'[w].pc = step /\ work'[w].op = work[w].op /\ work'[w].lease = work[w].lease
        /\ UNCHANGED <<inStore, released, lease>>
    OBVIOUS
  <2>2. CASE step = "paused"
    BY <2>2
  <2>3. CASE step = "ckptResume"
    BY <2>3 DEF WorkOK
  <2> QED BY <2>2, <2>3
<1>e. ASSUME Leave(w), UNCHANGED <<inStore, released, lease>> PROVE PhaseStep(w)
  BY <1>e DEF Leave
<1>m. ASSUME UNCHANGED <<inStore, released, lease>>, work[w].pc \in CreatePath,
             NEW step \in CreateSteps, Goto(w, step)
      PROVE  PhaseStep(w)
  <2>1. work'[w].pc = step /\ work'[w].op = work[w].op /\ work'[w].lease = work[w].lease
    BY <1>m DEF Goto
  <2>2. StatesKept(w) /\ lease' = lease /\ released' = released
    BY <1>m, ZenonT(60)
  <2>3. GrantKept(w)
    BY <1>m, <2>1, <2>2, ZenonT(60)
  <2> QED BY <1>m, <2>1, <2>2, <2>3
<1>3. CASE Pause(w)
  <2> HIDE DEF PhaseStep
  <2> QED BY ZenonT(60), <1>3, <1>d, <1>e DEF Pause
<1>b. ASSUME CreateFailed(w), UNCHANGED memVars, work[w].pc \in CreatePath
      PROVE  PhaseStep(w)
  <2> USE <1>b
  <2>1. CASE work[w].op = "recover"
    <3> USE <2>1
    <3>   /\ work'[w].pc = "failed" /\ work'[w].op = "recover" /\ work'[w].lease = l
          /\ UNCHANGED <<inStore, released, lease>>
      BY DEF CreateFailed, Goto
    <3>   l \notin released => lease[l].state \in {"running", "recovered"}
      OBVIOUS
    <3> QED OBVIOUS
  <2>2. CASE work[w].op # "recover"
    BY <2>2 DEF CreateFailed, Leave
  <2> QED BY <2>1, <2>2, ZenonT(60)
<1>c. ASSUME NEW s, NEW build, UNCHANGED memVars, work[w].pc \in CreatePath,
             work' = [work EXCEPT ![w] = [@ EXCEPT !.pc = "create", !.id = s, !.build = build]]
      PROVE  PhaseStep(w)
  BY <1>c
<1>5. CASE Admit(w)
  <2> USE <1>5
  <2>   work[w].pc \in CreatePath /\ UNCHANGED memVars
    BY ZenonT(60) DEF Admit
  <2>2. CASE CreateFailed(w)
    BY <1>b, <2>2, ZenonT(60)
  <2>3. CASE \E s : work' = [work EXCEPT ![w] = [@ EXCEPT !.pc = "create", !.id = s,
                                                         !.build = SourceBuild(w)]]
    <3>   PICK s : work' = [work EXCEPT ![w] = [@ EXCEPT !.pc = "create", !.id = s,
                                                          !.build = SourceBuild(w)]]
      BY <2>3, ZenonT(60)
    <3> HIDE DEF PhaseStep, CreatePath, memVars
    <3> QED BY <1>c, ZenonT(60)
  <2> QED BY ZenonT(60), <2>2, <2>3 DEF Admit
<1>6. CASE Create(w)
  <2> USE <1>6
  <2>   work[w].pc \in CreatePath /\ UNCHANGED memVars
    BY ZenonT(60) DEF Create
  <2>2. CASE CreateFailed(w)
    BY <1>b, <2>2, ZenonT(60)
  <2>3. CASE Goto(w, "check")
    BY <1>m, <2>3, ZenonT(60)
  <2> QED BY ZenonT(60), <2>2, <2>3 DEF Create
<1>7. CASE Check(w)
  <2>1. work[w].pc \in CreatePath /\ UNCHANGED memVars
    BY <1>7, ZenonT(60) DEF Check
  <2>2. CASE Leave(w)
    BY <1>e, <2>1, <2>2, ZenonT(60)
  <2>3. CASE \E step \in CreateSteps : Goto(w, step)
    BY <1>m, <2>1, <2>3, ZenonT(60)
  <2> QED
    <3> HIDE DEF PhaseStep, memVars, CreatePath
    <3> QED BY <1>7, <2>2, <2>3 DEF Check, StopFresh
<1>8. CASE Probe(w)
  BY <1>8 DEF Probe, StopFresh, Leave, Goto
<1>9. CASE DropOld(w)
  BY <1>9 DEF DropOld, StopFresh, Leave, Goto
<1>10. CASE DropFirst(w)
  BY <1>10 DEF DropFirst, Leave, Goto
<1>12. CASE EndCreate(w)
  BY <1>12 DEF EndCreate, Leave
<1>13. CASE Pop(w)
  <2> USE <1>13
  <2>   work[w].op = "grant" /\ work[w].pc = "pop" /\ UNCHANGED <<inStore, released, lease>>
    BY ZenonT(60) DEF Pop, WorkOK
  <2>1. CASE Goto(w, "admit")
    BY <2>1 DEF Goto
  <2>2. ASSUME NEW s, work' = [work EXCEPT ![w] = [@ EXCEPT !.pc = "validate", !.id = s]]
        PROVE  PhaseStep(w)
    <3>   work'[w].pc = "validate" /\ work'[w].op = "grant" /\ work'[w].lease = l
      BY <2>2
    <3> QED OBVIOUS
  <2> HIDE DEF PhaseStep
  <2> QED BY ZenonT(60), <2>1, <2>2 DEF Pop
<1>14. CASE Validate(w)
  BY <1>14 DEF Validate, Goto, Leave, WorkOK
<1>15. CASE Checkpoint(w)
  <2> HIDE DEF PhaseStep
  <2> QED BY ZenonT(60), <1>15, <1>d, <1>e DEF Checkpoint
<1>16. CASE CheckpointResume(w)
  BY <1>16 DEF CheckpointResume, Leave, Goto
<1>19. CASE Crash(w)
  BY <1>19, ZenonT(60) DEF Crash, WorkOK
<1>20. CASE Recover(w)
  BY <1>20 DEF Recover, Goto
<1>21. CASE RetryFailed(w)
  BY <1>21 DEF RetryFailed, Leave, Goto
<1>23. CASE StopLost(w)
  BY <1>23 DEF StopLost, Leave
<1>24. CASE ReleaseDelete(w)
  BY <1>24, ZenonT(60) DEF ReleaseDelete, Goto, WorkOK
<1>25. CASE ReleaseDrop(w)
  BY <1>25 DEF ReleaseDrop, StatesKept
<1>4. CASE Paused(w)
  <2> USE <1>4
  <2> DEFINE r == [lease[l] EXCEPT !.state = "suspended", !.resumeBuild = work[w].build]
  <2>1. HoldsBusy(w) /\ l \in Leases /\ r \in LeaseRecord /\ r.state = "suspended"
    BY ZenonT(60) DEF Paused, HoldsBusy, LeaseRecord, LeaseStates
  <2>2. CASE Save(l, r) /\ \E step \in (IF work[w].op = "suspend" THEN {"endBusy"}
                                          ELSE IF work[w].op = "restart" THEN {"admit"}
                                          ELSE {"endBusy", "admit"}) : Goto(w, step)
    <3> USE <2>2
    <3>   StatesKept(w) /\ lease'[l].state = "suspended" /\ UNCHANGED released
      BY <2>1, StatesSaved, ZenonT(60) DEF Paused
    <3> QED BY DEF Paused, Goto
  <2>3. CASE Leave(w) /\ UNCHANGED lease
    BY <2>3 DEF Paused, Leave
  <2> QED BY ZenonT(60), <2>2, <2>3 DEF Paused
<1>11. CASE Commit(w)
  <2> USE <1>11
  <2>c. work[w].pc \in CreatePath /\ UNCHANGED released
    BY ZenonT(60) DEF Commit
  <2>1. CASE work[w].op = "fill"
    <3>1. Goto(w, "endCreate") /\ UNCHANGED <<inStore, lease>>
      BY <2>1, ZenonT(60) DEF Commit
    <3> QED BY <1>m, <2>c, <3>1, ZenonT(60)
  <2>2. CASE StopFresh(w, {work[w].id}) /\ UNCHANGED <<inStore, lease>>
    <3>1. Leave(w)
      BY <2>2, ZenonT(60) DEF StopFresh
    <3> QED BY <1>e, <2>2, <2>c, <3>1, ZenonT(60)
  <2>3. CASE /\ work[w].op # "fill" /\ Save(l, Committed(w)) /\ Goto(w, "endCreate")
             /\ inStore' = inStore \cup (IF work[w].op = "grant" THEN {l} ELSE {})
    <3> USE <2>3
    <3>   /\ work[w].op \in BusyOps \cup {"grant"} /\ l \in Leases /\ work[w].id \in Sandboxes
          /\ HoldsBusy(w) \/ (work[w].op = "grant" /\ work[w].pc = "commit")
      BY ZenonT(60) DEF Commit, WorkOK, Holds, HoldsBusy
    <3>   Committed(w) \in LeaseRecord /\ Committed(w).state # "none"
      BY CommittedType, CommittedHeld, ZenonT(60)
    <3>   StatesKept(w)
      BY StatesSaved, ZenonT(60) DEF Commit
    <3> QED BY DEF Commit, Goto
  <2> QED BY ZenonT(60), <2>1, <2>2, <2>3 DEF Commit
<1>17. CASE CheckpointRecord(w)
  <2> USE <1>17
  <2>   UNCHANGED <<inStore, released>> /\ \A k \in Leases : lease'[k].state = lease[k].state
    BY DEF CheckpointRecord, Save, LeaseRecord
  <2> QED BY DEF CheckpointRecord, Leave, StatesKept
<1>18. CASE Mark(w)
  <2> USE <1>18
  <2>   UNCHANGED <<inStore, released, lease>>
    BY DEF Mark, Save
  <2> QED BY DEF Mark, Goto
<1>22. CASE Lose(w)
  <2> USE <1>22
  <2> DEFINE r == [lease[l] EXCEPT !.state = "lost"]
  <2>1. HoldsBusy(w) /\ l \in Leases /\ r \in LeaseRecord /\ r.state = "lost"
    BY ZenonT(60) DEF Lose, HoldsBusy, LeaseRecord, LeaseStates
  <2>2. CASE Save(l, r) /\ Goto(w, "stopLost")
    <3> USE <2>2
    <3>   StatesKept(w)
      BY <2>1, StatesSaved, ZenonT(60) DEF Lose
    <3> QED BY DEF Lose, Goto
  <2>3. CASE Leave(w) /\ UNCHANGED lease
    BY <2>3 DEF Lose, Leave
  <2> QED BY ZenonT(60), <2>2, <2>3 DEF Lose
<1> QED
  BY ZenonT(60), <1>1, <1>2, <1>3, <1>4, <1>5, <1>6, <1>7, <1>8, <1>9, <1>10, <1>11, <1>12, <1>13,
     <1>14, <1>15, <1>16, <1>17, <1>18, <1>19, <1>20, <1>21, <1>22, <1>23, <1>24, <1>25 DEF
     WorkStep

\* A goroutine that starts an operation starts it at a step of that operation,
\* on a lease in the state the operation needs.
LEMMA StartPhase ==
    ASSUME RInv, NEW w \in Workers, NEW op, NEW l, NEW step, NEW build, Start(w, op, l, step, build),
           UNCHANGED <<inStore, released, lease>>,
           \/ step = "found" /\ op \in {"suspend", "resume", "use", "checkpoint", "restore", "crashTest"}
           \/ step = "admit" /\ (op = "cold" \/ (op = "restart" /\ lease[l].state = "suspended"))
           \/ step = "dropFirst" /\ op = "fresh"
           \/ step = "pause" /\ op \in PausingOps
           \/ step = "mark" /\ op = "probe" /\ live(l)
           \/ step = "recover" /\ op = "recover" /\ live(l)
    PROVE  StoreGranted' /\ GrantFresh' /\ PhaseInv'
<1>   /\ work'[w].pc = step /\ work'[w].op = op /\ work'[w].lease = l
      /\ \A v \in Workers \ {w} : work'[v] = work[v]
  BY DEF RInv, IInv, TypeOK, Start
<1>2. op # "grant"
  BY DEF PausingOps
<1>3. OpAt(w)'
  BY DEF OpAt, CreateSteps, CreatingOps, PausingOps
<1>   PhaseOK(w)'
  BY DEF PhaseOK, CreateSteps, CreatePath, PausingOps, live
<1>   StatesKept(w) /\ GrantKept(w)
  BY <1>2, StatesQuiet DEF GrantKept
<1> QED BY <1>3, PhaseFrame

\* The reconcile passes over its next target, or starts to recover it.
LEMMA NextTarget ==
    ASSUME work \in [Workers -> WorkRecord], NEW l, ReconcileNext(l)
    PROVE  /\ work[Reconciler].pc = "next" /\ UNCHANGED startup
           /\ \A v \in Workers \ {Reconciler} : work'[v] = work[v]
           /\ \/ work'[Reconciler] = work[Reconciler]
              \/ work'[Reconciler].pc = "recover" /\ work'[Reconciler].op = "recover"
<1>   /\ work[Reconciler].pc = "next" /\ UNCHANGED startup
      /\ UNCHANGED work \/ Start(Reconciler, "recover", l, "recover", NoBuild)
  BY ZenonT(60) DEF ReconcileNext, bootVars
<1>2. CASE Start(Reconciler, "recover", l, "recover", NoBuild)
  BY <1>2 DEF Start, Workers
<1> QED BY <1>2, ZenonT(60)

\* A guest that runs on was running, and leaves the others alone.
LEMMA GuestMoves ==
    ASSUME vm \in [Sandboxes -> VMs], NEW l, GuestRuns(l)
    PROVE  /\ vm[lease[l].sandbox] # NoVM
           /\ \A s \in Sandboxes : s # lease[l].sandbox => vm'[s] = vm[s]
<1>   /\ vm[lease[l].sandbox] \in 0..(MaxMoment - 1)
      /\ vm' = [vm EXCEPT ![lease[l].sandbox] = @ + 1]
  BY ZenonT(60) DEF GuestRuns
<1> QED BY BoundAssumption DEF NoVM

\* A handler taking up a request: a grant of a lease nobody knows, a look at
\* a lease before busy is set, or busy taken with what the request needs.
LEMMA RequestPhase ==
    ASSUME RInv, NEW w \in Handlers, Request(w)
    PROVE  StoreGranted' /\ GrantFresh' /\ PhaseInv'
<1>0. /\ w \in Workers /\ work \in [Workers -> WorkRecord] /\ TypeOK /\ StoreGranted /\ GrantFresh
      /\ PhaseInv /\ WorkInv
  BY DEF RInv, IInv, TypeOK, Workers
<1> USE <1>0 DEF Start, Idle, memVars
<1>1. ASSUME UNCHANGED <<inStore, released, lease>>, work'[w].op # "grant", OpAt(w)', PhaseOK(w)',
             \A v \in Workers \ {w} : work'[v] = work[v]
      PROVE  StoreGranted' /\ GrantFresh' /\ PhaseInv'
  BY <1>1, StatesQuiet, PhaseFrame, ZenonT(60) DEF GrantKept
<1>2. CASE Fill(w)
  BY <1>1, <1>2, ZenonT(60) DEF Fill, OpAt, PhaseOK, BusyOps, BusySteps, CreateSteps, CreatingOps
<1>3. ASSUME NEW l \in Leases, Grant(w, l) PROVE StoreGranted' /\ GrantFresh' /\ PhaseInv'
  <2>   /\ UNCHANGED <<inStore, released, lease>> /\ lease[l].state = "none"
        /\ \A v \in Workers : work[v].lease # l
        /\ work' = [work EXCEPT ![w] = [pc |-> "pop", op |-> "grant", lease |-> l,
                                        id |-> NoSandbox, build |-> ImageBuild]]
    BY <1>3 DEF Grant
  <2>2. StoreGranted' /\ GrantFresh'
    BY ZenonT(60) DEF StoreGranted, GrantFresh
  <2>   OpAt(w)' /\ PhaseOK(w)'
    BY DEF OpAt, PhaseOK, BusyOps, BusySteps, CreateSteps
  <2>4. ASSUME NEW v \in Workers, v # w PROVE OpAt(v)' /\ PhaseOK(v)'
    BY <2>4, ZenonT(60) DEF PhaseInv, OpAt, PhaseOK, live
  <2> QED BY <2>2, <2>4, ZenonT(60) DEF PhaseInv
<1>4. ASSUME NEW l \in Leases, Restart(w, l) PROVE StoreGranted' /\ GrantFresh' /\ PhaseInv'
  <2> USE <1>4
  <2>   UNCHANGED <<inStore, released, lease>>
    BY ZenonT(60) DEF Restart
  <2>   PICK op \in {"cold", "fresh", "restart"}, step \in {"admit", "dropFirst", "pause"} :
          /\ Start(w, op, l, step, NoBuild)
          /\ op = "cold" => step = "admit"
          /\ op = "fresh" => step = "dropFirst"
          /\ op = "restart" => step = IF lease[l].state = "suspended" THEN "admit" ELSE "pause"
    BY ZenonT(60) DEF Restart
  <2> QED BY StartPhase, ZenonT(60) DEF PausingOps
<1>5. ASSUME NEW l \in Leases, Release(w, l) PROVE StoreGranted' /\ GrantFresh' /\ PhaseInv'
  <2>   /\ UNCHANGED <<inStore, lease>> /\ released' = released \cup {l} /\ l \in inStore
        /\ work' = [work EXCEPT ![w] = [pc |-> "relDelete", op |-> "release", lease |-> l,
                                        id |-> NoSandbox, build |-> NoBuild]]
    BY <1>5 DEF Release
  <2>2. StoreGranted' /\ GrantFresh'
    BY ZenonT(60) DEF StoreGranted, GrantFresh
  <2>   OpAt(w)' /\ PhaseOK(w)'
    BY DEF OpAt, PhaseOK, BusyOps, BusySteps, CreateSteps
  <2>4. ASSUME NEW v \in Workers, v # w PROVE OpAt(v)' /\ PhaseOK(v)'
    BY <2>4, ZenonT(60) DEF PhaseInv, OpAt, PhaseOK, live
  <2> QED BY <2>2, <2>4 DEF PhaseInv
<1>6. ASSUME NEW l \in Leases, NEW op \in Ops, Lookup(w, l, op)
      PROVE  StoreGranted' /\ GrantFresh' /\ PhaseInv'
  <2>   /\ UNCHANGED <<inStore, released, lease>> /\ op # "grant"
        /\ \E build : Start(w, op, l, "found", build)
        /\ op \in {"suspend", "resume", "use", "checkpoint", "restore", "crashTest"}
    BY <1>6, ZenonT(60) DEF Lookup
  <2> QED BY StartPhase, ZenonT(60) DEF PausingOps
<1>7. ASSUME NEW l \in Leases, NEW op \in Ops, Seize(w, l, op)
      PROVE  StoreGranted' /\ GrantFresh' /\ PhaseInv'
  <2>   /\ UNCHANGED <<inStore, released, lease>> /\ live(l) /\ op \in {"takeBack", "probe"}
        /\ Start(w, op, l, IF op = "probe" THEN "mark" ELSE "pause", NoBuild)
    BY <1>7 DEF Seize
  <2> QED BY StartPhase, ZenonT(60) DEF PausingOps
<1> QED BY <1>2, <1>3, <1>4, <1>5, <1>6, <1>7 DEF Request

\* The reconcile takes busy of a live lease; the sweep, the guests and the
\* node touch neither leases nor goroutines.
LEMMA OtherPhase ==
    ASSUME RInv,
           \/ Reconcile \/ Sweep
           \/ \E l \in Leases : GuestRuns(l)
           \/ \E s \in Sandboxes : VmCrash(s)
           \/ UNCHANGED vars
    PROVE  StoreGranted' /\ GrantFresh' /\ PhaseInv'
<1> DEFINE w == Reconciler
<1>0. /\ w \in Workers /\ work \in [Workers -> WorkRecord] /\ PhaseInv /\ WorkInv
  BY DEF RInv, IInv, TypeOK, Workers
<1> USE <1>0 DEF memVars
<1>1. ASSUME UNCHANGED <<inStore, released, lease>>, work'[w].op # "grant", OpAt(w)', PhaseOK(w)',
             \A v \in Workers \ {w} : work'[v] = work[v]
      PROVE  StoreGranted' /\ GrantFresh' /\ PhaseInv'
  BY <1>1, StatesQuiet, PhaseFrame DEF GrantKept
<1>g. ASSUME NEW step \in {"listed", "next"}, Goto(w, step), work[w].pc \in {"idle", "listed"}
      PROVE  /\ work'[w].op # "grant" /\ OpAt(w)' /\ PhaseOK(w)'
             /\ \A v \in Workers \ {w} : work'[v] = work[v]
  <2>1. work'[w] = [work[w] EXCEPT !.pc = step] /\ \A v \in Workers \ {w} : work'[v] = work[v]
    BY <1>g DEF Goto
  <2>2. work'[w].pc = step /\ work'[w].op = work[w].op
    BY <2>1 DEF WorkRecord
  <2>3. OpAt(w) /\ PhaseOK(w)
    BY DEF PhaseInv
  <2>4. work'[w].op = "none"
    BY <1>g, <2>2, <2>3, ZenonT(60) DEF OpAt
  <2>5. work'[w].pc \in {"listed", "next"}
    BY <1>g, <2>2, ZenonT(60)
  <2>6. OpAt(w)'
    BY <2>4, <2>5, ZenonT(60) DEF OpAt, CreateSteps
  <2>7. PhaseOK(w)'
    BY <2>4, ZenonT(60) DEF PhaseOK, BusyOps
  <2> QED BY <2>1, <2>4, <2>6, <2>7, ZenonT(60)
<1>2. CASE UNCHANGED <<inStore, released, lease, work>>
  BY <1>2, ZenonT(60) DEF RInv, StoreGranted, GrantFresh, PhaseInv, OpAt, PhaseOK, live
<1>3. CASE ReconcileList
  <2> USE <1>3
  <2>1. CASE Goto(w, "listed")
    BY <1>1, <1>g, <2>1, ZenonT(60) DEF ReconcileList
  <2> QED BY <1>2, <2>1 DEF ReconcileList
<1>4. CASE ReconcileTargets
  BY <1>1, <1>4, <1>g, ZenonT(60) DEF ReconcileTargets
<1>5. CASE ReconcileEnd
  BY <1>1, <1>5 DEF ReconcileEnd, IdleWork, OpAt, PhaseOK, BusyOps, BusySteps, CreateSteps
<1>6. ASSUME NEW l \in Leases, ReconcileNext(l) PROVE StoreGranted' /\ GrantFresh' /\ PhaseInv'
  <2> USE <1>6
  <2>1. CASE TrySetBusyPasses(l) /\ GenerationRoom(l)
    <3>   /\ UNCHANGED <<inStore, released, lease>> /\ live(l)
          /\ Start(w, "recover", l, "recover", NoBuild)
      BY <2>1, ZenonT(60) DEF ReconcileNext, TrySetBusyPasses
    <3> QED BY StartPhase
  <2> QED BY <1>2, <2>1, ZenonT(60) DEF ReconcileNext
<1>7. CASE \/ Sweep
           \/ \E l \in Leases : GuestRuns(l)
           \/ \E s \in Sandboxes : VmCrash(s)
           \/ UNCHANGED vars
  <2>   UNCHANGED <<memVars, work>>
    BY ZenonT(60), <1>7
    DEF Sweep, SweepStart, SweepClaims, SweepKill, SweepList, SweepFlight, SweepClassify,
       SweepEnd, SweepPick, SweepUnchanged, GuestRuns, VmCrash, vars
  <2> QED BY <1>2
<1> QED BY <1>3, <1>4, <1>5, <1>6, <1>7 DEF Reconcile

\* A step of an operation is its own goroutine's.
LEMMA WorkAlone ==
    ASSUME IInv, NEW w \in Workers, WorkStep(w)
    PROVE  \A v \in Workers \ {w} : work'[v] = work[v]
<1>1. CASE Begin(w) \/ EndBusy(w)
  BY <1>1 DEF Begin, EndBusy, Goto, IInv, TypeOK
<1>2. CASE ~Begin(w) /\ ~EndBusy(w)
  BY <1>2, WorkMoves, ZenonT(60) DEF Moves
<1> QED BY <1>1, <1>2

\* The invariant holds of the empty backend ...
LEMMA RInitInv == ASSUME Init PROVE RInv
BY InitInv DEF Init, RInv, StoreGranted, GrantFresh, PhaseInv, OpAt, PhaseOK, IdleWork, BusyOps,
   CreateSteps

\* ... and every step keeps it.
LEMMA RNextInv == ASSUME RInv, [Next]_vars PROVE RInv'
<1>1. IInv'
  BY NextInv, ZenonT(60) DEF RInv
<1>2. CASE BackendRestart
  <2>   /\ work' = [w \in Workers |-> IdleWork] /\ inStore' = rows /\ released' = released \ rows
        /\ lease' = [l \in Leases |-> IF l \in rows THEN row[l] ELSE lease[l]]
        /\ rows = inStore /\ \A l \in rows : l \in Leases /\ row[l] = lease[l]
        /\ released \subseteq Leases
    BY <1>2 DEF BackendRestart, RInv, IInv, TypeOK, RowsAgree
  <2>   StoreGranted'
    BY ZenonT(60) DEF RInv, StoreGranted
  <2>   GrantFresh' /\ PhaseInv'
    BY DEF GrantFresh, PhaseInv, OpAt, PhaseOK, IdleWork, BusyOps, CreateSteps
  <2> QED BY <1>1, ZenonT(60) DEF RInv
<1>3. ASSUME NEW w \in Workers, WorkStep(w) PROVE StoreGranted' /\ GrantFresh' /\ PhaseInv'
  BY <1>3, WorkAlone, WorkPhase, PhaseFrame, ZenonT(60) DEF PhaseStep, RInv
<1> QED BY <1>1, <1>2, <1>3, RequestPhase, OtherPhase DEF Next, RInv

\* An operation finds its lease, when it commits, as it found it when it
\* took busy, unless the lease was released.
THEOREM RefinementInvariance == Spec => []RInv
BY RInitInv, RNextInv, PTL DEF Spec

-----------------------------------------------------------------------------
(* The steps of the backend as steps of the contract. *)

\* What the contract shows of a table nobody wrote.
LEMMA ShownSame ==
    ASSUME UNCHANGED <<inStore, released, lease>>
    PROVE  UNCHANGED <<PhaseShown, GenShown, Leaving>>
BY DEF PhaseShown, GenShown, Leaving

\* What the contract shows of a lease that is saved in the table.
LEMMA ShownSaved ==
    ASSUME TypeOK, NEW l \in Leases, NEW r \in LeaseRecord, Save(l, r), l \in inStore',
           inStore' = inStore \cup {l}
    PROVE  /\ PhaseShown' = [PhaseShown EXCEPT ![l] = r.state]
           /\ GenShown' = [GenShown EXCEPT ![l] = r.generation]
BY ZenonT(60) DEF TypeOK, Save, PhaseShown, GenShown

\* A lease an operation has in hand, unreleased, is held in the contract too.
LEMMA ShownHeld ==
    ASSUME RInv, NEW l \in inStore \cup released
    PROVE  /\ l \in Leases /\ lease[l].state \in Contract!HeldPhases
           /\ PhaseShown[l] # "none" /\ GenShown[l] = lease[l].generation
           /\ l \in inStore => PhaseShown[l] = lease[l].state
BY ZenonT(60) DEF RInv, IInv, TypeOK, StoreGranted, PhaseShown, GenShown, Contract!HeldPhases,
   LeaseRecord, LeaseStates

\* Saving the lease in hand is a move of the contract.
LEMMA ShownMoves ==
    ASSUME RInv, NEW w \in Workers, HoldsBusy(w), work[w].lease \notin released,
           NEW r \in LeaseRecord, Save(work[w].lease, r), UNCHANGED <<released, busy>>,
           inStore' = inStore, NEW from, lease[work[w].lease].state \in from
    PROVE  Contract!Moves(work[w].lease, from, r.state, r.generation)
<1> DEFINE l == work[w].lease
<1>   l \in inStore /\ l \in Leases /\ l \in busy
  <2>   BusyExclusive /\ WorkOK(w) /\ inStore \subseteq Leases
    BY DEF RInv, IInv, TypeOK, WorkInv
  <2>   l \in inStore
    BY ZenonT(60) DEF WorkOK, HoldsBusy
  <2> QED BY ZenonT(60) DEF BusyExclusive
<1>   /\ PhaseShown' = [PhaseShown EXCEPT ![l] = r.state]
      /\ GenShown' = [GenShown EXCEPT ![l] = r.generation]
  BY ShownSaved DEF RInv, IInv
<1>   PhaseShown[l] = lease[l].state /\ lease[l].state \in Contract!HeldPhases
  BY ShownHeld
<1> QED BY DEF Contract!Moves, Contract!Held, Contract!HeldPhases, Leaving

\* A step of the backend is a step of the contract or none.
ContractStep == Contract!ContractNext \/ UNCHANGED Contract!contractVars

\* A step that writes neither the table nor a busy flag is none.
LEMMA StutterStep == ASSUME UNCHANGED <<inStore, released, lease, busy>> PROVE ContractStep
BY ShownSame DEF ContractStep, Contract!contractVars

\* Setting busy begins an operation.
LEMMA BeginStep ==
    ASSUME RInv, NEW l \in inStore \cup released, l \notin busy, busy' = busy \cup {l},
           UNCHANGED <<inStore, released, lease>>
    PROVE  ContractStep
<1>   l \in Leases /\ PhaseShown[l] # "none"
  BY ShownHeld
<1>   Contract!Begins(l)
  BY ShownSame DEF Contract!Begins
<1> QED BY DEF ContractStep, Contract!ContractNext

\* Every step of an operation is a step of the contract: the pause suspends,
\* the commit grants, resumes, recovers or replaces, a given-up recovery
\* loses, and the rest is not seen.
LEMMA WorkImplements == ASSUME RInv, NEW w \in Workers, WorkStep(w) PROVE ContractStep
<1> DEFINE l == work[w].lease
<1>0. /\ work \in [Workers -> WorkRecord] /\ lease \in [Leases -> LeaseRecord]
      /\ WorkOK(w) /\ OpAt(w) /\ PhaseOK(w) /\ TypeOK
      /\ work[w].op \in BusyOps \cup {"grant", "release"} => l \in Leases
      /\ work[w].op \in BusyOps => l \in inStore \cup released
  BY ZenonT(60) DEF RInv, IInv, TypeOK, WorkInv, PhaseInv, WorkOK
<1>1. CASE Begin(w)
  <2> USE <1>1
  <2>1. CASE BeginPasses(l, work[w].op)
    BY <1>0, <2>1, BeginStep, ZenonT(60) DEF Begin, BeginPasses, WorkOK
  <2> QED BY <2>1, StutterStep, ZenonT(60) DEF Begin
<1>2. CASE EndBusy(w)
  <2> USE <1>2
  <2>1. HoldsBusy(w)
    BY <1>0 DEF EndBusy, HoldsBusy, WorkOK, BusySteps
  <2>   l \in Leases /\ l \in busy
    BY <1>0, <2>1 DEF HoldsBusy, RInv, IInv, BusyExclusive
  <2>   Contract!Ends(l)
    BY ShownSame DEF EndBusy, Contract!Ends
  <2> QED BY DEF ContractStep, Contract!ContractNext
<1>3. CASE Paused(w)
  <2> DEFINE r == [lease[l] EXCEPT !.state = "suspended", !.resumeBuild = work[w].build]
  <2>1. CASE ~leaseReleased(l) /\ Save(l, r)
    <3>   HoldsBusy(w) /\ l \in Leases
      BY <1>0, <1>3 DEF Paused, HoldsBusy, WorkOK, BusySteps
    <3>   r \in LeaseRecord /\ r.state = "suspended" /\ r.generation = lease[l].generation
      <4>   work[w].build \in Builds /\ lease[l] \in LeaseRecord
        BY <1>0 DEF WorkRecord
      <4>   r \in LeaseRecord
        BY ZenonT(60) DEF LeaseRecord, LeaseStates
      <4>   r.state = "suspended" /\ r.generation = lease[l].generation
        BY DEF LeaseRecord
      <4> QED OBVIOUS
    <3>   /\ lease[l].state \in Contract!HeldPhases /\ GenShown[l] = lease[l].generation
      BY <1>0, ShownHeld DEF HoldsBusy
    <3>   Contract!Moves(l, Contract!HeldPhases, r.state, r.generation)
      BY <1>3, <2>1, ShownMoves, ZenonT(60) DEF Paused, leaseReleased
    <3>   Contract!Suspends(l)
      BY DEF Contract!Suspends
    <3> QED BY DEF ContractStep, Contract!ContractNext
  <2> QED BY ZenonT(60), <1>3, <2>1, StutterStep DEF Paused
<1>4. CASE Commit(w)
  <2>1. CASE /\ work[w].op # "fill" /\ ~leaseReleased(l) /\ Save(l, Committed(w))
             /\ inStore' = inStore \cup (IF work[w].op = "grant" THEN {l} ELSE {})
    <3> DEFINE r == Committed(w)
    <3>   /\ work[w].op \in BusyOps \cup {"grant"} /\ l \in Leases /\ work[w].id \in Sandboxes
          /\ work[w].op \in CreatingOps /\ work[w].pc \in CreatePath
          /\ work[w].op # "grant" => HoldsBusy(w)
          /\ UNCHANGED <<released, busy>> /\ l \notin released
          /\ work[w].op # "grant" => inStore' = inStore
      <4>   work[w].pc = "commit" /\ UNCHANGED <<released, busy>>
        BY <1>4, ZenonT(60) DEF Commit
      <4>   work[w].pc \in CreateSteps /\ work[w].pc \in CreatePath /\ Holds(w)
        BY DEF CreateSteps, CreatePath, Holds
      <4>   work[w].op \in BusyOps \cup {"grant"} /\ work[w].op \in CreatingOps
        BY <1>0, <2>1, ZenonT(60) DEF WorkOK, OpAt
      <4> QED BY <1>0, <2>1, ZenonT(60) DEF WorkOK, HoldsBusy, leaseReleased
    <3>2. r \in LeaseRecord
      BY <1>0, CommittedType
    <3>3. work[w].op # "grant" =>
             /\ lease[l].state \in Contract!HeldPhases /\ GenShown[l] = lease[l].generation
      BY <1>0, ShownHeld, ZenonT(60) DEF HoldsBusy
    <3>4. ASSUME work[w].op # "grant", NEW from, lease[l].state \in from
          PROVE  Contract!Moves(l, from, r.state, r.generation)
      BY <2>1, <3>2, <3>4, ShownMoves, ZenonT(60)
    <3>5. CASE work[w].op \in {"resume", "use", "restart", "takeBack"}
      <4> USE <3>5
      <4>1. lease[l].state \in {"suspended", "recovered"}
        BY <1>0 DEF PhaseOK, BusyOps
      <4>2. r.state = "running" /\ r.generation = lease[l].generation
        BY <1>0, ZenonT(60) DEF Committed, LeaseRecord
      <4>   Contract!Moves(l, {"suspended", "recovered"}, r.state, r.generation)
        BY <3>4, <4>1, ZenonT(60)
      <4>   Contract!Resumes(l)
        BY <3>3, <4>2 DEF Contract!Resumes
      <4> QED BY ZenonT(60) DEF ContractStep, Contract!ContractNext
    <3>6. CASE work[w].op = "recover"
      <4> USE <3>6
      <4>1. lease[l].state \in {"running", "recovered"}
        BY <1>0 DEF PhaseOK, BusyOps, live
      <4>2. r.state = "recovered" /\ r.generation = lease[l].generation + 1
        BY <1>0, ZenonT(60) DEF Committed, LeaseRecord
      <4>   Contract!Moves(l, {"running", "recovered"}, r.state, r.generation)
        BY <3>4, <4>1, ZenonT(60)
      <4>   Contract!Recovers(l)
        BY <3>3, <4>2 DEF Contract!Recovers
      <4> QED BY ZenonT(60) DEF ContractStep, Contract!ContractNext
    <3>7. CASE work[w].op \in {"fresh", "cold", "restore"}
      <4> USE <3>7
      <4>2. r.state = "running" /\ r.generation = lease[l].generation + 1
        BY <1>0 DEF Committed, LeaseRecord
      <4>   Contract!Moves(l, Contract!HeldPhases, r.state, r.generation)
        BY <3>3, <3>4, ZenonT(60)
      <4>   Contract!Replaces(l)
        BY <3>3, <4>2, ZenonT(60) DEF Contract!Replaces
      <4> QED BY ZenonT(60) DEF ContractStep, Contract!ContractNext
    <3>8. CASE work[w].op = "grant"
      <4>1. lease[l].state = "none"
        BY <1>4, <3>8, ZenonT(60) DEF Commit, RInv, GrantFresh
      <4>2. r.state = "running" /\ r.generation = 1
        BY <3>8, ZenonT(60) DEF Committed, NewLease
      <4>   inStore' = inStore \cup {l} /\ l \in inStore'
        BY <2>1, <3>8, ZenonT(60)
      <4>4. /\ PhaseShown' = [PhaseShown EXCEPT ![l] = "running"]
            /\ GenShown' = [GenShown EXCEPT ![l] = 1]
        BY <1>0, <2>1, <3>2, <4>2, ShownSaved
      <4>5. PhaseShown[l] = "none"
        BY <4>1, ZenonT(60) DEF PhaseShown
      <4>   UNCHANGED <<busy, Leaving>>
        BY ZenonT(60) DEF Leaving
      <4>   Contract!Granted(l)
        BY <4>4, <4>5, ZenonT(60) DEF Contract!Granted
      <4> QED BY ZenonT(60) DEF ContractStep, Contract!ContractNext
    <3> QED BY <2>1, <3>5, <3>6, <3>7, <3>8 DEF CreatingOps
  <2> QED BY ZenonT(60), <1>4, <2>1, StutterStep DEF Commit
<1>5. CASE CheckpointRecord(w)
  <2>   /\ UNCHANGED <<inStore, released, busy>>
        /\ \A k \in Leases : /\ lease'[k].state = lease[k].state
                             /\ lease'[k].generation = lease[k].generation
    BY <1>0, <1>5 DEF CheckpointRecord, Save, LeaseRecord, WorkOK, BusySteps
  <2> QED BY DEF ContractStep, Contract!contractVars, PhaseShown, GenShown, Leaving
<1>6. CASE Mark(w)
  <2>   UNCHANGED <<inStore, released, busy, lease>>
    BY <1>0, <1>6 DEF Mark, Save
  <2> QED BY StutterStep
<1>7. CASE Lose(w)
  <2> USE <1>7
  <2> DEFINE r == [lease[l] EXCEPT !.state = "lost"]
  <2>1. CASE ~leaseReleased(l) /\ Save(l, r)
    <3>   HoldsBusy(w) /\ l \in Leases /\ l \notin released
      BY <1>0, <2>1 DEF Lose, HoldsBusy, WorkOK, BusySteps, leaseReleased
    <3>   r \in LeaseRecord /\ r.state = "lost" /\ r.generation = lease[l].generation
      BY ZenonT(60), <1>0 DEF LeaseRecord, LeaseStates
    <3>   lease[l].state \in {"running", "recovered"} /\ GenShown[l] = lease[l].generation
      BY <1>0, ShownHeld DEF Lose, PhaseOK, live, HoldsBusy
    <3>   Contract!Moves(l, {"running", "recovered"}, r.state, r.generation)
      BY <2>1, ShownMoves, ZenonT(60) DEF Lose
    <3>   Contract!Loses(l)
      BY DEF Contract!Loses
    <3> QED BY DEF ContractStep, Contract!ContractNext
  <2> QED BY ZenonT(60), <2>1, StutterStep DEF Lose
<1>8. CASE ReleaseDrop(w)
  <2>   /\ l \in released /\ inStore' = inStore \ {l} /\ l \in Leases
        /\ UNCHANGED <<released, busy, lease>>
    BY <1>0, <1>8, ZenonT(60) DEF ReleaseDrop, WorkOK
  <2>2. CASE l \in inStore
    <3> USE <2>2
    <3>1. lease[l].state # "none"
      BY DEF RInv, StoreGranted
    <3>   /\ PhaseShown' = [PhaseShown EXCEPT ![l] = "gone"] /\ UNCHANGED GenShown
          /\ l \in Leaving /\ Leaving' = Leaving \ {l}
      BY <3>1, ZenonT(60) DEF PhaseShown, GenShown, Leaving
    <3>   Contract!Gone(l)
      BY DEF Contract!Gone
    <3> QED BY DEF ContractStep, Contract!ContractNext
  <2>3. CASE l \notin inStore
    BY <2>3, StutterStep
  <2> QED BY <2>2, <2>3
<1>9. CASE \/ Pause(w) \/ Admit(w) \/ Create(w) \/ Check(w) \/ Probe(w) \/ DropOld(w)
           \/ DropFirst(w) \/ EndCreate(w) \/ Pop(w) \/ Validate(w)
  BY ZenonT(60), <1>9, StutterStep
  DEF Pause, Admit, Create, Check, Probe, DropOld, DropFirst, EndCreate, Pop, Validate, memVars
<1>10. CASE \/ Checkpoint(w) \/ CheckpointResume(w) \/ Crash(w) \/ Recover(w)
            \/ RetryFailed(w) \/ StopLost(w) \/ ReleaseDelete(w)
  BY ZenonT(60), <1>10, StutterStep
  DEF Checkpoint, CheckpointResume, Crash, Recover, RetryFailed, StopLost, ReleaseDelete, memVars
<1> QED BY <1>1, <1>2, <1>3, <1>4, <1>5, <1>6, <1>7, <1>8, <1>9, <1>10 DEF WorkStep

\* Every step of the backend is a step of the contract.
LEMMA StepImplements == ASSUME RInv, [Next]_vars PROVE ContractStep
<1>0. inStore \subseteq Leases /\ released \subseteq Leases
  BY DEF RInv, IInv, TypeOK
<1>1. ASSUME NEW w \in Handlers, Request(w) PROVE ContractStep
  <2>1. ASSUME NEW l \in Leases, Release(w, l) PROVE ContractStep
    <3>   l \in inStore \ released /\ released' = released \cup {l} /\ UNCHANGED <<inStore, busy, lease>>
      BY <2>1 DEF Release
    <3>2. PhaseShown[l] \notin {"none", "gone"}
      BY ShownHeld DEF Contract!HeldPhases
    <3>   UNCHANGED <<PhaseShown, GenShown>> /\ l \notin Leaving /\ Leaving' = Leaving \cup {l}
      BY DEF PhaseShown, GenShown, Leaving
    <3>   Contract!Leaves(l)
      BY <3>2 DEF Contract!Leaves, Contract!Held
    <3> QED BY DEF ContractStep, Contract!ContractNext
  <2>2. ASSUME NEW l \in Leases, Restart(w, l) PROVE ContractStep
    BY <2>2, BeginStep, ZenonT(60) DEF Restart
  <2>3. ASSUME NEW l \in Leases, NEW op \in Ops, Seize(w, l, op) PROVE ContractStep
    BY <2>3, BeginStep DEF Seize
  <2>4. ASSUME \/ Fill(w) \/ \E l \in Leases : Grant(w, l)
               \/ \E l \in Leases, op \in Ops : Lookup(w, l, op)
        PROVE  ContractStep
    BY ZenonT(60), <2>4, StutterStep DEF Fill, Grant, Lookup, memVars
  <2> QED BY <1>1, <2>1, <2>2, <2>3, <2>4 DEF Request
<1>2. CASE Reconcile
  <2>1. ASSUME NEW l \in Leases, ReconcileNext(l) PROVE ContractStep
    <3> USE <2>1
    <3>1. CASE TrySetBusyPasses(l) /\ GenerationRoom(l)
      <4> USE <3>1
      <4>   l \in inStore \cup released /\ l \notin busy
        BY ZenonT(60) DEF ReconcileNext, TrySetBusyPasses, RInv, IInv, TargetsKnown
      <4> QED BY BeginStep, ZenonT(60) DEF ReconcileNext
    <3> QED BY <3>1, StutterStep, ZenonT(60) DEF ReconcileNext
  <2> QED BY ZenonT(60), <1>2, <2>1, StutterStep
    DEF Reconcile, ReconcileList, ReconcileTargets, ReconcileEnd, memVars
<1>3. CASE BackendRestart
  <2>   /\ inStore' = inStore /\ released' = released \ inStore /\ busy' = {}
        /\ \A l \in Leases : lease'[l] = lease[l]
    BY <1>3, ZenonT(60) DEF BackendRestart, RInv, IInv, RowsAgree
  <2>   UNCHANGED <<PhaseShown, GenShown>> /\ Leaving' = {}
    BY DEF PhaseShown, GenShown, Leaving
  <2>   Contract!Restarts
    BY ZenonT(60) DEF Contract!Restarts
  <2> QED BY ZenonT(60) DEF ContractStep, Contract!ContractNext
<1>4. CASE \/ Sweep
           \/ \E l \in Leases : GuestRuns(l)
           \/ \E s \in Sandboxes : VmCrash(s)
           \/ UNCHANGED vars
  <2>   UNCHANGED memVars
    BY ZenonT(60), <1>4
    DEF Sweep, SweepStart, SweepClaims, SweepKill, SweepList, SweepFlight, SweepClassify,
       SweepEnd, SweepPick, SweepUnchanged, GuestRuns, VmCrash, vars
  <2> QED BY StutterStep DEF memVars
<1> QED BY <1>1, <1>2, <1>3, <1>4, WorkImplements DEF Next

\* The backend implements its contract, for any number of leases, sandboxes,
\* goroutines and restarts and any set of faults: a lease's phase and
\* generation move only in the hands of the operation that set its busy
\* flag, only from the phase that operation needs, never once its release
\* has begun, and LoadState brings back what the table held.
THEOREM BackendImplementsContract == Spec => ImplementsContract
<1>1. Init => Contract!ContractInit
  BY DEF Init, NewLease, Contract!ContractInit, PhaseShown, GenShown, Leaving
<1>2. RInv /\ [Next]_vars => [Contract!ContractNext]_Contract!contractVars
  BY StepImplements DEF ContractStep
<1> QED BY <1>1, <1>2, RefinementInvariance, PTL DEF Spec, ImplementsContract, Contract!ContractSpec

-----------------------------------------------------------------------------
(* No operation but a suspend or a restore works on a lost lease. *)

\* The steps from which an operation may still give its lease a guest, or
\* lose it.
AliveSteps == CreatePath \cup {"pause", "paused", "dropFirst", "mark", "crash", "recover",
                               "failed", "lose"}

\* An operation at such a step works on a lease that was not lost when it
\* took busy, and is not now, released or not.  A suspend and a restore do
\* not look again once they have found the lease.
AliveOK(w) ==
    work[w].op \in BusyOps \ {"suspend", "restore"} /\ work[w].pc \in AliveSteps =>
        lease[work[w].lease].state # "lost"

AliveInv == \A w \in Workers : AliveOK(w)

AInv == RInv /\ AliveInv

\* A step of one goroutine leaves alone the state of a lease that another
\* has in hand.
LEMMA HeldApart ==
    ASSUME RInv, NEW w \in Workers, StatesKept(w), NEW v \in Workers \ {w}, HoldsBusy(v)
    PROVE  lease'[work[v].lease].state = lease[work[v].lease].state
<1>   work[v].lease \in Leases /\ lease[work[v].lease].state # "none"
  BY ZenonT(60) DEF RInv, IInv, TypeOK, HoldsBusy, WorkInv, WorkOK, StoreGranted
<1>2. CASE HoldsBusy(w) /\ work[v].lease = work[w].lease
  BY <1>2 DEF RInv, IInv, BusyExclusive
<1>3. CASE work[w].op = "grant" /\ work[w].pc = "commit" /\ work[v].lease = work[w].lease
  BY <1>3, ZenonT(60) DEF RInv, GrantFresh
<1> QED BY <1>2, <1>3, ZenonT(60) DEF StatesKept

\* So an operation's own step is all that can take it to a lost lease.
LEMMA AliveFrame ==
    ASSUME AInv, NEW w \in Workers, StatesKept(w), AliveOK(w)',
           \A v \in Workers \ {w} : work'[v] = work[v]
    PROVE  AliveInv'
<1>1. ASSUME NEW v \in Workers \ {w} PROVE AliveOK(v)'
  <2>1. CASE work[v].op \in BusyOps /\ work[v].pc \in AliveSteps
    <3>   HoldsBusy(v)
      BY <2>1, ZenonT(60) DEF HoldsBusy, AliveSteps, CreatePath, BusySteps
    <3>   lease'[work[v].lease].state = lease[work[v].lease].state
      BY HeldApart DEF AInv
    <3> QED BY ZenonT(60) DEF AInv, AliveInv, AliveOK
  <2> QED BY <2>1 DEF AliveOK
<1> QED BY <1>1 DEF AliveInv

\* It never does.
LEMMA WorkAlive == ASSUME AInv, NEW w \in Workers, WorkStep(w) PROVE AliveOK(w)'
<1> DEFINE l == work[w].lease
<1>0. /\ work \in [Workers -> WorkRecord] /\ lease \in [Leases -> LeaseRecord]
      /\ WorkOK(w) /\ OpAt(w) /\ AliveOK(w)
      /\ work[w].op \in BusyOps => l \in Leases
  BY ZenonT(60) DEF AInv, AliveInv, RInv, IInv, TypeOK, WorkInv, PhaseInv, WorkOK
<1>a. Leave(w) => AliveOK(w)'
  BY <1>0 DEF Leave, AliveOK, AliveSteps, CreatePath, CreateSteps, IdleWork, WorkRecord
<1>b. \A step : Goto(w, step) /\ step \notin AliveSteps => AliveOK(w)'
  BY <1>0 DEF Goto, AliveOK, WorkRecord
<1>c. \A step : Goto(w, step) /\ work[w].pc \in AliveSteps /\ UNCHANGED lease => AliveOK(w)'
  BY <1>0, ZenonT(60) DEF Goto, AliveOK, WorkRecord
<1>d. work' = [work EXCEPT ![w] = IdleWork] => AliveOK(w)'
  <2>1. IdleWork.op \notin BusyOps
    BY DEF IdleWork, BusyOps
  <2> QED BY <1>0, <2>1, ZenonT(60) DEF AliveOK
<1>e. {"stopLost", "endCreate", "ckptRecord", "relDrop", "endBusy", "pop", "ckptResume"} \cap AliveSteps = {}
  BY DEF AliveSteps, CreatePath, CreateSteps
<1>f. {"admit", "create", "check", "probe", "dropOld", "commit", "dropFirst", "mark",
       "recover", "failed", "lose", "pause", "paused", "crash"} \subseteq AliveSteps
  BY DEF AliveSteps, CreatePath, CreateSteps
<1> USE DEF memVars
<1>1. CASE Begin(w)
  BY <1>0, <1>1, <1>d DEF Begin, BeginPasses, Goto, FirstStep, OpAt, AliveOK, AliveSteps,
     CreatePath, CreateSteps, WorkRecord, live
<1>2. CASE EndBusy(w)
  BY <1>0, <1>2 DEF EndBusy, AliveOK, IdleWork, BusyOps
<1>3. CASE Pause(w)
  <2>1. \A b : work' = [work EXCEPT ![w] = [@ EXCEPT !.pc = "paused", !.build = b]] => AliveOK(w)'
    BY <1>0, <1>3, <1>f DEF Pause, AliveOK, WorkRecord
  <2> QED BY ZenonT(60), <1>3, <1>a, <2>1 DEF Pause
<1>4. CASE Paused(w)
  <2>1. CASE Leave(w)
    BY <1>a, <2>1
  <2>2. CASE /\ Save(l, [lease[l] EXCEPT !.state = "suspended", !.resumeBuild = work[w].build])
             /\ \E step : Goto(w, step)
    <3>1. l \in Leases
      BY <1>0, <1>4 DEF Paused, WorkOK, BusySteps
    <3>2. lease'[l].state = "suspended"
      BY <1>0, <2>2, <3>1 DEF Save, LeaseRecord
    <3>3. work'[w].lease = l
      BY <1>0, <2>2 DEF Goto, WorkRecord
    <3> QED BY <3>2, <3>3 DEF AliveOK
  <2> QED BY ZenonT(60), <1>4, <2>1, <2>2 DEF Paused
<1>5. CASE Admit(w)
  <2>1. ASSUME NEW s, NEW b,
               work' = [work EXCEPT ![w] = [@ EXCEPT !.pc = "create", !.id = s, !.build = b]]
        PROVE  AliveOK(w)'
    <3>1. work'[w].op = work[w].op /\ work'[w].lease = l
      BY <1>0, <2>1 DEF WorkRecord
    <3>2. work[w].pc \in AliveSteps /\ lease' = lease
      BY <1>5, <1>f, ZenonT(60) DEF Admit
    <3> QED BY <1>0, <3>1, <3>2 DEF AliveOK
  <2> QED BY ZenonT(60), <1>5, <1>a, <1>c, <1>f, <2>1 DEF Admit, CreateFailed
<1>6. CASE Create(w) \/ Check(w) \/ Probe(w) \/ DropOld(w) \/ DropFirst(w)
  BY ZenonT(60), <1>6, <1>a, <1>c, <1>f
  DEF Create, CreateFailed, Check, Probe, DropOld, DropFirst, StopFresh
<1>7. CASE Commit(w) \/ EndCreate(w)
  BY ZenonT(60), <1>7, <1>a, <1>b, <1>e DEF Commit, EndCreate, StopFresh
<1>8. CASE Pop(w) \/ Validate(w)
  <2>1. work'[w].op \notin BusyOps
    <3>1. work[w].op = "grant"
      BY <1>0, <1>8, ZenonT(60) DEF Pop, Validate, WorkOK
    <3>2. work'[w].op \in {"grant", "none", "recover"} /\ (work'[w].op = "recover" => FALSE)
      <4>1. \A step : Goto(w, step) => work'[w].op = "grant"
        BY <1>0, <3>1 DEF Goto, WorkRecord
      <4>2. \A s : work' = [work EXCEPT ![w] = [@ EXCEPT !.pc = "validate", !.id = s]] => work'[w].op = "grant"
        BY <1>0, <3>1 DEF WorkRecord
      <4>3. Leave(w) => work'[w].op = "none"
        BY <1>0, <3>1 DEF Leave, IdleWork, BusyOps
      <4> QED BY ZenonT(60), <1>8, <4>1, <4>2, <4>3 DEF Pop, Validate
    <3> QED BY <3>2 DEF BusyOps
  <2> QED BY <2>1 DEF AliveOK
<1>9. CASE Checkpoint(w)
  <2>1. \A b : work' = [work EXCEPT ![w] = [@ EXCEPT !.pc = "ckptResume", !.build = b]] => AliveOK(w)'
    BY <1>0, <1>e DEF AliveOK, WorkRecord
  <2> QED BY ZenonT(60), <1>9, <1>a, <2>1 DEF Checkpoint
<1>10. CASE CheckpointResume(w) \/ CheckpointRecord(w) \/ StopLost(w) \/ ReleaseDelete(w) \/ ReleaseDrop(w)
  BY ZenonT(60), <1>10, <1>a, <1>b, <1>d, <1>e
  DEF CheckpointResume, CheckpointRecord, StopLost, ReleaseDelete, ReleaseDrop
<1>11. CASE Mark(w)
  <2>1. lease' = lease
    BY <1>0, <1>11, ZenonT(60) DEF Mark, Save
  <2> QED BY ZenonT(60), <1>11, <1>c, <1>f, <2>1 DEF Mark
<1>12. CASE Crash(w)
  <2>1. lease[l].state # "lost"
    BY <1>0, <1>12, <1>f DEF Crash, OpAt, AliveOK, BusyOps
  <2>2. work'[w].lease = l /\ lease' = lease
    BY <1>0, <1>12 DEF Crash, WorkRecord
  <2> QED BY <2>1, <2>2 DEF AliveOK
<1>13. CASE Recover(w) \/ RetryFailed(w)
  BY ZenonT(60), <1>13, <1>a, <1>c, <1>f DEF Recover, RetryFailed
<1>14. CASE Lose(w)
  BY ZenonT(60), <1>14, <1>a, <1>b, <1>e DEF Lose
<1> QED
  BY ZenonT(60), <1>1, <1>2, <1>3, <1>4, <1>5, <1>6, <1>7, <1>8, <1>9, <1>10, <1>11, <1>12, <1>13, <1>14
  DEF WorkStep

\* A request takes a lease up that it finds not lost, or looks again.
LEMMA RequestAlive == ASSUME AInv, NEW w \in Handlers, Request(w) PROVE AliveInv'
<1>0. w \in Workers /\ work \in [Workers -> WorkRecord]
  BY DEF Workers, AInv, RInv, IInv, TypeOK
<1>1. ASSUME NEW op, NEW l, NEW step, NEW b, Start(w, op, l, step, b), UNCHANGED lease,
             op \in BusyOps /\ step \in AliveSteps => lease[l].state # "lost"
      PROVE  AliveInv'
  <2> USE <1>1
  <2>   AliveOK(w)'
    BY <1>0, ZenonT(60) DEF Start, AliveOK
  <2>   \A v \in Workers \ {w} : work'[v] = work[v]
    BY <1>0, ZenonT(60) DEF Start
  <2> QED BY <1>0, ZenonT(60) DEF AInv, AliveInv, AliveOK
<1>   {"grant", "fill", "release"} \cap BusyOps = {} /\ "found" \notin AliveSteps
  BY DEF BusyOps, AliveSteps, CreatePath, CreateSteps
<1> USE DEF memVars
<1>3. CASE Fill(w)
  BY ZenonT(60), <1>1, <1>3 DEF Fill
<1>4. ASSUME NEW l \in Leases, Grant(w, l) \/ Release(w, l) PROVE AliveInv'
  BY ZenonT(60), <1>1, <1>4 DEF Grant, Release
<1>5. ASSUME NEW l \in Leases, Restart(w, l) PROVE AliveInv'
  BY ZenonT(60), <1>1, <1>5 DEF Restart
<1>6. ASSUME NEW l \in Leases, NEW op \in Ops, Lookup(w, l, op) PROVE AliveInv'
  BY ZenonT(60), <1>1, <1>6 DEF Lookup
<1>7. ASSUME NEW l \in Leases, NEW op \in Ops, Seize(w, l, op) PROVE AliveInv'
  <2>   lease[l].state # "lost" /\ UNCHANGED lease
        /\ \E step : Start(w, op, l, step, NoBuild)
    BY <1>7, ZenonT(60) DEF Seize, live
  <2> QED BY <1>1, ZenonT(60)
<1> QED BY <1>3, <1>4, <1>5, <1>6, <1>7 DEF Request

\* The reconcile recovers live leases only; the sweep, the guests and a
\* backend restart begin no operation.
LEMMA OtherAlive ==
    ASSUME AInv,
           \/ Reconcile \/ Sweep \/ BackendRestart
           \/ \E l \in Leases : GuestRuns(l)
           \/ \E s \in Sandboxes : VmCrash(s)
           \/ UNCHANGED vars
    PROVE  AliveInv'
<1> DEFINE w == Reconciler
<1>0. /\ w \in Workers /\ work \in [Workers -> WorkRecord] /\ lease \in [Leases -> LeaseRecord]
      /\ OpAt(w)
  BY DEF Workers, AInv, RInv, IInv, TypeOK, PhaseInv
<1>1. CASE UNCHANGED <<lease, work>>
  BY <1>1, ZenonT(60) DEF AInv, AliveInv, AliveOK
<1>2. ASSUME UNCHANGED lease, AliveOK(w)', \A v \in Workers \ {w} : work'[v] = work[v]
      PROVE  AliveInv'
  BY <1>2, ZenonT(60) DEF AInv, AliveInv, AliveOK
<1> USE DEF memVars
<1>3. CASE ReconcileList \/ ReconcileTargets
  <2> USE <1>3
  <2>1. CASE UNCHANGED work
    BY <1>1, <2>1, ZenonT(60) DEF ReconcileList, ReconcileTargets
  <2>2. ASSUME NEW step \in {"listed", "next"}, Goto(w, step), UNCHANGED lease PROVE AliveInv'
    <3> USE <2>2
    <3>   AliveOK(w)' /\ \A v \in Workers \ {w} : work'[v] = work[v]
      BY <1>0, ZenonT(60) DEF Goto, AliveOK, AliveSteps, CreatePath, CreateSteps, WorkRecord
    <3> QED BY <1>2
  <2> QED BY ZenonT(60), <2>1, <2>2 DEF ReconcileList, ReconcileTargets
<1>4. CASE ReconcileEnd
  <2>   UNCHANGED lease /\ AliveOK(w)' /\ \A v \in Workers \ {w} : work'[v] = work[v]
    BY <1>0, <1>4, ZenonT(60) DEF ReconcileEnd, AliveOK, IdleWork, BusyOps
  <2> QED BY <1>2
<1>5. ASSUME NEW l \in Leases, ReconcileNext(l) PROVE AliveInv'
  <2> USE <1>5
  <2>1. CASE UNCHANGED work
    BY <1>1, <2>1, ZenonT(60) DEF ReconcileNext
  <2>2. CASE TrySetBusyPasses(l) /\ Start(w, "recover", l, "recover", NoBuild)
    <3>   UNCHANGED lease /\ AliveOK(w)' /\ \A v \in Workers \ {w} : work'[v] = work[v]
      BY <1>0, <2>2, ZenonT(60) DEF ReconcileNext, Start, TrySetBusyPasses, live, AliveOK
    <3> QED BY <1>2, ZenonT(60)
  <2> QED BY ZenonT(60), <2>1, <2>2 DEF ReconcileNext
<1>6. CASE BackendRestart
  <2>   work' = [v \in Workers |-> IdleWork]
    BY <1>0, <1>6, ZenonT(60) DEF BackendRestart
  <2> QED BY ZenonT(60) DEF AliveInv, AliveOK, IdleWork, BusyOps
<1>7. CASE \/ Sweep
           \/ \E l \in Leases : GuestRuns(l)
           \/ \E s \in Sandboxes : VmCrash(s)
           \/ UNCHANGED vars
  <2>   UNCHANGED <<lease, work>>
    BY ZenonT(60), <1>7
    DEF Sweep, SweepStart, SweepClaims, SweepKill, SweepList, SweepFlight, SweepClassify,
       SweepEnd, SweepPick, SweepUnchanged, GuestRuns, VmCrash, vars
  <2> QED BY <1>1
<1> QED BY <1>3, <1>4, <1>5, <1>6, <1>7, ZenonT(60) DEF Reconcile

\* The initial state has no operations ...
LEMMA AInitInv == ASSUME Init PROVE AInv
BY RInitInv, ZenonT(60) DEF Init, AInv, AliveInv, AliveOK, IdleWork, BusyOps

\* ... and no step lets one work on a lost lease.
LEMMA ANextInv == ASSUME AInv, [Next]_vars PROVE AInv'
<1>1. RInv'
  BY RNextInv DEF AInv
<1>2. ASSUME NEW w \in Workers, WorkStep(w) PROVE AliveInv'
  <2> USE <1>2
  <2>   StatesKept(w) /\ \A v \in Workers \ {w} : work'[v] = work[v]
    BY WorkPhase, WorkAlone, ZenonT(60) DEF AInv, RInv, PhaseStep
  <2> QED BY WorkAlive, AliveFrame, ZenonT(60)
<1>   AliveInv'
  BY <1>2, RequestAlive, OtherAlive DEF Next
<1> QED BY <1>1 DEF AInv

\* Whatever a goroutine does on the way to a running guest, or to losing its
\* lease, the lease is not lost meanwhile, suspends and restores excepted.
THEOREM AliveInvariance == Spec => []AInv
BY AInitInv, ANextInv, PTL DEF Spec

-----------------------------------------------------------------------------
(* Which operations run. *)

\* The operations of an instance: those its handlers offer, what a restart
\* becomes, and the recoveries.
RunOps == Ops \cup {"none", "recover"} \cup (IF "restart" \in Ops THEN {"cold", "fresh"} ELSE {})

OpInv == \A w \in Workers : work[w].op \in RunOps

\* An operation stays what it is until it ends, or becomes a recovery by the
\* crash it stages.
LEMMA OpMoves ==
    ASSUME IInv, NEW w \in Workers, WorkStep(w)
    PROVE  work'[w].op \in {work[w].op, "none"} \/ (Crash(w) /\ work'[w].op = "recover")
<1> DEFINE Kept == work'[w].op \in {work[w].op, "none"}
<1>   work \in [Workers -> WorkRecord]
  BY ZenonT(60) DEF IInv, TypeOK
<1>1. Leave(w) => Kept
  BY DEF Leave, WorkRecord, IdleWork
<1>   \A step : Goto(w, step) => Kept
  BY ZenonT(60) DEF Goto, WorkRecord
<1>3. work' = [work EXCEPT ![w] = IdleWork] => Kept
  BY DEF IdleWork
<1>4. \A step, b : work' = [work EXCEPT ![w] = [@ EXCEPT !.pc = step, !.build = b]] => Kept
  BY DEF WorkRecord
<1>5. CASE Begin(w)
  BY ZenonT(60), <1>3, <1>5 DEF Begin
<1>6. CASE EndBusy(w)
  BY <1>6 DEF EndBusy, IdleWork
<1>7. CASE Admit(w)
  <2>   \A s, b : work' = [work EXCEPT ![w] = [@ EXCEPT !.pc = "create", !.id = s, !.build = b]] => Kept
    BY DEF WorkRecord
  <2> QED BY ZenonT(60), <1>1, <1>7 DEF Admit, CreateFailed
<1>8. CASE Pop(w)
  <2>   \A s : work' = [work EXCEPT ![w] = [@ EXCEPT !.pc = "validate", !.id = s]] => Kept
    BY DEF WorkRecord
  <2> QED BY ZenonT(60), <1>8 DEF Pop
<1>9. ASSUME Crash(w) PROVE work'[w].op = "recover"
  BY <1>9 DEF Crash, WorkRecord
<1>10. CASE Pause(w) \/ Checkpoint(w)
  BY ZenonT(60), <1>1, <1>4, <1>10 DEF Pause, Checkpoint
<1>11. CASE Create(w) \/ Check(w) \/ Probe(w) \/ DropOld(w) \/ DropFirst(w) \/ Validate(w)
  BY ZenonT(60), <1>1, <1>11
  DEF Create, CreateFailed, Check, Probe, DropOld, DropFirst, Validate, StopFresh
<1>12. CASE Paused(w) \/ Commit(w) \/ EndCreate(w)
  BY ZenonT(60), <1>1, <1>12 DEF Paused, Commit, EndCreate, StopFresh
<1>13. CASE CheckpointResume(w) \/ CheckpointRecord(w) \/ Mark(w) \/ Recover(w) \/ RetryFailed(w)
  BY ZenonT(60), <1>1, <1>13
  DEF CheckpointResume, CheckpointRecord, Mark, Recover, RetryFailed
<1>14. CASE Lose(w) \/ StopLost(w) \/ ReleaseDelete(w) \/ ReleaseDrop(w)
  BY ZenonT(60), <1>1, <1>3, <1>14 DEF Lose, StopLost, ReleaseDelete, ReleaseDrop
<1> QED
  BY ZenonT(60), <1>5, <1>6, <1>7, <1>8, <1>9, <1>10, <1>11, <1>12, <1>13, <1>14 DEF WorkStep

\* No other operation ever begins.
LEMMA OpsRun == ASSUME IInv, OpInv, [Next]_vars PROVE OpInv'
<1>0. work \in [Workers -> WorkRecord] /\ Reconciler \in Workers /\ Handlers \subseteq Workers
  BY ZenonT(60) DEF IInv, TypeOK, Workers
<1>1. ASSUME NEW w \in Workers, WorkStep(w) PROVE OpInv'
  BY <1>0, <1>1, OpMoves, WorkAlone, ZenonT(60) DEF OpInv, RunOps
<1>2. ASSUME NEW w \in Workers, NEW op \in RunOps, NEW l, NEW step, NEW b, Start(w, op, l, step, b)
      PROVE  OpInv'
  BY <1>0, <1>2, ZenonT(60) DEF OpInv, Start
<1>3. CASE UNCHANGED work
  BY <1>3 DEF OpInv
<1>   Ops \cup {"recover"} \subseteq RunOps /\ ("restart" \in Ops => {"cold", "fresh"} \subseteq RunOps)
  BY DEF RunOps
<1>4. ASSUME NEW w \in Handlers, Request(w) PROVE OpInv'
  <2>   w \in Workers
    BY <1>0
  <2>1. Fill(w) => OpInv'
    BY ZenonT(60), <1>2 DEF Fill
  <2>2. \A l \in Leases : Grant(w, l) \/ Release(w, l) => OpInv'
    BY ZenonT(60), <1>2 DEF Grant, Release
  <2>   \A l \in Leases : Restart(w, l) => OpInv'
    BY ZenonT(60), <1>2 DEF Restart
  <2>   \A l \in Leases, op \in Ops : Lookup(w, l, op) \/ Seize(w, l, op) => OpInv'
    BY ZenonT(60), <1>2 DEF Lookup, Seize
  <2> QED BY <1>4, <2>1, <2>2, ZenonT(60) DEF Request
<1>5. CASE ReconcileList \/ ReconcileTargets
  BY <1>0, <1>5 DEF ReconcileList, ReconcileTargets, Goto, OpInv, WorkRecord
<1>6. CASE ReconcileEnd \/ BackendRestart
  BY <1>0, <1>6 DEF ReconcileEnd, BackendRestart, OpInv, IdleWork, RunOps
<1>7. \A l \in Leases : ReconcileNext(l) => OpInv'
  BY ZenonT(60), <1>0, <1>2, <1>3 DEF ReconcileNext
<1>8. CASE \/ Sweep
           \/ \E l \in Leases : GuestRuns(l)
           \/ \E s \in Sandboxes : VmCrash(s)
           \/ UNCHANGED vars
  <2>   UNCHANGED work
    BY ZenonT(60), <1>8
    DEF Sweep, SweepStart, SweepClaims, SweepKill, SweepList, SweepFlight, SweepClassify,
       SweepEnd, SweepPick, SweepUnchanged, GuestRuns, VmCrash, vars
  <2> QED BY <1>3
<1> QED BY <1>1, <1>4, <1>5, <1>6, <1>7, <1>8, ZenonT(60) DEF Next, Reconcile

-----------------------------------------------------------------------------
(* A lost lease stays lost. *)

\* Only a suspend or a restore that looked its lease up before it was lost
\* can give it another state.
LEMMA UnlostBy ==
    ASSUME AInv, NEW w \in Workers, WorkStep(w), NEW k \in Leases,
           lease[k].state = "lost", lease'[k].state # "lost"
    PROVE  /\ k = work[w].lease
           /\ \/ work[w].op = "suspend" /\ work[w].pc = "paused"
              \/ work[w].op = "restore" /\ work[w].pc = "commit"
<1>   /\ lease \in [Leases -> LeaseRecord] /\ AliveOK(w) /\ OpAt(w) /\ WorkOK(w) /\ GrantFresh
  BY ZenonT(60) DEF AInv, AliveInv, RInv, IInv, TypeOK, PhaseInv, WorkInv
<1>   k = work[w].lease /\ (HoldsBusy(w) \/ (work[w].op = "grant" /\ work[w].pc = "commit"))
  BY WorkPhase, ZenonT(60) DEF AInv, PhaseStep, StatesKept
<1>2. HoldsBusy(w)
  BY ZenonT(60) DEF GrantFresh
<1>   work[w].pc \in {"paused", "commit"}
  <2>1. CASE CheckpointRecord(w) \/ Mark(w)
    BY <2>1 DEF CheckpointRecord, Mark, Save, LeaseRecord
  <2>2. CASE Lose(w)
    BY <2>2 DEF Lose, Save, LeaseRecord
  <2>3. CASE UNCHANGED lease
    BY <2>3, ZenonT(60)
  <2> QED BY ZenonT(60), <2>1, <2>2, <2>3
      DEF WorkStep, Begin, EndBusy, Pause, Admit, Create, Check, Probe, Paused, Commit,
          DropOld, DropFirst, EndCreate, Pop, Validate, Checkpoint, CheckpointResume,
          Crash, Recover, RetryFailed, StopLost, ReleaseDelete, ReleaseDrop, memVars
<1>   work[w].op \in {"suspend", "restore"}
  BY <1>2, ZenonT(60) DEF AliveOK, AliveSteps, CreatePath, CreateSteps, HoldsBusy
<1> QED BY ZenonT(60) DEF OpAt, PausingOps, CreatingOps, CreateSteps

\* What every state and every step needs of the ones before.
LEMMA LostStep ==
    ASSUME "suspend" \notin Ops, "restore" \notin Ops, AInv, OpInv, [Next]_vars,
           NEW l \in inStore, lease[l].state = "lost"
    PROVE  lease'[l].state = "lost"
<1>0. l \in Leases /\ IInv
  BY ZenonT(60) DEF AInv, RInv, IInv, TypeOK
<1>1. ASSUME NEW w \in Workers, WorkStep(w) PROVE lease'[l].state = "lost"
  <2>   work[w].op \notin {"suspend", "restore"}
    BY ZenonT(60) DEF OpInv, RunOps
  <2> QED BY <1>0, <1>1, UnlostBy, ZenonT(60)
<1>2. CASE BackendRestart
  BY <1>0, <1>2, ZenonT(60) DEF BackendRestart, IInv, RowsAgree
<1>3. ASSUME NEW w \in Handlers, Request(w) PROVE UNCHANGED lease
  BY ZenonT(60), <1>3 DEF Request, Fill, Grant, Restart, Release, Lookup, Seize, memVars
<1>4. CASE \/ Reconcile \/ Sweep
           \/ \E k \in Leases : GuestRuns(k)
           \/ \E s \in Sandboxes : VmCrash(s)
           \/ UNCHANGED vars
  <2>   UNCHANGED lease
    BY ZenonT(60), <1>4
    DEF Reconcile, ReconcileList, ReconcileTargets, ReconcileNext, ReconcileEnd, Sweep,
        SweepStart, SweepClaims, SweepKill, SweepList, SweepFlight, SweepClassify,
        SweepEnd, SweepPick, SweepUnchanged, GuestRuns, VmCrash, vars, memVars
  <2> QED OBVIOUS
<1> QED BY <1>1, <1>2, <1>3, <1>4, ZenonT(60) DEF Next

\* LostStaysLost, where nothing suspends or restores a lease: once a
\* recovery has given a lease up, no operation that was already under way,
\* no reconcile pass and no backend restart brings it back; its only way on
\* is its release.  A restore that looked the lease up before breaks it
\* (RestoreLost).
THEOREM LostLeaseStaysLost ==
    ASSUME "suspend" \notin Ops, "restore" \notin Ops PROVE Spec => LostStaysLost
<1>1. Init => OpInv
  BY DEF Init, OpInv, IdleWork, RunOps
<1>2. AInv /\ OpInv /\ [Next]_vars => OpInv'
  BY OpsRun DEF AInv, RInv
<1>3. AInv /\ OpInv /\ [Next]_vars =>
        [\A l \in inStore : lease[l].state = "lost" /\ l \in inStore' => lease'[l].state = "lost"]_vars
  BY LostStep, ZenonT(60)
<1> QED BY <1>1, <1>2, <1>3, AliveInvariance, PTL DEF Spec, LostStaysLost

=============================================================================
